SPECIFICATION Spec
CONSTANTS
  None = None
  Orgs <- MCOrgs
  Years <- MCYears
  Returns <- MCReturns
  Dims = {x, z}
  Totals = {0, 1}
  Factors = {f, g}
  Threads = {t1, t2}
  MaxStarts = 3
SYMMETRY Symmetric
INVARIANTS BoardRight TotalIsSum RankingsAgree
CHECK_DEADLOCK FALSE
