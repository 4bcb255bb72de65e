SPECIFICATION Components
CONSTANTS
  None = None
  Worker = {w1, w2, w3}
  Window = 4
  Limit = 2
  Starter = {s1, s2}
  Looker = {l1}
  Pid = {p1, p2}
  Torn = Torn
  Faults = TRUE
  MaxOps = 4
  Eins = {o1, o2}
  Names = {n1, n2}
  ZipCodes = {y1, y2}
  Counties = {c1, c2}
  Forms = {"990PF", "990"}
  Threads = {t1, t2}
SYMMETRY Symmetric
INVARIANTS
  SecuredStartsClean
  RateHolds
  LockInv
  AloneIsGuarded
  FuzzyIsComplete
  CountyOfZip
  TypeOfForms
PROPERTY FailsBehindWriter
