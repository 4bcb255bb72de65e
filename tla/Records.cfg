SPECIFICATION Records
CONSTANTS
  None = None
  Versions = {m1, m2, m3}
  Threads = {t1}
  Commands = {k1}
  MaxRefs = 1
  MaxCalls = 3
  Periods = {2020}
  Concepts = {c}
  Forms = {F1}
  Values = {v1, v2}
  Junk = Junk
  NaN = NaN
  Editors = {ed}
  MaxObs = 3
SYMMETRY Symmetry
INVARIANTS
  ModelsInv
  FactsCanonical
  FactsChosen
PROPERTY FactsPersonStays
CHECK_DEADLOCK FALSE
