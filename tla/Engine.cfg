SPECIFICATION Spec
CONSTANTS
  None = None
  Root <- MCRoot
  MaxRoot <- MCMaxRoot
  Bad = Bad
  Versions = {"1", "2", "3"}
  Concepts = {"rev"}
  Submitted <- MCSubmitted
  FirstYear = 1
  LastYear = 3
  Returns <- MCReturns
  Entries <- MCEntries
  MaxChanges = 3
  MaxRuns = 2
INVARIANTS
  TypeOK
  NeverRaises
  StoredIsCurrent
  OnDemandAgrees
  UnflaggedIsReal
CHECK_DEADLOCK FALSE
