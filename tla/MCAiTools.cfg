CONSTANTS
  Run = {r1, r2}
  Call = {c1, c2}
  Lisp = lisp
  None = none
  HistoryLimit = 4
  MaxNest = 2
SPECIFICATION FairSpec
INVARIANTS CallCounted HistoryWhole
PROPERTIES RunReports PromiseKept
CHECK_DEADLOCK FALSE
