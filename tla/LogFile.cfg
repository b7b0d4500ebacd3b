SPECIFICATION Spec
CONSTANTS
  t1 = t1
  t2 = t2
  Threads <- MCThreads
  MaxClock = 2
  MaxMsgs = 2
SYMMETRY MCSymmetry
INVARIANTS
  StampsFromOverlap
  IsolatedLineExact
CHECK_DEADLOCK FALSE
