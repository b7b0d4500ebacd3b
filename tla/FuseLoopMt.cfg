SPECIFICATION Spec
CONSTANTS
  w1 = w1
  w2 = w2
  w3 = w3
  r1 = r1
  r2 = r2
  f1 = f1
  NoReq = NoReq
  Workers <- MCWorkers
  Reqs <- MCReqs
  Forgets <- MCForgets
  Child <- MCChild
  MaxAvail = 1
  MaxIntr = 1
INVARIANTS
  PoolCounts
  ListedOrLeaving
  NoUseAfterReturn
  ChanRefs
  AvailableWorker
PROPERTIES
  Served
  UnmountEnds
