SPECIFICATION Spec
CONSTANTS
  t1 = t1
  t2 = t2
  r1 = r1
  n1 = n1
  f1 = f1
  u1 = u1
  NoReq = NoReq
  NoThread = NoThread
  Threads = {t1, t2}
  Reqs = {r1, n1, u1, f1}
  Kind <- MCKind
INVARIANTS
  ObjectsExact
  DataInScope
  InterruptKept
  ChannelKept
PROPERTIES
  SignalsHitHandler
  Answered
CHECK_DEADLOCK FALSE
