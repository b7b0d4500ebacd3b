SPECIFICATION Spec
CONSTANTS
  t1 = t1
  t2 = t2
  t3 = t3
  n1 = n1
  n2 = n2
  n3 = n3
  x = x
  y = y
  h = h
  R = R
  D = D
  A = A
  B = B
  Root = Root
  NoNode = NoNode
  NoName = NoName
  NoFile = NoFile
  RootFile = R
  Threads = {t1, t2, t3}
  Ids = {n1, n2}
  Names = {x, y}
  HiddenNames = {h}
  Files = {R, D, A, B}
  Dirs <- MCTwoDirs
  InitHost <- MCHostTwo
  Ops = {"lookup", "getattr", "rename", "unlink"}
  RenameFlags = {"none", "exchange"}
  HonoursFlags = FALSE
  MaxLookup = 1
  MaxOpen = 1
PROPERTIES
  QueueServed
CHECK_DEADLOCK FALSE
