SPECIFICATION Spec
CONSTANTS
  t1 = t1
  t2 = t2
  reg1 = reg1
  dir1 = dir1
  lnk1 = lnk1
  spc1 = spc1
  p1 = p1
  p2 = p2
  NoInode = NoInode
  NoPath = NoPath
  Threads <- MCThreads
  Inodes <- MCInodes
  Paths <- MCPaths
  Kind <- MCKind
  HostErrors <- MCHostErrors
  MaxFd = 4
INVARIANT
  FailureReported
CHECK_DEADLOCK FALSE
