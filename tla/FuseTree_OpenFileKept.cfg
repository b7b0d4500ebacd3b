SPECIFICATION Spec
CONSTANTS
  t1 = t1
  t2 = t2
  t3 = t3
  n1 = n1
  n2 = n2
  n3 = n3
  x = x
  y = y
  h = h
  R = R
  D = D
  A = A
  B = B
  Root = Root
  NoNode = NoNode
  NoName = NoName
  NoFile = NoFile
  RootFile = R
  Threads = {t1, t2}
  Ids = {n1, n2}
  Names = {x, y}
  HiddenNames = {h}
  Files = {R, D, A}
  Dirs <- MCDirs
  InitHost <- MCHost
  Ops = {"lookup", "unlink", "open", "release"}
  RenameFlags = {"none"}
  HonoursFlags = FALSE
  MaxLookup = 1
  MaxOpen = 1
SYMMETRY MCSymmetry
INVARIANTS
  OpenFileKept
CHECK_DEADLOCK FALSE
