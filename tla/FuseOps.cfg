SPECIFICATION Spec
CHECK_DEADLOCK FALSE
CONSTANTS
  o1 = o1
  o2 = o2
  OFFSET_MAX = 2
  Owners = {o1, o2}
  Configs <- MCConfigs
  Listings <- MCListings
  Sizes = {1, 2, 4}
  MaxOpen = 1
  MaxLookups = 2
  MaxVersion = 2
  Shapes <- MCShapes
  MaxData = 2
  MaxCalls = 4
  CHUNK = 2
  MaxLoop = 4
  PipeSize = 6
INVARIANTS RequestDone HandlesAgree FirstErrorStops NullPathOnly LocksAgree
  GetlkTrue DirInOrder KeepCurrent PipeEmpty DataExact
PROPERTY LockRecord
