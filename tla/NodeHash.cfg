SPECIFICATION Spec
CHECK_DEADLOCK FALSE
CONSTANTS
  NODE_TABLE_MIN_SIZE = 2
  IdLimit = 7
  PerSlab = 2
  Pages = {1, 2, 3}
  Names = {"a", "b"}
  Code <- MCCode
  Setups <- MCSetups
INVARIANTS  MemoryExact
PROPERTY TablesMap
