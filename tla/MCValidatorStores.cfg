SPECIFICATION Spec
CONSTANTS
  IRlogs <- MCIRlogs
  CodeOf <- MCCodeOf
  Pairs <- MCPairs
  Shared <- MCShared
  Literal <- MCLiteral
  Names <- MCNames
  CalleeLines <- MCCallee
  GarbageOpers <- MCGarbage
  MaxConflicts = 1
INVARIANT DroppedWritesCommute
CHECK_DEADLOCK FALSE
