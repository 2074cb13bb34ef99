SPECIFICATION Spec
CONSTANTS
  IRlogs <- MCIRlogs
  CodeOf <- MCCodeOf
  Pairs <- MCPairs
  Shared <- MCShared
  Literal <- MCLiteral
  Names <- MCNames
  CalleeLines <- MCCallee
  GarbageOpers <- MCGarbage
  MaxConflicts = 3
INVARIANTS VerdictsByDataFlow ReadWriteKept DroppedUpdatesCommute PlainUpdatesDropped
CHECK_DEADLOCK FALSE
