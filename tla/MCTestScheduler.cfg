SPECIFICATION Spec
CONSTANTS
  MAX_PRIORITY = 4
  Tasks <- MCTasks
  Buffers <- MCBuffers
  BufferList <- MCBufferList
  Created <- MCCreated
  Code <- MCCode
  Capacity = 2
  NULL = NULL
INVARIANTS NoneWaitsBesideTokens TokensMatched StartReturnsLast
PROPERTIES  StartDoesReturn
CHECK_DEADLOCK FALSE
