SPECIFICATION Spec
CONSTANTS
  Workers <- MCWorkers
  BoundTo <- MCBoundTo
  Tasks <- MCTasks
  Buffers <- MCBuffers
  BufferList <- MCBufferList
  Created <- MCCreated
  Code <- MCCode
  Capacity = 2
  NULL = NULL
INVARIANT SignalNotMissed
CHECK_DEADLOCK FALSE
