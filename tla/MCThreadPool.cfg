SPECIFICATION Spec
CONSTANTS
  Workers <- MCWorkers
  BoundTo <- MCBoundTo
  Tasks <- MCTasks
  Buffers <- MCBuffers
  BufferList <- MCBufferList
  Created <- MCCreated
  Code <- MCCode
  Capacity = 2
  NULL = NULL
INVARIANTS TypeOK TasksInOnePlace TokensConserved RegionDoneLast
PROPERTIES RegionGetsDone
CHECK_DEADLOCK FALSE
