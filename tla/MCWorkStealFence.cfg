SPECIFICATION Spec
CONSTANTS
  Tasks <- MCTasks
  Owner = "owner"
  Thieves <- MCThieves
  LogSize = 2
  Garbage <- MCGarbage
  StoreBuffer = 3
  MaxBottom = 3
  NULL = NULL
INVARIANTS TakenByOne
CHECK_DEADLOCK FALSE
