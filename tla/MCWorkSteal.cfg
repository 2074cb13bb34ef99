SPECIFICATION Spec
CONSTANTS
  Tasks <- MCTasks
  Owner = "owner"
  Thieves <- MCThieves
  LogSize = 1
  Garbage <- MCGarbage
  StoreBuffer = 3
  MaxBottom = 3
  NULL = NULL
CONSTRAINT Followed
INVARIANTS PopAnswers
PROPERTIES KeepsPromise EveryTaskTaken
CHECK_DEADLOCK FALSE
