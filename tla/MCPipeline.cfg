SPECIFICATION ToolSpec
CONSTANTS
  w1 = w1
  w2 = w2
  p1 = p1
  p2 = p2
  f1 = f1
  f2 = f2
  Threads <- MCOneThread
  Slots <- MCOneSlot
  TokenValues <- MCTokens
  Addrs <- MCAddrs
  Contents <- MCHalves
  Values <- MCValues
  Lint <- MCTruncates
  Funcs <- MCOneFunc
  MaxTasks = 3
  MaxSends = 2
  MaxAccesses = 2
  Scheduler = "taskPerThread"
  StrayCopies = TRUE
  CONC_THREASHOLD = 3
  MaxShown = 1
  NULL = NULL
INVARIANTS FalseReportsExplained  BlocksFaithful ReaderNotStuck
INVARIANT ParentsLoggedFirst
CHECK_DEADLOCK FALSE
