SPECIFICATION ToolSpec
CONSTANTS
  w1 = w1
  w2 = w2
  p1 = p1
  p2 = p2
  f1 = f1
  f2 = f2
  Threads <- MCThreadSet
  Slots <- MCSlotSet
  TokenValues <- MCTokens
  Addrs <- MCAddrs
  Contents <- MCZero
  Values <- MCZero
  Lint <- MCSame
  Funcs <- MCFuncSet
  MaxTasks = 3
  MaxSends = 3
  MaxAccesses = 1
  Scheduler = "threadPool"
  StrayCopies = FALSE
  CONC_THREASHOLD = 3
  MaxShown = 1
  NULL = NULL
SYMMETRY MCSymmetry
INVARIANTS TypeOK TokensAttributed NoStreamMissed NoEdgeInvented
INVARIANTS ReportedAccessesMade FuncsNamedFirst SummaryFaithful
CHECK_DEADLOCK FALSE
