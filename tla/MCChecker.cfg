SPECIFICATION Spec
CONSTANTS
  Tasks <- MCTasks
  Addrs <- MCAddrs
  Values <- MCValues
  Funcs <- MCFuncs
  FuncIds <- MCFuncIds
  CONC_THREASHOLD = 2
  NULL = NULL
INVARIANTS TypeOK BagAccounting  BagsAreComplete ReportsExplained  NeverCrashes
 
CHECK_DEADLOCK FALSE
