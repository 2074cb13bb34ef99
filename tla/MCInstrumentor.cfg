SPECIFICATION Spec
CONSTANTS
  Pointers <- MCPointers
  OnStack <- MCOnStack
  Captured <- MCCaptured
  ConstantData <- MCConstant
  Addrs <- MCAddrs
  Envs <- MCEnvs
  Functions <- MCFunctions
  MaxBlocks = 2
  NULL = NULL
INVARIANTS TypeOK AccessesLogged TokensReported
CHECK_DEADLOCK FALSE
