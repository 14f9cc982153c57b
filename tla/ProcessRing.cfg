SPECIFICATION FairSpec
CONSTANTS
  N = 4
  iters = 2
  Runs = 2
  FdLimit = 9
  HasCore1 = TRUE
  MaxFaults = 1
INVARIANTS TypeOK OneToken EveryPassTimed PipesAvailable
PROPERTIES Completes RingSpec
CHECK_DEADLOCK FALSE
