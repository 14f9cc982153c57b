SPECIFICATION FairSpec
CONSTANTS
  REQUESTS = 1
  ITERATIONS = 1
  FdLimit = 2
  MaxFaults <- OneConnect
PROPERTY ServerRunsOut
CHECK_DEADLOCK FALSE
