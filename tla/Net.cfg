SPECIFICATION FairSpec
CONSTANTS
  REQUESTS = 2
  ITERATIONS = 1
  FdLimit = 2
  MaxFaults <- EveryFault
INVARIANTS TypeOK AnsweredUnlessFault SlotsMatchDemand ClosedOnlyAfterReply
PROPERTIES RecvReturns BenchCompletes
CHECK_DEADLOCK FALSE
