SPECIFICATION FairSpec
CONSTANTS
  N = 4
  iters = 2
  Runs = 2
  MaxFaults = 2
INVARIANTS TypeOK DistinctEnds RingSharesCore1 EveryPassTimed
PROPERTIES Completes RingSpec
CHECK_DEADLOCK FALSE
