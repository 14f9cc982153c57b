SPECIFICATION FairSpec
CONSTANTS
  n_processes = 1
  N_RUNS = 2
  FileCounts = {2}
  MaxFaults = 0
INVARIANT AtMostAsAnnounced
