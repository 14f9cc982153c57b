SPECIFICATION FairSpec
CONSTANTS
  n_processes = 2
  N_RUNS = 2
  FileCounts = {2, 3}
  MaxFaults = 1
INVARIANTS TypeOK RootReportsLast FirstRunFilesDistinct
PROPERTY Completes
