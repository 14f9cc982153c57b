SPECIFICATION Spec
CONSTANTS
  Half = 3
  Cores = {0, 1}
  Offset <- Ahead
  ITER = 3
  ARR_SIZE = 6
  UNROLL = 2
  Strides <- TwoStrides
  FileBlocks <- TwoFiles
  MappedBlocks = 4
  CacheBlocks = 5
  Runs = 2
  Durations = {2}
  Longest = 2
INVARIANTS TypeOK SumIsElapsed TimedWork CacheAsIntended OneExperiment
