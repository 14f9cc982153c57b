SPECIFICATION StatsSpec
CONSTANTS
  m_runs = 3
  Samples = {0, 1, 5}
  MaxVals = 6
INVARIANTS StatsTypeOK MedianIsMiddle
