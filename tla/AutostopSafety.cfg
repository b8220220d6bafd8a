SPECIFICATION AutostopSpec
CONSTANTS
  Configs <- MCConfigs
  Samples <- MCSamples
  MaxSeconds = 5
  Clock = {0, 2}
INVARIANT StopsAsAsked
CHECK_DEADLOCK FALSE
