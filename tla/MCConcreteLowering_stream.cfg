CONSTANTS
  LevelNames <- MCLevelNames
  LevelSize <- MCLevelSize
  Prefetch = 2
  TxBytes = 4
  MAX_REPEAT = 3
  Workloads <- MixedWork
  Options <- MCOptions
SPECIFICATION Spec
INVARIANT HostStreamInSB
