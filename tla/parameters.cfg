SPECIFICATION ParametersSpec
CONSTANTS
  Nodes = {n1, n2}
  defaultConfig <- Config
  defaultParams <- Params
  Values = {0, 1, 2, 3}
  Settings <- Asked
  ExplicitCycles = {2}
  Migrations = {2, 3}
  configChangeMaxChangesToKeep = 1
  configChangeMaxCyclesToKeep = 1
  MaxCycle = 6
  MaxMessages = 2
CHECK_DEADLOCK FALSE
INVARIANTS ListsAgree ConfigAgrees StartsWithLatest
SYMMETRY Symmetry
