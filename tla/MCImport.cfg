SPECIFICATION FairSpec
CONSTANTS
  Dir = {"A", "B"}
  Name = {"m", "n"}
  Canonical <- MCCanonical
  Cwd = "a"
  SysPaths <- MCSysPaths
  Paths <- MCPaths
  SysModules <- MCSysModules
  StaticNames = {"__monty", "importlib"}
  MaxChanges = 3
INVARIANT OneFinderPerPath
PROPERTIES FromFirstListed SearchEnds
CHECK_DEADLOCK FALSE
