SPECIFICATION FairSpec
CONSTANTS
  Functions <- MCFunctions
  Globals <- MCGlobals
  Methods <- MCMethods
  Outcomes <- MCOutcomes
INVARIANTS TracesAgree TypesHold
PROPERTIES LoweredReachable CompilingEnds
CHECK_DEADLOCK FALSE
