SPECIFICATION Spec
CONSTANTS
  Functions <- WhileFunctions
  Globals <- MCGlobals
  Methods <- MCMethods
  Outcomes <- MCOutcomes
INVARIANT TracesAgree
CHECK_DEADLOCK FALSE
