SPECIFICATION Spec
CONSTANTS
  Functions <- MCFunctions
  Globals <- MCGlobals
  Methods <- MCMethods
  Outcomes <- MCOutcomes
INVARIANT LoweredOnce
CHECK_DEADLOCK FALSE
