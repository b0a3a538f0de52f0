CONSTANTS
  NBlocks = 4
  CFGs <- AllCFGs
SPECIFICATION FairSpec
INVARIANTS Sorted VisitedOnce TypedReachable DominatorsFirst
PROPERTIES Terminates ImplementsSearch
CHECK_DEADLOCK FALSE
