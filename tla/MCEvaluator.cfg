CONSTANTS
  Sessions <- MCSessions
  Programs <- MCPrograms
  SmallInts <- MCSmallInts
  StaticNames = {"__monty", "int"}
  MaxTicks = 30
SPECIFICATION Spec
INVARIANTS ScopeMirrored InternedOnce WorkBounded ScopesExact OperandsDefined
PROPERTY EvalEnds
CHECK_DEADLOCK FALSE
