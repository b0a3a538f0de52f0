CONSTANTS
  Sessions <- MCNestedSessions
  Programs <- MCNested
  SmallInts <- MCSmallInts
  StaticNames = {"__monty", "int"}
  MaxTicks = 30
SPECIFICATION Spec
PROPERTY LookupResolves
CHECK_DEADLOCK FALSE
