CONSTANTS
  Sessions <- MCForeignSessions
  Programs <- MCForeign
  SmallInts <- MCSmallInts
  StaticNames = {"__monty", "int"}
  MaxTicks = 30
SPECIFICATION Spec
INVARIANT OwnCode
CHECK_DEADLOCK FALSE
