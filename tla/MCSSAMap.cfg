CONSTANTS
  Value = {v1, v2}
  Vacant = none
  MaxSlots = 4
  MaxSkip = 2
SPECIFICATION Spec
INVARIANTS Aligned NoAliasing
PROPERTY NeverVacated
CHECK_DEADLOCK FALSE
