CONSTANT Program <- OpenEnded
SPECIFICATION Spec
INVARIANT BlocksHoldCode
CHECK_DEADLOCK FALSE
