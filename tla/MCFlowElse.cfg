CONSTANT Program <- WithElse
SPECIFICATION FairSpec
INVARIANT Faithful
CHECK_DEADLOCK FALSE
