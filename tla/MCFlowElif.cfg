CONSTANT Program <- WithElif
SPECIFICATION FairSpec
PROPERTY NoSilentLoop
CHECK_DEADLOCK FALSE
