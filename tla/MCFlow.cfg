CONSTANT Program <- Structured
SPECIFICATION FairSpec
INVARIANTS Faithful BlocksHoldCode
PROPERTIES NoSilentLoop EdgesCover
CHECK_DEADLOCK FALSE
