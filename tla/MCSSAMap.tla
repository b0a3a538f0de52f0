------------------------------ MODULE MCSSAMap ------------------------------
\* SSAMap with two values and at most four slots.
EXTENDS SSAMap
=============================================================================
