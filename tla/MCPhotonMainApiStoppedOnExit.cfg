\* photon's main checked against ApiStoppedOnExit.
CONSTANTS
    Blocks <- MCBlocks
    StartSlots <- MCStartSlots
    DbSlots <- MCDbSlots
    Networks <- MCNetworks
SPECIFICATION Spec
INVARIANT ApiStoppedOnExit
\* main really stops: after it returns, or after a panic.
CHECK_DEADLOCK FALSE
