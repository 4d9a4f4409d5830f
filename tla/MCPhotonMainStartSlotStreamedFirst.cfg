\* photon's main checked against StartSlotStreamedFirst.
CONSTANTS
    Blocks <- MCBlocks
    StartSlots <- MCStartSlots
    DbSlots <- MCDbSlots
    Networks <- MCNetworks
SPECIFICATION Spec
INVARIANT StartSlotStreamedFirst
\* main really stops: after it returns, or after a panic.
CHECK_DEADLOCK FALSE
