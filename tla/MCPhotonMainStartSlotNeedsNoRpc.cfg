\* photon's main checked against StartSlotNeedsNoRpc.
CONSTANTS
    Blocks <- MCBlocks
    StartSlots <- MCStartSlots
    DbSlots <- MCDbSlots
    Networks <- MCNetworks
SPECIFICATION Spec
PROPERTY StartSlotNeedsNoRpc
\* main really stops: after it returns, or after a panic.
CHECK_DEADLOCK FALSE
