\* photon's main: migrations of the temporary database precede their use,
\* and shutdown terminates whatever the indexer task does.
CONSTANTS
    Blocks <- MCBlocks
    StartSlots <- MCStartSlots
    DbSlots <- MCDbSlots
    Networks <- MCNetworks
SPECIFICATION Spec
INVARIANT SchemaBeforeUse
PROPERTY ShutdownCompletes
\* main really stops: after it returns, or after a panic.
CHECK_DEADLOCK FALSE
