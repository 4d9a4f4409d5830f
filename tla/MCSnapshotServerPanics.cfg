\* The snapshot server checked against its shutdown assertions.
CONSTANTS
    Blocks <- MCBlocks
    StartSlots <- MCStartSlots
    NetworkStartSlots <- MCNetworkStartSlots
    SnapshotListings <- MCSnapshotListings
    SnapshotStreams <- MCSnapshotStreams
SPECIFICATION Spec
INVARIANT ShutdownNeverPanics
\* main really stops: after it returns, or after a panic.
CHECK_DEADLOCK FALSE
