\* The snapshot server: where the snapshotter resumes, and shutdown
\* terminating whichever task ends first.
CONSTANTS
    Blocks <- MCBlocks
    StartSlots <- MCStartSlots
    NetworkStartSlots <- MCNetworkStartSlots
    SnapshotListings <- MCSnapshotListings
    SnapshotStreams <- MCSnapshotStreams
SPECIFICATION Spec
INVARIANT SnapshotterStartsRight
PROPERTY ShutdownCompletes
\* main really stops: after it returns, or after a panic.
CHECK_DEADLOCK FALSE
