--------------------------- MODULE MCSnapshotServer ---------------------------
(***************************************************************************)
(* Model-checking harness for the snapshot server: a chain with skipped   *)
(* slots, start slots with a parent block, and snapshot directories that  *)
(* are empty or hold one or two files; byte streams that end, are empty, *)
(* or fail in the middle.                                                  *)
(***************************************************************************)
EXTENDS SnapshotServer

MCBlocks            == {1, 2, 3, 5, 9}
MCStartSlots        == {3, 5}
MCNetworkStartSlots == {0}
MCSnapshotListings  == {<<>>, <<2>>, <<2, 5>>}
\* An empty directory, a snapshot read whole, and one whose second read
\* fails before a third byte.
MCSnapshotStreams   == {<<>>, <<"byte", "byte">>, <<"byte", "err", "byte">>}

=============================================================================
