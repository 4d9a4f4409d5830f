----------------------------- MODULE BlockStream -----------------------------
(***************************************************************************)
(* The block stream both binaries start: BlockStreamConfig carries a      *)
(* last_indexed_slot and the stream delivers the blocks after it.  The    *)
(* chain is abstracted to the set of slots that hold a block (skipped     *)
(* slots hold none).                                                       *)
(***************************************************************************)
EXTENDS Integers, FiniteSetsExt

CONSTANT Blocks     \* the slots that hold a block

ASSUME BlocksAssumption == Blocks \subseteq Nat /\ IsFiniteSet(Blocks)

NoSlot == -1        \* Option::None of a slot

\* The first block the stream delivers for a given last_indexed_slot: the
\* snapshot server logs "Starting from slot {last_indexed_slot + 1}".
FirstStreamed(lastIndexedSlot) == Min({b \in Blocks : b > lastIndexedSlot})

\* The first block at or after slot s.
FirstBlockFrom(s) == Min({b \in Blocks : b >= s})

\* fetch_block_parent_slot: the slot of the block before s.
ParentSlot(s) == Max({b \in Blocks : b < s})

=============================================================================
