---------------------------- MODULE AssemblerCall ----------------------------
(***************************************************************************)
(* One call of parse_public_transaction_event (EventAssembler) on a pair  *)
(* of decoded events, and what section 4.3 of spec.md says of its result  *)
(* (ParserReference).  The inputs are parameters: MC modules give small   *)
(* sets of changelog lists and events.                                     *)
(***************************************************************************)
EXTENDS EventAssembler, ParserReference

CONSTANTS
    ChangelogsInputs,   \* the Vec<ChangelogEvent> a call may receive
    EventInputs         \* the PublicTransactionEvent a call may receive

ASSUME InputsAssumption ==
    /\ ChangelogsInputs \subseteq Seq(ChangelogEvent)
    /\ EventInputs \subseteq PublicTransactionEvent

VARIABLES changelogs, event, outcome

vars == <<changelogs, event, outcome>>

Pending == [kind |-> "pending", val |-> EmptyUpdate]

Init ==
    /\ changelogs \in ChangelogsInputs
    /\ event \in EventInputs
    /\ outcome = Pending

\* One call of parse_public_transaction_event.
Assemble ==
    /\ outcome = Pending
    /\ outcome' = ParsePublicTransactionEvent(changelogs, event)
    /\ UNCHANGED <<changelogs, event>>

Spec == Init /\ [][Assemble]_vars

TypeOK ==
    /\ changelogs \in Seq(ChangelogEvent)
    /\ event \in PublicTransactionEvent
    /\ outcome \in OutcomeT \cup {Pending}

-----------------------------------------------------------------------------
(***************************************************************************)
(* On an event whose accounts and hashes pair up and whose input indices  *)
(* are inside pubkey_array (I2), the assembler returns exactly what       *)
(* section 4.3 prescribes: the same error, or an update whose inputs      *)
(* carry pubkey_array[index] and no seq, whose j-th output carries the    *)
(* tree and seq of the j-th path update, and whose path nodes are every   *)
(* path expanded leaf first with level and depth (P2-P4, I3-I5).          *)
(***************************************************************************)
AssemblyMatchesSpec ==
    outcome # Pending /\ WellFormedEvent(event) /\ EventInRange(event)
        => outcome = SpecAssemble(changelogs, event)

(***************************************************************************)
(* P5: an event whose hashes pair up with its accounts, so that every     *)
(* input account is reached, and that breaks I1 (output count) or I2 (a   *)
(* merkle_tree_pubkey_index past the end of pubkey_array) is rejected     *)
(* with MalformedEvent, not accepted and not a panic.                     *)
(***************************************************************************)
MalformedRejected ==
    outcome # Pending /\ WellFormedEvent(event) /\ SpecMalformed(changelogs, event)
        => outcome.kind = "malformed"

(***************************************************************************)
(* I1 with I3: an accepted event yields one output account per path       *)
(* update, so every emitted leaf path has the account it belongs to.      *)
(***************************************************************************)
OutputPerPathUpdate ==
    outcome.kind = "ok"
        => Len(outcome.val.out) = Len(SpecPathUpdates(changelogs))

=============================================================================
