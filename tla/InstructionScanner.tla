-------------------------- MODULE InstructionScanner --------------------------
(***************************************************************************)
(* parse_transaction of src/src/ingester/parser/mod.rs: the scan over     *)
(* each instruction group (outer instruction, then its inner ones) that   *)
(* recognises the account-compression + noop + noop trigger, decodes the  *)
(* two noop payloads, assembles a StateUpdate per trigger, aborts the     *)
(* whole transaction on the first error and merges the updates.  One step *)
(* is one iteration of the code's loops.                                   *)
(*                                                                         *)
(* The assembler is a parameter: Assemble(changelogs, event) is           *)
(* parse_public_transaction_event (EventAssembler), and MC modules        *)
(* substitute it.                                                          *)
(***************************************************************************)
EXTENDS Naturals, Sequences, FiniteSets, TransactionInfo, StateUpdate

CONSTANTS
    Assemble(_, _),   \* parse_public_transaction_event
    TxInputs          \* the transactions a run parses

ASSUME AssembleTypeAssumption ==
    \A d1, d2 \in Payloads :
        d1.cl # DecodeFail /\ d2.pte # DecodeFail
            => Assemble(d1.cl, d2.pte) \in OutcomeT

ASSUME TxInputsAssumption == TxInputs \subseteq Transaction

VARIABLES
    tx,             \* the TransactionInfo being parsed
    group,          \* the instruction group the outer loop is at
    index,          \* 1 + the index of the inner loop's enumerate
    stateUpdates,   \* state_updates: one StateUpdate per matched trigger
    logged,         \* logged_transaction
    result          \* the Result returned, or "pending"

vars == <<tx, group, index, stateUpdates, logged, result>>

Pending == [kind |-> "pending", val |-> EmptyUpdate]

\* ordered_intructions: the outer instruction followed by the inner ones.
OrderedInstructions(grp) == <<grp.outer>> \o grp.inner

Ins == OrderedInstructions(tx[group])

\* A variant of the trigger test below that does not look for the noop
\* program among the emitter's accounts.
IsEventTriggerNoAccountCheck(ins, k) ==
    /\ Len(ins) - (k - 1) > 2
    /\ ACCOUNT_COMPRESSION_PROGRAM_ID = ins[k].program
    /\ ins[k + 1].program = NOOP_PROGRAM_ID
    /\ ins[k + 2].program = NOOP_PROGRAM_ID

\* The two guards of the loop body, for the instruction at 1-based
\* position k: `len - index > 2` and the four-way trigger test.
IsEventTrigger(ins, k) ==
    /\ Len(ins) - (k - 1) > 2
    /\ ACCOUNT_COMPRESSION_PROGRAM_ID = ins[k].program
    /\ NOOP_PROGRAM_ID \in ins[k].accounts
    /\ ins[k + 1].program = NOOP_PROGRAM_ID
    /\ ins[k + 2].program = NOOP_PROGRAM_ID

\* Changelogs::deserialize of the next instruction's data, then
\* PublicTransactionEvent::deserialize of the one after (each `?` returns
\* a ParserError), then parse_public_transaction_event.
TriggerOutcome(ins, k) ==
    LET changelogs == ins[k + 1].data.cl
        event      == ins[k + 2].data.pte
    IN  IF changelogs = DecodeFail THEN Err("parser")
        ELSE IF event = DecodeFail THEN Err("parser")
        ELSE Assemble(changelogs, event)

Running == result = Pending

Init ==
    /\ tx \in TxInputs
    /\ group = 1
    /\ index = 1
    /\ stateUpdates = <<>>
    /\ logged = FALSE
    /\ result = Pending

\* An iteration of the inner loop whose instruction starts no trigger.
ScanInstruction ==
    /\ Running
    /\ group <= Len(tx)
    /\ index <= Len(Ins)
    /\ ~IsEventTrigger(Ins, index)
    /\ index' = index + 1
    /\ UNCHANGED <<tx, group, stateUpdates, logged, result>>

\* A variant of the iteration below that pushes the Result itself.
HandleTriggerPushResult ==
    /\ Running
    /\ group <= Len(tx)
    /\ index <= Len(Ins)
    /\ IsEventTrigger(Ins, index)
    /\ logged' = TRUE
    /\ LET o == TriggerOutcome(Ins, index)
       IN  \/ /\ o.kind = "ok"
              /\ stateUpdates' = Append(stateUpdates, o)
              /\ index' = index + 1
              /\ UNCHANGED result
           \/ /\ o.kind # "ok"
              /\ result' = o
              /\ UNCHANGED <<stateUpdates, index>>
    /\ UNCHANGED <<tx, group>>

\* An iteration that matches a trigger: log once, decode, assemble, and
\* either push the update or return the error.
HandleTrigger ==
    /\ Running
    /\ group <= Len(tx)
    /\ index <= Len(Ins)
    /\ IsEventTrigger(Ins, index)
    /\ logged' = TRUE
    /\ LET o == TriggerOutcome(Ins, index)
       IN  \/ /\ o.kind = "ok"
              /\ stateUpdates' = Append(stateUpdates, o.val)
              /\ index' = index + 1
              /\ UNCHANGED result
           \/ /\ o.kind # "ok"
              /\ result' = o
              /\ UNCHANGED <<stateUpdates, index>>
    /\ UNCHANGED <<tx, group>>

\* A variant of the step below that keeps the inner cursor.
NextGroupNoReset ==
    /\ Running
    /\ group <= Len(tx)
    /\ index > Len(Ins)
    /\ group' = group + 1
    /\ UNCHANGED <<tx, index, stateUpdates, logged, result>>

\* The inner loop is exhausted: the outer loop takes the next group.
NextGroup ==
    /\ Running
    /\ group <= Len(tx)
    /\ index > Len(Ins)
    /\ group' = group + 1
    /\ index' = 1
    /\ UNCHANGED <<tx, stateUpdates, logged, result>>

\* Both loops are done: Ok(StateUpdate::merge_updates(state_updates)).
Finish ==
    /\ Running
    /\ group > Len(tx)
    /\ result' = Ok(MergeUpdates(stateUpdates))
    /\ UNCHANGED <<tx, group, index, stateUpdates, logged>>

Next == ScanInstruction \/ HandleTrigger \/ NextGroup \/ Finish

\* The loop runs on one thread without waiting on anything.
Spec == Init /\ [][Next]_vars /\ WF_vars(Next)

-----------------------------------------------------------------------------
TypeOK ==
    /\ tx \in Transaction
    /\ group \in 1..Len(tx) + 1
    /\ index \in Nat \ {0}
    /\ stateUpdates \in Seq(StateUpdateT)
    /\ logged \in BOOLEAN
    /\ result \in OutcomeT \cup {Pending}

-----------------------------------------------------------------------------
(***************************************************************************)
(* The triggers of the transaction, as the set of positions <<g, k>> the  *)
(* code's test accepts, ordered lexicographically as the loops visit them. *)
(***************************************************************************)
Positions ==
    UNION {{<<h, k>> : k \in 1..Len(OrderedInstructions(tx[h]))} :
           h \in 1..Len(tx)}

Triggers ==
    {t \in Positions : IsEventTrigger(OrderedInstructions(tx[t[1]]), t[2])}

Before(p, q) == p[1] < q[1] \/ (p[1] = q[1] /\ p[2] < q[2])

\* The triggers the loops have already passed.
Scanned == {t \in Triggers : Before(t, <<group, index>>)}

\* 1 + the number of members of S that come before t.
Rank(t, S) == 1 + Cardinality({u \in S : Before(u, t)})

OutcomeAt(t) == TriggerOutcome(OrderedInstructions(tx[t[1]]), t[2])

\* state_updates holds, in loop order, exactly the updates of the
\* triggers in S.
HoldsUpdatesOf(S) ==
    /\ Len(stateUpdates) = Cardinality(S)
    /\ \A t \in S : stateUpdates[Rank(t, S)] = OutcomeAt(t).val

(***************************************************************************)
(* The scan's correctness (P1, P6 and section 7): while the scan runs,    *)
(* state_updates holds exactly the updates of the triggers already        *)
(* passed, each once, in the order the loops visit them, and none of      *)
(* those failed; an error returned is the outcome of a trigger before     *)
(* which every trigger succeeded; an Ok returned merges the updates of    *)
(* every trigger of the transaction, in order.  No noop pair outside the  *)
(* pattern contributes, none is skipped, none is counted twice.           *)
(***************************************************************************)
ScanCorrect ==
    /\ Running =>
          /\ \A t \in Scanned : OutcomeAt(t).kind = "ok"
          /\ HoldsUpdatesOf(Scanned)
    /\ result.kind \in ErrorKinds =>
          \E t \in Triggers :
              /\ result = OutcomeAt(t)
              /\ \A u \in Triggers : Before(u, t) => OutcomeAt(u).kind = "ok"
    /\ result.kind = "ok" =>
          /\ \A t \in Triggers : OutcomeAt(t).kind = "ok"
          /\ HoldsUpdatesOf(Triggers)
          /\ result.val = MergeUpdates(stateUpdates)

-----------------------------------------------------------------------------
\* The refinement mapping: the abstract result is the scanner's result.
Abs == INSTANCE ParserSpec WITH res <- result

(***************************************************************************)
(* parse_transaction implements its specification, safety part: its      *)
(* first state is a ParserSpec initial state, and the result it returns  *)
(* is exactly the one SpecParse prescribes for the transaction (P1, P5   *)
(* for I1, P6, the abort of section 7); every other step of the loops    *)
(* is a stutter of the abstract spec.                                     *)
(***************************************************************************)
ImplementsParserSpec == Abs!Init /\ [][Abs!Parse]_<<tx, result>>

=============================================================================
