-------------------------- MODULE ScannerRefinement --------------------------
(***************************************************************************)
(* Proof that the scanner of parse_transaction (InstructionScanner)       *)
(* implements its abstract specification ParserSpec under the mapping     *)
(* res <- result: its safety part Abs!Init /\ [][Abs!Parse]_<<tx, result>>. *)
(* The scan's invariant (InstructionScannerProofs) and the facts about    *)
(* lexicographic listing and ordered concatenation (ParserReferenceProofs) *)
(* carry it; the assembler's correctness (EventAssemblerProofs) then      *)
(* discharges what it assumes of the assembler for the real one.          *)
(***************************************************************************)
EXTENDS InstructionScannerProofs, EventAssemblerProofs, TLAPS

(***************************************************************************)
(* The instance Abs has its own copy of every operator of ParserReference *)
(* and of the modules below it; with the constants mapped to themselves   *)
(* each copy equals the original.  These lemmas say so, from the leaves   *)
(* up to SpecParse, so that Abs!Init and Abs!Parse can be read in this    *)
(* module's terms.                                                         *)
(***************************************************************************)

LEMMA AbsInitUnfold ==
    Abs!Init <=> tx \in Transaction /\ result = Pending
BY DEF Abs!Init, Abs!Pending, Pending, Abs!EmptyUpdate, EmptyUpdate,
       Abs!Transaction, Transaction, Abs!InstructionGroup, InstructionGroup,
       Abs!Instruction, Instruction

LEMMA AbsBasics ==
    /\ Abs!EmptyUpdate = EmptyUpdate
    /\ \A k : Abs!Err(k) = Err(k)
    /\ \A u : Abs!Ok(u) = Ok(u)
    /\ \A p, q : Abs!LexBefore(p, q) = LexBefore(p, q)
    /\ \A g : Abs!Traversal(g) = Traversal(g)
BY DEF Abs!EmptyUpdate, EmptyUpdate, Abs!Err, Err, Abs!Ok, Ok,
       Abs!LexBefore, LexBefore, Abs!Traversal, Traversal

LEMMA AbsCardinality ==
    \A S : Abs!Cardinality(S) = Cardinality(S)
BY DEF Abs!Cardinality, Cardinality

LEMMA AbsInLexOrder ==
    \A S : Abs!InLexOrder(S) = InLexOrder(S)
BY DEF Abs!InLexOrder, InLexOrder, Abs!LexBefore, LexBefore,
       Abs!Cardinality, Cardinality

LEMMA AbsConcatenation ==
    \A ss : Abs!Concatenation(ss) = Concatenation(ss)
BY AbsInLexOrder DEF Abs!Concatenation, Concatenation

LEMMA AbsSpecAssemble ==
    \A cl, ev : Abs!SpecAssemble(cl, ev) = SpecAssemble(cl, ev)
<1>1. \A cl : Abs!SpecPathUpdates(cl) = SpecPathUpdates(cl)
      BY AbsConcatenation DEF Abs!SpecPathUpdates, SpecPathUpdates
<1>2. \A cl, ev : Abs!SpecMalformed(cl, ev) = SpecMalformed(cl, ev)
      BY <1>1 DEF Abs!SpecMalformed, SpecMalformed
<1> SUFFICES ASSUME NEW cl, NEW ev
             PROVE  Abs!SpecAssemble(cl, ev) = SpecAssemble(cl, ev)
    OBVIOUS
<1> DEFINE pu == SpecPathUpdates(cl)
<1>3. Abs!SpecPathUpdates(cl) = pu
      BY <1>1
<1>4. CASE SpecMalformed(cl, ev)
      BY <1>2, <1>4 DEF Abs!SpecAssemble, SpecAssemble, Abs!Err, Err,
                        Abs!EmptyUpdate, EmptyUpdate
<1>5. CASE ~SpecMalformed(cl, ev)
      <2>1. Abs!Concatenation([k \in 1..Len(pu) |->
                                [i \in 1..Len(pu[k].path) |->
                                   [node |-> pu[k].path[i], tree |-> pu[k].tree,
                                    seq |-> pu[k].seq, level |-> i - 1,
                                    depth |-> Len(pu[k].path)]]])
              = Concatenation([k \in 1..Len(pu) |->
                                [i \in 1..Len(pu[k].path) |->
                                   [node |-> pu[k].path[i], tree |-> pu[k].tree,
                                    seq |-> pu[k].seq, level |-> i - 1,
                                    depth |-> Len(pu[k].path)]]])
            BY AbsConcatenation
      <2> QED
          BY <1>2, <1>3, <1>5, <2>1 DEF Abs!SpecAssemble, SpecAssemble, Abs!Ok, Ok, pu
<1> QED
    BY <1>4, <1>5

LEMMA AbsSpecParse ==
    \A x : Abs!SpecParse(x) = SpecParse(x)
<1>1. \A ins, k : Abs!EmitsEvent(ins, k) = EmitsEvent(ins, k)
      BY DEF Abs!EmitsEvent, EmitsEvent
<1>2. \A x : Abs!SpecTriggers(x) = SpecTriggers(x)
      BY <1>1, AbsBasics DEF Abs!SpecTriggers, SpecTriggers
<1>3. \A x, t : Abs!TriggerResult(x, t) = TriggerResult(x, t)
      BY AbsBasics, AbsSpecAssemble DEF Abs!TriggerResult, TriggerResult
<1> SUFFICES ASSUME NEW x PROVE Abs!SpecParse(x) = SpecParse(x)
    OBVIOUS
<1> DEFINE ts     == InLexOrder(SpecTriggers(x))
           rs     == [r \in DOMAIN ts |-> TriggerResult(x, ts[r])]
           failed == {r \in DOMAIN rs : rs[r].kind # "ok"}
<1>4. Abs!InLexOrder(Abs!SpecTriggers(x)) = ts
      BY <1>2, AbsInLexOrder
<1>5. [r \in DOMAIN Abs!InLexOrder(Abs!SpecTriggers(x)) |->
         Abs!TriggerResult(x, Abs!InLexOrder(Abs!SpecTriggers(x))[r])] = rs
      BY <1>3, <1>4
<1> DEFINE rs2     == [r \in DOMAIN Abs!InLexOrder(Abs!SpecTriggers(x)) |->
                         Abs!TriggerResult(x, Abs!InLexOrder(Abs!SpecTriggers(x))[r])]
           failed2 == {r \in DOMAIN rs2 : rs2[r].kind # "ok"}
<1>7. failed2 = failed
      BY <1>5
<1>8. (CHOOSE r \in failed2 : \A s \in failed2 : r <= s)
        = (CHOOSE r \in failed : \A s \in failed : r <= s)
      BY <1>7, Zenon
<1>9. Abs!SpecParse(x) =
        IF failed2 # {}
        THEN Abs!Err(rs2[CHOOSE r \in failed2 : \A s \in failed2 : r <= s].kind)
        ELSE Abs!Ok([in    |-> Abs!Concatenation([r \in DOMAIN rs2 |-> rs2[r].val.in]),
                     out   |-> Abs!Concatenation([r \in DOMAIN rs2 |-> rs2[r].val.out]),
                     nodes |-> Abs!Concatenation([r \in DOMAIN rs2 |-> rs2[r].val.nodes])])
      BY DEF Abs!SpecParse
<1>6. Abs!SpecParse(x) =
        IF failed # {}
        THEN Abs!Err(rs[CHOOSE r \in failed : \A s \in failed : r <= s].kind)
        ELSE Abs!Ok([in    |-> Abs!Concatenation([r \in DOMAIN rs |-> rs[r].val.in]),
                     out   |-> Abs!Concatenation([r \in DOMAIN rs |-> rs[r].val.out]),
                     nodes |-> Abs!Concatenation([r \in DOMAIN rs |-> rs[r].val.nodes])])
      BY <1>5, <1>7, <1>8, <1>9
<1> QED
    BY <1>6, AbsConcatenation, AbsBasics DEF SpecParse

\* The abstract step, with res mapped to the scanner's result.
LEMMA AbsParseUnfold ==
    Abs!Parse <=> /\ result = Pending
                  /\ result' = SpecParse(tx)
                  /\ tx' = tx
<1>1. Abs!Pending = Pending
      BY AbsBasics DEF Abs!Pending, Pending
<1> QED
    BY <1>1, AbsSpecParse DEF Abs!Parse

-----------------------------------------------------------------------------
(***************************************************************************)
(* What the proof assumes of the assembler and of the events.              *)
(***************************************************************************)

\* parse_public_transaction_event returns what section 4.3 prescribes on
\* events whose hashes pair up with their accounts and whose indices are
\* in range: the invariant AssemblyMatchesSpec, which the run
\* assembler_matches_spec checks.
AssemblerMeetsSpec ==
    \A d1, d2 \in Payloads :
        /\ d1.cl # DecodeFail
        /\ d2.pte # DecodeFail
        /\ WellFormedEvent(d2.pte)
        /\ EventInRange(d2.pte)
        => Assemble(d1.cl, d2.pte) = SpecAssemble(d1.cl, d2.pte)

\* Every event that decodes is of that kind (MCWellFormedAssumption).
EventsWellFormed ==
    \A d \in Payloads :
        d.pte # DecodeFail => WellFormedEvent(d.pte) /\ EventInRange(d.pte)

-----------------------------------------------------------------------------
(* The scanner's triggers and outcomes are the reference's.                 *)

\* The loop's test `len - index > 2` plus the program checks is the
\* trigger pattern of section 4.2.
LEMMA TriggersAgree ==
    ASSUME TypeOK
    PROVE  Triggers = SpecTriggers(tx)
<1>1. Positions = UNION {{<<h, k>> : k \in 1..Len(Traversal(tx[h]))} : h \in 1..Len(tx)}
      BY DEF Positions, OrderedInstructions, Traversal
<1>2. \A t \in Positions :
         IsEventTrigger(OrderedInstructions(tx[t[1]]), t[2])
           <=> EmitsEvent(Traversal(tx[t[1]]), t[2])
      <2> SUFFICES ASSUME NEW h \in 1..Len(tx),
                          NEW k \in 1..Len(OrderedInstructions(tx[h]))
                   PROVE  IsEventTrigger(OrderedInstructions(tx[h]), k)
                            <=> EmitsEvent(Traversal(tx[h]), k)
          BY DEF Positions
      <2>1. OrderedInstructions(tx[h]) \in Seq(Instruction)
            BY OrderedInstructionsType DEF TypeOK, Transaction
      <2>2. OrderedInstructions(tx[h]) = Traversal(tx[h])
            BY DEF OrderedInstructions, Traversal
      <2> QED
          BY <2>1, <2>2 DEF IsEventTrigger, EmitsEvent
<1> QED
    BY <1>1, <1>2 DEF Triggers, SpecTriggers

\* An error the reference prescribes for one trigger carries no update.
LEMMA SpecAssembleErr ==
    ASSUME NEW cl, NEW ev, SpecAssemble(cl, ev).kind # "ok"
    PROVE  SpecAssemble(cl, ev) = Err("malformed")
BY DEF SpecAssemble, Ok, Err

\* A trigger's decode-then-assemble outcome in the loop is the reference's
\* TriggerResult, given what the proof assumes of the assembler.
LEMMA OutcomeAgree ==
    ASSUME TypeOK, AssemblerMeetsSpec, EventsWellFormed,
           NEW t \in Triggers
    PROVE  OutcomeAt(t) = TriggerResult(tx, t)
<1> DEFINE ins == OrderedInstructions(tx[t[1]])
           k   == t[2]
<1>1. t[1] \in 1..Len(tx) /\ k \in 1..Len(ins)
      BY TriggersFacts DEF ins, k
<1>2. ins \in Seq(Instruction)
      BY <1>1, OrderedInstructionsType DEF TypeOK, Transaction, ins
<1>3. k + 2 <= Len(ins)
      BY <1>1 DEF Triggers, IsEventTrigger, ins, k
<1>4. ins[k + 1].data \in Payloads /\ ins[k + 2].data \in Payloads
      <2>1. ins[k + 1] \in Instruction /\ ins[k + 2] \in Instruction
            BY <1>1, <1>2, <1>3
      <2> QED
          BY <2>1, Zenon DEF Instruction
<1>5. CASE ins[k + 1].data.cl = DecodeFail \/ ins[k + 2].data.pte = DecodeFail
      BY <1>5 DEF OutcomeAt, TriggerOutcome, TriggerResult, Traversal,
                  OrderedInstructions, ins, k
<1>6. CASE ins[k + 1].data.cl # DecodeFail /\ ins[k + 2].data.pte # DecodeFail
      <2>1. Assemble(ins[k + 1].data.cl, ins[k + 2].data.pte)
              = SpecAssemble(ins[k + 1].data.cl, ins[k + 2].data.pte)
            BY <1>4, <1>6 DEF AssemblerMeetsSpec, EventsWellFormed
      <2> QED
          BY <1>6, <2>1 DEF OutcomeAt, TriggerOutcome, TriggerResult, Traversal,
                            OrderedInstructions, ins, k
<1> QED
    BY <1>5, <1>6
-----------------------------------------------------------------------------
(***************************************************************************)
(* Once parse_transaction has returned, its result is the one SpecParse   *)
(* prescribes.  The scan's invariant gives the first failing trigger, or  *)
(* state_updates in loop order; the lexicographic listing of the          *)
(* triggers puts the trigger of rank r at place r, so the first failure   *)
(* is the least failing place, and merge_updates is the ordered           *)
(* concatenation of the per-trigger updates.                              *)
(***************************************************************************)
LEMMA ResultIsSpecParse ==
    ASSUME IInv, AssemblerMeetsSpec, EventsWellFormed, result # Pending
    PROVE  result = SpecParse(tx)
<1> DEFINE ST     == SpecTriggers(tx)
           n      == Cardinality(ST)
           ts     == InLexOrder(ST)
           rs     == [r \in DOMAIN ts |-> TriggerResult(tx, ts[r])]
           failed == {r \in DOMAIN rs : rs[r].kind # "ok"}
           su     == stateUpdates
<1>1. TypeOK /\ ScanCorrect
      BY DEF IInv
<1>2. ST = Triggers
      BY <1>1, TriggersAgree
<1>3. IsFiniteSet(ST) /\ ST \subseteq PosT
      BY <1>1, <1>2, TriggersFacts DEF PosT
<1>4. /\ IncreasingOnto(ts, n, ST)
      /\ \A r \in 1 .. n : Cardinality(Preceding(ST, ts[r])) = r - 1
      BY <1>3, InLexOrderEnumerates
<1>5. /\ n \in Nat
      /\ ts \in [1 .. n -> ST]
      /\ \A q \in ST : \E i \in 1 .. n : ts[i] = q
      /\ \A i, j \in 1 .. n : i < j => LexBefore(ts[i], ts[j])
      /\ DOMAIN rs = 1 .. n
      BY <1>3, <1>4, FS_CardinalityType DEF IncreasingOnto
<1>6. \A r \in 1 .. n : Rank(ts[r], Triggers) = r
      <2> SUFFICES ASSUME NEW r \in 1 .. n PROVE Rank(ts[r], Triggers) = r
          OBVIOUS
      <2>1. {u \in Triggers : Before(u, ts[r])} = Preceding(ST, ts[r])
            BY <1>2 DEF Before, LexBefore, Preceding
      <2> QED
          BY <1>4, <2>1 DEF Rank
<1>7. \A r \in 1 .. n : ts[r] \in Triggers /\ rs[r] = OutcomeAt(ts[r])
      BY <1>1, <1>2, <1>5, OutcomeAgree
<1>8. result \in OutcomeT
      BY <1>1 DEF TypeOK
<1>9. SpecParse(tx) =
        IF failed # {}
        THEN Err(rs[CHOOSE r \in failed : \A s \in failed : r <= s].kind)
        ELSE Ok([in    |-> Concatenation([r \in DOMAIN rs |-> rs[r].val.in]),
                 out   |-> Concatenation([r \in DOMAIN rs |-> rs[r].val.out]),
                 nodes |-> Concatenation([r \in DOMAIN rs |-> rs[r].val.nodes])])
      BY DEF SpecParse
<1>10. CASE result.kind = "ok"
      <2>1. /\ \A t \in Triggers : OutcomeAt(t).kind = "ok"
            /\ HoldsUpdatesOf(Triggers)
            /\ result.val = MergeUpdates(su)
            BY <1>1, <1>10 DEF ScanCorrect
      <2>2. failed = {}
            BY <1>5, <1>7, <2>1
      <2>3. Len(su) = n /\ \A r \in 1 .. n : su[r] = rs[r].val
            BY <1>2, <1>6, <1>7, <2>1 DEF HoldsUpdatesOf
      <2>4. su \in Seq(StateUpdateT)
            BY <1>1 DEF TypeOK
      <2>5. MergeUpdates(su)
              = [in    |-> Concatenation([r \in 1 .. Len(su) |-> su[r].in]),
                 out   |-> Concatenation([r \in 1 .. Len(su) |-> su[r].out]),
                 nodes |-> Concatenation([r \in 1 .. Len(su) |-> su[r].nodes])]
            BY <2>4, MergeUpdatesConcatenation
      <2>6. /\ [r \in 1 .. Len(su) |-> su[r].in] = [r \in DOMAIN rs |-> rs[r].val.in]
            /\ [r \in 1 .. Len(su) |-> su[r].out] = [r \in DOMAIN rs |-> rs[r].val.out]
            /\ [r \in 1 .. Len(su) |-> su[r].nodes] = [r \in DOMAIN rs |-> rs[r].val.nodes]
            BY <1>5, <2>3
      <2>7. result = Ok(result.val)
            BY <1>8, <1>10 DEF OutcomeT, Ok
      <2> QED
          BY <1>9, <2>1, <2>2, <2>5, <2>6, <2>7
<1>11. CASE result.kind # "ok"
      <2>1. result.kind \in ErrorKinds
            BY <1>8, <1>11 DEF OutcomeT
      <2>2. PICK t \in Triggers :
               /\ result = OutcomeAt(t)
               /\ \A u \in Triggers : Before(u, t) => OutcomeAt(u).kind = "ok"
            BY <1>1, <2>1 DEF ScanCorrect
      <2>3. PICK i \in 1 .. n : ts[i] = t
            BY <1>2, <1>5
      <2>4. i \in failed /\ rs[i] = result
            BY <1>5, <1>7, <1>11, <2>2, <2>3
      <2>5. \A r \in failed : i <= r
            <3> SUFFICES ASSUME NEW r \in failed, r < i PROVE FALSE
                BY <1>5
            <3>1. r \in 1 .. n
                  BY <1>5
            <3>2. LexBefore(ts[r], t)
                  BY <1>5, <2>3, <3>1
            <3>3. Before(ts[r], t)
                  BY <3>2 DEF LexBefore, Before
            <3> QED
                BY <1>7, <2>2, <3>1, <3>3
      <2>6. (CHOOSE r \in failed : \A s \in failed : r <= s) = i
            <3>1. \E r \in failed : \A s \in failed : r <= s
                  BY <2>4, <2>5
            <3>2. PICK c \in failed : /\ c = CHOOSE r \in failed : \A s \in failed : r <= s
                                      /\ \A s \in failed : c <= s
                  BY <3>1
            <3> QED
                BY <1>5, <2>4, <2>5, <3>2
      <2>7. result = Err(result.kind)
            <3>1. result = TriggerResult(tx, t)
                  BY <1>1, <2>2, OutcomeAgree
            <3>2. CASE result = Err("parser")
                  BY <3>2 DEF Err
            <3>3. CASE result # Err("parser")
                  <4> DEFINE cl == Traversal(tx[t[1]])[t[2] + 1].data.cl
                             ev == Traversal(tx[t[1]])[t[2] + 2].data.pte
                  <4>1. result = SpecAssemble(cl, ev)
                        BY <3>1, <3>3 DEF TriggerResult
                  <4>2. SpecAssemble(cl, ev) = Err("malformed")
                        BY <1>11, <4>1, SpecAssembleErr
                  <4> QED
                      BY <4>1, <4>2 DEF Err
            <3> QED
                BY <3>2, <3>3
      <2> QED
          BY <1>9, <2>4, <2>6, <2>7
<1> QED
    BY <1>10, <1>11
-----------------------------------------------------------------------------
\* A returned result is SpecParse's.
ReturnsSpecParse == result # Pending => result = SpecParse(tx)

(***************************************************************************)
(* parse_transaction implements ParserSpec, safety part (the property     *)
(* ImplementsParserSpec of run scanner_implements_spec): for every set of *)
(* transactions and every assembler that meets section 4.3 on events      *)
(* whose hashes pair up and whose indices are in range, the scanner       *)
(* starts in a ParserSpec initial state, and each of its steps either     *)
(* leaves tx and result alone or is the abstract Parse step: only the     *)
(* returns change result, once, from Pending to SpecParse(tx).            *)
(***************************************************************************)
THEOREM ImplementsParserSpecHolds ==
    ASSUME AssemblerMeetsSpec, EventsWellFormed
    PROVE  Spec => ImplementsParserSpec
<1>1. Init => Abs!Init
      BY AbsInitUnfold, TxInputsAssumption DEF Init
<1>2. IInv => ReturnsSpecParse
      BY ResultIsSpecParse DEF ReturnsSpecParse
<1>3. IInv /\ ReturnsSpecParse' /\ [Next]_vars => [Abs!Parse]_<<tx, result>>
      <2> SUFFICES ASSUME IInv, ReturnsSpecParse', [Next]_vars
                   PROVE  [Abs!Parse]_<<tx, result>>
          OBVIOUS
      <2>1. tx' = tx
            BY DEF Next, ScanInstruction, HandleTrigger, NextGroup, Finish, vars
      <2>2. CASE result' = result
            BY <2>1, <2>2
      <2>3. CASE result' # result
            <3>1. result = Pending
                  BY <2>3 DEF Next, ScanInstruction, HandleTrigger, NextGroup,
                              Finish, Running, vars
            <3>2. result' = SpecParse(tx)
                  BY <2>1, <2>3, <3>1 DEF ReturnsSpecParse, Pending
            <3> QED
                BY <2>1, <3>1, <3>2, AbsParseUnfold
      <2> QED
          BY <2>2, <2>3
<1>4. Spec => []IInv
      BY ScanInit, ScanStep, PTL DEF Spec
<1> QED
    BY <1>1, <1>2, <1>3, <1>4, PTL DEF Spec, ImplementsParserSpec
-----------------------------------------------------------------------------
\* The borsh decoders return values of their types: a changelog payload is
\* a Vec<ChangelogEvent>, an event payload a PublicTransactionEvent.
DecodersTyped ==
    \A d \in Payloads :
        /\ d.cl # DecodeFail => d.cl \in Seq(ChangelogEvent)
        /\ d.pte # DecodeFail => d.pte \in PublicTransactionEvent

(***************************************************************************)
(* parse_transaction with parse_public_transaction_event as its assembler *)
(* (the composition MCInstructionScanner checks) implements ParserSpec,    *)
(* safety part, for every set of transactions whose decodable events pair *)
(* their hashes with their accounts and keep their input indices inside   *)
(* pubkey_array.                                                           *)
(***************************************************************************)
THEOREM ParserImplementsParserSpec ==
    ASSUME \A cl, ev : Assemble(cl, ev) = ParsePublicTransactionEvent(cl, ev),
           DecodersTyped, EventsWellFormed
    PROVE  Spec => ImplementsParserSpec
<1>1. AssemblerMeetsSpec
      <2> SUFFICES ASSUME NEW d1 \in Payloads, NEW d2 \in Payloads,
                          d1.cl # DecodeFail, d2.pte # DecodeFail,
                          WellFormedEvent(d2.pte), EventInRange(d2.pte)
                   PROVE  Assemble(d1.cl, d2.pte) = SpecAssemble(d1.cl, d2.pte)
          BY DEF AssemblerMeetsSpec
      <2>1. d1.cl \in Seq(ChangelogEvent) /\ d2.pte \in PublicTransactionEvent
            BY DEF DecodersTyped
      <2> QED
          BY <2>1, AssemblerMatchesReference
<1> QED
    BY <1>1, ImplementsParserSpecHolds
=============================================================================
