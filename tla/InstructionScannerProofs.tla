----------------------- MODULE InstructionScannerProofs -----------------------
(***************************************************************************)
(* Proofs about the scan of parse_transaction (InstructionScanner), for   *)
(* every set of transactions and every assembler that returns outcomes.   *)
(***************************************************************************)
EXTENDS InstructionScanner, NaturalsInduction, WellFoundedInduction,
        SequenceTheorems, FiniteSetTheorems, TLAPS

-----------------------------------------------------------------------------
(* StateUpdate::merge and merge_updates build StateUpdates.                 *)

LEMMA MergeType ==
    ASSUME NEW a \in StateUpdateT, NEW b \in StateUpdateT
    PROVE  Merge(a, b) \in StateUpdateT
BY DEF Merge, StateUpdateT

(***************************************************************************)
(* The left fold of merge_updates stays in StateUpdateT.  The fold is a   *)
(* recursive function over 0..Len(us): its defining equation comes from  *)
(* FiniteNatInductiveDef, and a first index where it leaves the type      *)
(* would have a least one (WFMin on <), whose predecessor is typed.      *)
(***************************************************************************)
LEMMA MergeUpdatesType ==
    ASSUME NEW us \in Seq(StateUpdateT)
    PROVE  MergeUpdates(us) \in StateUpdateT
<1> DEFINE f == CHOOSE g : g = [k \in 0..Len(us) |->
                                  IF k = 0 THEN EmptyUpdate
                                  ELSE Merge(g[k - 1], us[k])]
<1>1. MergeUpdates(us) = f[Len(us)]
  BY DEF MergeUpdates
<1>2. Len(us) \in Nat
  OBVIOUS
<1> HIDE DEF f
<1>3. FiniteNatInductiveDefConclusion(f, EmptyUpdate,
                                      LAMBDA v, k : Merge(v, us[k]), 0, Len(us))
  <2>1. FiniteNatInductiveDefHypothesis(f, EmptyUpdate,
                                        LAMBDA v, k : Merge(v, us[k]), 0, Len(us))
    BY DEF FiniteNatInductiveDefHypothesis, f
  <2> QED
    BY <1>2, <2>1, FiniteNatInductiveDef, Zenon
<1>4. f = [k \in 0..Len(us) |-> IF k = 0 THEN EmptyUpdate ELSE Merge(f[k - 1], us[k])]
  BY <1>3 DEF FiniteNatInductiveDefConclusion
<1> DEFINE Bad == {k \in 0..Len(us) : f[k] \notin StateUpdateT}
<1>5. Bad = {}
  <2> SUFFICES ASSUME Bad # {} PROVE FALSE
    OBVIOUS
  <2>1. Bad \subseteq Nat
    OBVIOUS
  <2>2. PICK x \in Bad : \A y \in Bad : ~(<<y, x>> \in OpToRel(<, Nat))
    BY <2>1, NatLessThanWellFounded, WFMin, Zenon
  <2>3. x # 0
    BY <1>4 DEF EmptyUpdate, StateUpdateT
  <2>4. x - 1 \in Nat /\ x \in Nat /\ x - 1 < x
    BY <2>3
  <2>5. <<x - 1, x>> \in OpToRel(<, Nat)
    BY <2>4, Zenon DEF OpToRel
  <2>6. x - 1 \notin Bad
    BY <2>2, <2>5, Zenon
  <2>7. f[x - 1] \in StateUpdateT /\ us[x] \in StateUpdateT
    BY <2>3, <2>6
  <2>8. f[x] = Merge(f[x - 1], us[x])
    BY <1>4, <2>3
  <2> QED
    BY <2>7, <2>8, MergeType
<1> QED
  BY <1>1, <1>2, <1>5

-----------------------------------------------------------------------------
(* The scan's own operators.                                                *)

LEMMA OrderedInstructionsType ==
    ASSUME NEW grp \in InstructionGroup
    PROVE  OrderedInstructions(grp) \in Seq(Instruction)
BY DEF OrderedInstructions, InstructionGroup

(***************************************************************************)
(* A matched trigger's outcome is an outcome: the two payloads it decodes *)
(* exist because the trigger test checked len - index > 2.               *)
(***************************************************************************)
LEMMA TriggerOutcomeType ==
    ASSUME NEW ins \in Seq(Instruction), NEW k \in 1..Len(ins),
           IsEventTrigger(ins, k)
    PROVE  TriggerOutcome(ins, k) \in OutcomeT
<1>1. ins[k + 1] \in Instruction /\ ins[k + 2] \in Instruction
  BY DEF IsEventTrigger
<1>2. ins[k + 1].data \in Payloads /\ ins[k + 2].data \in Payloads
  BY <1>1 DEF Instruction
<1>3. Err("parser") \in OutcomeT
  BY DEF Err, OutcomeT, ErrorKinds, EmptyUpdate, StateUpdateT
<1> QED
  BY <1>2, <1>3, AssembleTypeAssumption DEF TriggerOutcome

-----------------------------------------------------------------------------
(* Ranks of trigger positions in the loops' lexicographic order.           *)

\* A position is never before itself.
LEMMA BeforeIrreflexive ==
    ASSUME NEW p \in Nat \X Nat
    PROVE  ~Before(p, p)
BY DEF Before

(***************************************************************************)
(* A position ranks between 1 and the size of a finite set it is in.      *)
(***************************************************************************)
LEMMA RankBound ==
    ASSUME NEW S \in SUBSET (Nat \X Nat), IsFiniteSet(S), NEW t \in S
    PROVE  Rank(t, S) \in 1..Cardinality(S)
<1> DEFINE Less == {u \in S : Before(u, t)}
<1>1. Less \subseteq S \ {t}
  BY BeforeIrreflexive
<1>2. IsFiniteSet(S \ {t}) /\ Cardinality(S \ {t}) = Cardinality(S) - 1
  BY FS_RemoveElement
<1>3. IsFiniteSet(Less) /\ Cardinality(Less) <= Cardinality(S \ {t})
  BY <1>1, <1>2, FS_Subset
<1>4. Cardinality(Less) \in Nat /\ Cardinality(S) \in Nat
  BY <1>3, FS_CardinalityType
<1>5. Rank(t, S) = 1 + Cardinality(Less)
  BY DEF Rank
<1> HIDE DEF Less
<1> QED
  BY <1>2, <1>3, <1>4, <1>5

(***************************************************************************)
(* Adding a position that comes after every member of a finite set: it    *)
(* was not in the set, it ranks last, and the members keep their ranks.   *)
(* This is what a push onto state_updates does to the ranks.              *)
(***************************************************************************)
LEMMA RankAddLast ==
    ASSUME NEW S \in SUBSET (Nat \X Nat), IsFiniteSet(S), NEW p \in Nat \X Nat,
           \A u \in S : Before(u, p)
    PROVE  /\ p \notin S
           /\ IsFiniteSet(S \cup {p})
           /\ Cardinality(S \cup {p}) = Cardinality(S) + 1
           /\ Rank(p, S \cup {p}) = Cardinality(S) + 1
           /\ \A t \in S : Rank(t, S \cup {p}) = Rank(t, S)
<1>1. p \notin S
  BY BeforeIrreflexive
<1>2. IsFiniteSet(S \cup {p}) /\ Cardinality(S \cup {p}) = Cardinality(S) + 1
  BY <1>1, FS_AddElement
<1>3. {u \in S \cup {p} : Before(u, p)} = S
  BY BeforeIrreflexive
<1>4. ASSUME NEW t \in S
      PROVE  {u \in S \cup {p} : Before(u, t)} = {u \in S : Before(u, t)}
  BY DEF Before
<1>5. Rank(p, S \cup {p}) = Cardinality(S) + 1
  <2>1. Rank(p, S \cup {p}) = 1 + Cardinality({u \in S \cup {p} : Before(u, p)})
    BY DEF Rank
  <2>2. Cardinality({u \in S \cup {p} : Before(u, p)}) = Cardinality(S)
    BY <1>3, Zenon
  <2>3. Cardinality(S) \in Nat
    BY FS_CardinalityType
  <2> QED
    BY <2>1, <2>2, <2>3
<1>6. ASSUME NEW t \in S
      PROVE  Rank(t, S \cup {p}) = Rank(t, S)
  <2>1. Rank(t, S \cup {p}) = 1 + Cardinality({u \in S \cup {p} : Before(u, t)})
    BY DEF Rank
  <2>2. Rank(t, S) = 1 + Cardinality({u \in S : Before(u, t)})
    BY DEF Rank
  <2> QED
    BY <1>4, <2>1, <2>2
<1> QED
  BY <1>1, <1>2, <1>5, <1>6

-----------------------------------------------------------------------------
(* The positions of a transaction.                                          *)

LEMMA PositionsFacts ==
    ASSUME TypeOK
    PROVE  /\ IsFiniteSet(Positions)
           /\ Positions \subseteq Nat \X Nat
           /\ \A t \in Positions :
                 /\ t[1] \in 1..Len(tx)
                 /\ t[2] \in 1..Len(OrderedInstructions(tx[t[1]]))
<1> DEFINE L(h) == Len(OrderedInstructions(tx[h]))
           Rows == {{<<h, k>> : k \in 1..L(h)} : h \in 1..Len(tx)}
           row  == [h \in 1..Len(tx) |-> {<<h, k>> : k \in 1..L(h)}]
<1>1. tx \in Seq(InstructionGroup)
  BY DEF TypeOK, Transaction
<1>2. \A h \in 1..Len(tx) : L(h) \in Nat
  BY <1>1, OrderedInstructionsType
<1>3. IsFiniteSet(Rows)
  <2>1. IsFiniteSet(1..Len(tx))
    BY <1>1, FS_Interval
  <2>2. row \in Surjection(1..Len(tx), Rows)
    BY DEF Surjection
  <2> QED
    BY <2>1, <2>2, FS_Surjection
<1>4. ASSUME NEW h \in 1..Len(tx)
      PROVE  IsFiniteSet({<<h, k>> : k \in 1..L(h)})
  <2>1. {<<h, k>> : k \in 1..L(h)} = {h} \X (1..L(h))
    OBVIOUS
  <2>2. IsFiniteSet({h})
    BY FS_Singleton
  <2>3. IsFiniteSet(1..L(h))
    BY <1>2, FS_Interval
  <2>4. IsFiniteSet({h} \X (1..L(h)))
    BY <2>2, <2>3, FS_Product
  <2> QED
    BY <2>1, <2>4
<1>5. IsFiniteSet(Positions)
  BY <1>3, <1>4, FS_UNION DEF Positions
<1> QED
  BY <1>2, <1>5 DEF Positions

-----------------------------------------------------------------------------
LEMMA TypeInit == Init => TypeOK
<1> SUFFICES ASSUME Init PROVE TypeOK
  OBVIOUS
<1>1. tx \in Seq(InstructionGroup)
  BY TxInputsAssumption DEF Init, Transaction
<1>2. group \in 1..Len(tx) + 1 /\ index \in Nat \ {0}
  BY <1>1 DEF Init
<1>3. stateUpdates \in Seq(StateUpdateT)
  BY EmptySeq DEF Init
<1>4. logged \in BOOLEAN
  BY DEF Init
<1>5. result \in OutcomeT \cup {Pending}
  BY DEF Init
<1> QED
  BY <1>1, <1>2, <1>3, <1>4, <1>5 DEF TypeOK, Transaction

LEMMA TypeStep == TypeOK /\ [Next]_vars => TypeOK'
<1> SUFFICES ASSUME TypeOK, [Next]_vars PROVE TypeOK'
  OBVIOUS
<1> USE DEF TypeOK
<1>1. CASE ScanInstruction
  BY <1>1 DEF ScanInstruction
<1>2. CASE HandleTrigger
  <2>1. Ins \in Seq(Instruction) /\ index \in 1..Len(Ins)
    BY <1>2, OrderedInstructionsType DEF HandleTrigger, Ins, Transaction
  <2>2. TriggerOutcome(Ins, index) \in OutcomeT
    BY <1>2, <2>1, TriggerOutcomeType DEF HandleTrigger
  <2> DEFINE o == TriggerOutcome(Ins, index)
  <2>3. o.val \in StateUpdateT /\ o \in OutcomeT
    BY <2>2 DEF OutcomeT
  <2>4. tx' \in Transaction /\ group' \in 1..Len(tx') + 1 /\ logged' \in BOOLEAN
    BY <1>2 DEF HandleTrigger
  <2>5. CASE o.kind = "ok"
    <3>1. stateUpdates' = Append(stateUpdates, o.val) /\ index' = index + 1
          /\ result' = result
      BY <1>2, <2>5 DEF HandleTrigger
    <3> QED
      BY <2>3, <2>4, <3>1
  <2>6. CASE o.kind # "ok"
    <3>1. result' = o /\ stateUpdates' = stateUpdates /\ index' = index
      BY <1>2, <2>6 DEF HandleTrigger
    <3> QED
      BY <2>3, <2>4, <3>1
  <2> QED
    BY <2>5, <2>6
<1>3. CASE NextGroup
  BY <1>3 DEF NextGroup
<1>4. CASE Finish
  <2>1. MergeUpdates(stateUpdates) \in StateUpdateT
    BY MergeUpdatesType
  <2> QED
    BY <1>4, <2>1 DEF Finish, Ok, OutcomeT
<1>5. CASE UNCHANGED vars
  BY <1>5 DEF vars
<1> QED
  BY <1>1, <1>2, <1>3, <1>4, <1>5 DEF Next

(***************************************************************************)
(* Type correctness of parse_transaction's loop state: the cursor stays  *)
(* within the groups (one past the last once the outer loop ends), and   *)
(* every value pushed to state_updates or returned is a StateUpdate or an *)
(* outcome, including the merge_updates of the final Ok.                 *)
(***************************************************************************)
THEOREM TypeCorrect == Spec => []TypeOK
BY TypeInit, TypeStep, PTL DEF Spec

-----------------------------------------------------------------------------
(* The scan's correctness.                                                  *)

\* No step of the scan changes the transaction, so neither its triggers
\* nor their outcomes change.
LEMMA TxUnchanged ==
    ASSUME tx' = tx
    PROVE  /\ Triggers' = Triggers
           /\ \A t : OutcomeAt(t)' = OutcomeAt(t)
BY DEF Triggers, Positions, OutcomeAt

\* The inductive invariant: ScanCorrect needs the types of the state.
IInv == TypeOK /\ ScanCorrect

LEMMA ScanInit == Init => IInv
<1> SUFFICES ASSUME Init PROVE IInv
  OBVIOUS
<1>1. TypeOK
  BY TypeInit
<1>2. Scanned = {}
  BY <1>1, PositionsFacts DEF Init, Scanned, Triggers, Before
<1>3. HoldsUpdatesOf(Scanned)
  BY <1>2, FS_EmptySet DEF Init, HoldsUpdatesOf
<1>4. result.kind = "pending"
  BY DEF Init, Pending
<1> QED
  BY <1>1, <1>2, <1>3, <1>4 DEF IInv, ScanCorrect, Running, Init, ErrorKinds

(***************************************************************************)
(* The facts about trigger positions that every step of the proof uses.   *)
(***************************************************************************)
LEMMA TriggersFacts ==
    ASSUME TypeOK
    PROVE  /\ IsFiniteSet(Triggers)
           /\ Triggers \subseteq Nat \X Nat
           /\ \A t \in Triggers :
                 /\ t[1] \in 1..Len(tx)
                 /\ t[2] \in 1..Len(OrderedInstructions(tx[t[1]]))
           /\ IsFiniteSet(Scanned)
           /\ Scanned \subseteq Nat \X Nat
<1>1. Triggers \subseteq Positions /\ Scanned \subseteq Triggers
  BY DEF Triggers, Scanned
<1> QED
  BY <1>1, PositionsFacts, FS_Subset

(***************************************************************************)
(* A loop iteration that starts no trigger, or the step to the next       *)
(* group once the inner loop is exhausted, passes no trigger: the set of  *)
(* triggers already scanned stays the same.                               *)
(***************************************************************************)
LEMMA ScannedSame ==
    ASSUME TypeOK, tx' = tx,
           \/ /\ group <= Len(tx) /\ index <= Len(Ins)
              /\ ~IsEventTrigger(Ins, index)
              /\ group' = group /\ index' = index + 1
           \/ /\ group <= Len(tx) /\ index > Len(Ins)
              /\ group' = group + 1 /\ index' = 1
    PROVE  Scanned' = Scanned
<1>1. Triggers' = Triggers
  BY TxUnchanged
<1>2. \A t \in Triggers :
         /\ t \in Nat \X Nat
         /\ t[1] \in 1..Len(tx)
         /\ t[2] \in 1..Len(OrderedInstructions(tx[t[1]]))
  BY TriggersFacts
<1>3. index \in Nat /\ group \in Nat
  BY DEF TypeOK
<1>4. ASSUME group <= Len(tx), index <= Len(Ins), ~IsEventTrigger(Ins, index)
      PROVE  <<group, index>> \notin Triggers
  BY <1>4 DEF Triggers, Ins
<1> QED
  BY <1>1, <1>2, <1>3, <1>4 DEF Scanned, Before, Ins

(***************************************************************************)
(* A matched trigger whose outcome is Ok is pushed: the trigger joins the *)
(* scanned set, ranks last in it, and the update pushed is its outcome.   *)
(***************************************************************************)
LEMMA PushKeepsUpdates ==
    ASSUME TypeOK, HoldsUpdatesOf(Scanned), tx' = tx,
           group <= Len(tx), index <= Len(Ins), IsEventTrigger(Ins, index),
           group' = group, index' = index + 1,
           stateUpdates' = Append(stateUpdates, TriggerOutcome(Ins, index).val)
    PROVE  /\ Scanned' = Scanned \cup {<<group, index>>}
           /\ HoldsUpdatesOf(Scanned)'
<1> DEFINE p == <<group, index>>
           S == Scanned
<1>1. Triggers' = Triggers /\ \A t : OutcomeAt(t)' = OutcomeAt(t)
  BY TxUnchanged
<1>2. IsFiniteSet(S) /\ S \subseteq Nat \X Nat /\ Triggers \subseteq Nat \X Nat
  BY TriggersFacts
<1>3. p \in Triggers
  <2>1. index \in 1..Len(Ins) /\ group \in 1..Len(tx)
    BY DEF TypeOK
  <2> QED
    BY <2>1 DEF Triggers, Positions, Ins
<1>4. Scanned' = S \cup {p}
  <2>1. index \in Nat /\ group \in Nat
    BY DEF TypeOK
  <2> QED
    BY <1>1, <1>2, <1>3, <2>1 DEF Scanned, Before
<1>5. \A u \in S : Before(u, p)
  BY DEF Scanned
<1>6. /\ p \notin S
      /\ Cardinality(S \cup {p}) = Cardinality(S) + 1
      /\ Rank(p, S \cup {p}) = Cardinality(S) + 1
      /\ \A t \in S : Rank(t, S \cup {p}) = Rank(t, S)
  BY <1>2, <1>3, <1>5, RankAddLast
<1>7. OutcomeAt(p) = TriggerOutcome(Ins, index)
  BY DEF OutcomeAt, Ins
<1>8. Len(stateUpdates) = Cardinality(S)
      /\ \A t \in S : stateUpdates[Rank(t, S)] = OutcomeAt(t).val
  BY DEF HoldsUpdatesOf
<1>9. stateUpdates \in Seq(StateUpdateT)
  BY DEF TypeOK
<1>10. Len(stateUpdates') = Cardinality(S \cup {p})
  BY <1>6, <1>8, <1>9
<1>11. ASSUME NEW t \in S \cup {p}
       PROVE  stateUpdates'[Rank(t, S \cup {p})] = OutcomeAt(t)'.val
  <2>1. CASE t = p
    BY <1>1, <1>6, <1>7, <1>8, <1>9, <2>1
  <2>2. CASE t \in S
    <3>1. Rank(t, S) \in 1..Cardinality(S)
      BY <1>2, <2>2, RankBound
    <3>2. Rank(t, S \cup {p}) = Rank(t, S)
      BY <1>6, <2>2
    <3>3. stateUpdates[Rank(t, S)] = OutcomeAt(t).val
      BY <1>8, <2>2
    <3> HIDE DEF S, p
    <3>4. stateUpdates'[Rank(t, S)] = stateUpdates[Rank(t, S)]
      BY <1>8, <1>9, <3>1
    <3> QED
      BY <1>1, <3>2, <3>3, <3>4
  <2> QED
    BY <2>1, <2>2
<1> QED
  BY <1>4, <1>10, <1>11 DEF HoldsUpdatesOf

LEMMA ScanStep == IInv /\ [Next]_vars => IInv'
<1> SUFFICES ASSUME IInv, [Next]_vars PROVE IInv'
  OBVIOUS
<1>0. TypeOK /\ ScanCorrect /\ TypeOK'
  BY TypeStep DEF IInv
<1>1. CASE ScanInstruction \/ NextGroup
  <2>1. /\ tx' = tx /\ stateUpdates' = stateUpdates /\ result' = result
        /\ result = Pending
    BY <1>1 DEF ScanInstruction, NextGroup, Running
  <2>2. Scanned' = Scanned
    BY <1>0, <1>1, <2>1, ScannedSame DEF ScanInstruction, NextGroup
  <2>3. Triggers' = Triggers /\ \A t : OutcomeAt(t)' = OutcomeAt(t)
    BY <2>1, TxUnchanged
  <2>4. \A t \in Scanned : OutcomeAt(t).kind = "ok"
    BY <1>0, <2>1 DEF ScanCorrect, Running
  <2>5. HoldsUpdatesOf(Scanned)
    BY <1>0, <2>1 DEF ScanCorrect, Running
  <2>6. HoldsUpdatesOf(Scanned)'
    BY <2>1, <2>2, <2>3, <2>5 DEF HoldsUpdatesOf
  <2> QED
    BY <1>0, <2>1, <2>2, <2>3, <2>4, <2>6
       DEF IInv, ScanCorrect, Running, Pending, ErrorKinds
<1>2. CASE HandleTrigger
  <2> DEFINE o == TriggerOutcome(Ins, index)
             p == <<group, index>>
  <2>1. /\ tx' = tx /\ group' = group /\ result = Pending
        /\ group <= Len(tx) /\ index <= Len(Ins) /\ IsEventTrigger(Ins, index)
    BY <1>2 DEF HandleTrigger, Running
  <2>2. Triggers' = Triggers /\ \A t : OutcomeAt(t)' = OutcomeAt(t)
    BY <2>1, TxUnchanged
  <2>3. o \in OutcomeT
    <3>1. Ins \in Seq(Instruction) /\ index \in 1..Len(Ins)
      BY <1>0, <2>1, OrderedInstructionsType DEF TypeOK, Ins, Transaction
    <3> QED
      BY <2>1, <3>1, TriggerOutcomeType
  <2>4. \A t \in Scanned : OutcomeAt(t).kind = "ok"
    BY <1>0, <2>1 DEF ScanCorrect, Running
  <2>5. CASE o.kind = "ok"
    <3>1. /\ stateUpdates' = Append(stateUpdates, o.val)
          /\ index' = index + 1 /\ result' = result
      BY <1>2, <2>5 DEF HandleTrigger
    <3>2. HoldsUpdatesOf(Scanned)
      BY <1>0, <2>1 DEF ScanCorrect, Running
    <3>3. Scanned' = Scanned \cup {p} /\ HoldsUpdatesOf(Scanned)'
      BY <1>0, <2>1, <3>1, <3>2, PushKeepsUpdates
    <3>4. OutcomeAt(p) = o
      BY DEF OutcomeAt, Ins
    <3>5. \A t \in Scanned' : OutcomeAt(t)'.kind = "ok"
      BY <2>2, <2>4, <2>5, <3>3, <3>4
    <3> QED
      BY <1>0, <2>1, <3>1, <3>3, <3>5
         DEF IInv, ScanCorrect, Running, Pending, ErrorKinds
  <2>6. CASE o.kind # "ok"
    <3>1. result' = o
      BY <1>2, <2>6 DEF HandleTrigger
    <3>2. o.kind \in ErrorKinds /\ result' # Pending
      BY <2>3, <2>6, <3>1 DEF OutcomeT, Pending, ErrorKinds
    <3>3. p \in Triggers /\ OutcomeAt(p) = o
      <4>1. index \in 1..Len(Ins) /\ group \in 1..Len(tx)
        BY <1>0, <2>1 DEF TypeOK
      <4> QED
        BY <2>1, <4>1 DEF Triggers, Positions, Ins, OutcomeAt
    <3>4. \A u \in Triggers : Before(u, p) => OutcomeAt(u).kind = "ok"
      BY <2>4 DEF Scanned
    <3>5. result'.kind \in ErrorKinds =>
             \E t \in Triggers' :
                 /\ result' = OutcomeAt(t)'
                 /\ \A u \in Triggers' : Before(u, t) => OutcomeAt(u)'.kind = "ok"
      BY <2>2, <3>1, <3>3, <3>4
    <3> QED
      BY <1>0, <2>6, <3>1, <3>2, <3>5 DEF IInv, ScanCorrect, Running
  <2> QED
    BY <2>5, <2>6
<1>3. CASE Finish
  <2>1. /\ tx' = tx /\ stateUpdates' = stateUpdates /\ result = Pending
        /\ group > Len(tx)
        /\ result' = Ok(MergeUpdates(stateUpdates))
    BY <1>3 DEF Finish, Running
  <2>2. Triggers' = Triggers /\ \A t : OutcomeAt(t)' = OutcomeAt(t)
    BY <2>1, TxUnchanged
  <2>3. Scanned = Triggers
    <3>1. \A t \in Triggers : t \in Nat \X Nat /\ t[1] \in 1..Len(tx)
      BY <1>0, TriggersFacts
    <3>2. group \in Nat
      BY <1>0 DEF TypeOK
    <3> QED
      BY <2>1, <3>1, <3>2 DEF Scanned, Before
  <2>4. \A t \in Triggers : OutcomeAt(t).kind = "ok"
    BY <1>0, <2>1, <2>3 DEF ScanCorrect, Running
  <2>5. HoldsUpdatesOf(Triggers)
    BY <1>0, <2>1, <2>3 DEF ScanCorrect, Running
  <2>6. HoldsUpdatesOf(Triggers)'
    BY <2>1, <2>2, <2>5 DEF HoldsUpdatesOf
  <2>7. result'.kind = "ok" /\ result'.val = MergeUpdates(stateUpdates')
    BY <2>1 DEF Ok
  <2> QED
    BY <1>0, <2>2, <2>4, <2>6, <2>7 DEF IInv, ScanCorrect, Running, Pending,
                                        ErrorKinds
<1>4. CASE UNCHANGED vars
  <2>1. /\ tx' = tx /\ group' = group /\ index' = index
        /\ stateUpdates' = stateUpdates /\ result' = result
    BY <1>4 DEF vars
  <2>2. Triggers' = Triggers /\ \A t : OutcomeAt(t)' = OutcomeAt(t)
    BY <2>1, TxUnchanged
  <2>3. Scanned' = Scanned
    BY <2>1, <2>2 DEF Scanned
  <2>4. /\ HoldsUpdatesOf(Scanned)' = HoldsUpdatesOf(Scanned)
        /\ HoldsUpdatesOf(Triggers)' = HoldsUpdatesOf(Triggers)
    BY <2>1, <2>2, <2>3 DEF HoldsUpdatesOf
  <2> QED
    BY <1>0, <2>1, <2>2, <2>3, <2>4 DEF IInv, ScanCorrect, Running
<1> QED
  BY <1>1, <1>2, <1>3, <1>4 DEF Next

(***************************************************************************)
(* The correctness of parse_transaction's scan, for every transaction and *)
(* every assembler: while the loops run, state_updates holds exactly the  *)
(* updates of the triggers already passed, in loop order; an error        *)
(* returned is the outcome of a trigger after only successful ones; an Ok *)
(* merges the updates of every trigger.  The argument: a loop iteration   *)
(* that matches no trigger and the move to the next group leave the set   *)
(* of scanned triggers unchanged; a push adds a trigger that comes after  *)
(* every scanned one, so it ranks last and the others keep their ranks    *)
(* (RankAddLast); when the outer loop ends every trigger is scanned.      *)
(***************************************************************************)
THEOREM ScanCorrectness == Spec => []ScanCorrect
<1>1. IInv => ScanCorrect
  BY DEF IInv
<1> QED
  BY <1>1, ScanInit, ScanStep, PTL DEF Spec

=============================================================================
