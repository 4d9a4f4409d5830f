------------------------- MODULE EventAssemblerProofs -------------------------
(***************************************************************************)
(* Proof that parse_public_transaction_event (EventAssembler) computes    *)
(* what section 4.3 prescribes (ParserReference's SpecAssemble) on every  *)
(* event whose hashes pair up with its accounts and whose input indices   *)
(* are inside pubkey_array.  AssemblerCallProofs and ScannerRefinement    *)
(* build on it.                                                            *)
(***************************************************************************)
EXTENDS EventAssembler, ParserReferenceProofs, NaturalsInduction,
        WellFoundedInduction, TLAPS

\* A PathUpdate { tree, path, seq } of extract_path_updates.
PathUpdateT == [tree : Trees, path : Seq(Nodes), seq : Nat]

-----------------------------------------------------------------------------
(***************************************************************************)
(* SequencesExt's FlattenSeq, the flat_map of the code, is the ordered    *)
(* concatenation of the reference: by induction on its fold's index, with *)
(* ConcatenationAppend as the step.                                        *)
(***************************************************************************)
LEMMA FlattenSeqIsConcatenation ==
    ASSUME NEW X, NEW ss \in Seq(Seq(X))
    PROVE  FlattenSeq(ss) = Concatenation(ss)
<1>1. Prefix(ss, Len(ss)) = ss
      BY DEF Prefix
<1>2. CASE Len(ss) = 0
      <2>1. ss = << >>
            BY <1>2
      <2>2. FlattenSeq(ss) = << >>
            BY <1>2, <2>1 DEF FlattenSeq
      <2> QED
          BY <1>1, <1>2, <2>2, ConcatenationEmpty
<1>3. CASE Len(ss) # 0
      <2> DEFINE f == CHOOSE g : g = [i \in 1 .. Len(ss) |->
                                        IF i = 1 THEN ss[i] ELSE g[i - 1] \o ss[i]]
      <2>1. FlattenSeq(ss) = f[Len(ss)]
            BY <1>3 DEF FlattenSeq
      <2> HIDE DEF f
      <2>2. f = [i \in 1 .. Len(ss) |-> IF i = 1 THEN ss[1] ELSE f[i - 1] \o ss[i]]
            <3>1. FiniteNatInductiveDefHypothesis(f, ss[1],
                                                  LAMBDA v, i : v \o ss[i], 1, Len(ss))
                  BY DEF FiniteNatInductiveDefHypothesis, f
            <3>2. FiniteNatInductiveDefConclusion(f, ss[1],
                                                  LAMBDA v, i : v \o ss[i], 1, Len(ss))
                  <4>1. 1 \in Nat /\ Len(ss) \in Nat
                        OBVIOUS
                  <4> QED
                      BY <3>1, <4>1, FiniteNatInductiveDef, Zenon
            <3> QED
                BY <3>2 DEF FiniteNatInductiveDefConclusion
      <2> DEFINE Bad == {i \in 1 .. Len(ss) : f[i] # Concatenation(Prefix(ss, i))}
      <2>3. Bad = {}
            <3> SUFFICES ASSUME Bad # {} PROVE FALSE
                OBVIOUS
            <3>1. Bad \subseteq Nat
                  BY DEF Bad
            <3>2. PICK x \in Bad : \A y \in Bad : ~(<<y, x>> \in OpToRel(<, Nat))
                  BY <3>1, NatLessThanWellFounded, WFMin, Zenon
            <3>3. x \in 1 .. Len(ss) /\ x \in Nat
                  BY DEF Bad
            <3>4. Concatenation(Prefix(ss, x))
                    = Concatenation(Prefix(ss, x - 1)) \o ss[x]
                  BY <3>3, ConcatenationAppend
            <3>5. CASE x = 1
                  <4>1. Concatenation(Prefix(ss, 0)) = << >>
                        BY ConcatenationEmpty
                  <4>2. ss[1] \in Seq(X)
                        BY <1>3
                  <4>3. f[1] = ss[1]
                        BY <2>2, <1>3
                  <4>4. Concatenation(Prefix(ss, 1)) = << >> \o ss[1]
                        <5>1. 1 \in 1 .. Len(ss)
                              BY <1>3
                        <5>2. Concatenation(Prefix(ss, 1))
                                = Concatenation(Prefix(ss, 1 - 1)) \o ss[1]
                              BY <5>1, ConcatenationAppend
                        <5>3. Prefix(ss, 1 - 1) = Prefix(ss, 0)
                              OBVIOUS
                        <5> QED
                            BY <4>1, <5>2, <5>3
                  <4>5. Concatenation(Prefix(ss, 1)) = f[1]
                        BY <4>2, <4>3, <4>4
                  <4> QED
                      BY <3>5, <4>5 DEF Bad
            <3>6. CASE x # 1
                  <4>1. x - 1 \in 1 .. Len(ss) /\ x - 1 \in Nat /\ x - 1 < x
                        BY <3>3, <3>6
                  <4>2. <<x - 1, x>> \in OpToRel(<, Nat)
                        BY <3>3, <4>1, Zenon DEF OpToRel
                  <4>3. f[x - 1] = Concatenation(Prefix(ss, x - 1))
                        BY <3>2, <4>1, <4>2, Zenon DEF Bad
                  <4>4. f[x] = f[x - 1] \o ss[x]
                        BY <2>2, <3>3, <3>6
                  <4> QED
                      BY <3>4, <4>3, <4>4 DEF Bad
            <3> QED
                BY <3>5, <3>6
      <2>4. Len(ss) \in 1 .. Len(ss)
            BY <1>3
      <2>5. f[Len(ss)] = Concatenation(Prefix(ss, Len(ss)))
            BY <2>3, <2>4, Zenon DEF Bad
      <2> QED
          BY <1>1, <2>1, <2>5
<1> QED
    BY <1>2, <1>3

-----------------------------------------------------------------------------
\* extract_path_updates lists the path updates of section 4.3, in order.
LEMMA PathUpdatesAgree ==
    ASSUME NEW cl \in Seq(ChangelogEvent)
    PROVE  /\ ExtractPathUpdates(cl) = SpecPathUpdates(cl)
           /\ SpecPathUpdates(cl) \in Seq(PathUpdateT)
<1> DEFINE F == [e \in 1..Len(cl) |->
                   [p \in 1..Len(cl[e].paths) |->
                      [tree |-> cl[e].id, path |-> cl[e].paths[p], seq |-> cl[e].seq]]]
<1>1. F \in Seq(Seq(PathUpdateT))
      <2>1. \A e \in 1..Len(cl) : /\ cl[e].id \in Trees
                                  /\ cl[e].paths \in Seq(Seq(Nodes))
                                  /\ cl[e].seq \in Nat
            <3> TAKE e \in 1..Len(cl)
            <3>1. cl[e] \in ChangelogEvent
                  OBVIOUS
            <3> QED
                BY <3>1, Zenon DEF ChangelogEvent
      <2> QED
          BY <2>1 DEF PathUpdateT
<1>2. ExtractPathUpdates(cl) = FlattenSeq(F) /\ SpecPathUpdates(cl) = Concatenation(F)
      BY DEF ExtractPathUpdates, SpecPathUpdates
<1> QED
    BY <1>1, <1>2, FlattenSeqIsConcatenation, ConcatenationType

(***************************************************************************)
(* parse_public_transaction_event returns what section 4.3 prescribes on  *)
(* every pair of decoded events whose input and output hashes pair up     *)
(* with the accounts and whose input indices are inside pubkey_array: no  *)
(* zip shortens a list, the panic cannot happen, the only error left is   *)
(* the output-count check, and flat_map is the ordered concatenation.     *)
(***************************************************************************)
THEOREM AssemblerMatchesReference ==
    ASSUME NEW cl \in Seq(ChangelogEvent), NEW ev \in PublicTransactionEvent,
           WellFormedEvent(ev), EventInRange(ev)
    PROVE  ParsePublicTransactionEvent(cl, ev) = SpecAssemble(cl, ev)
<1> DEFINE pu == SpecPathUpdates(cl)
<1>1. ExtractPathUpdates(cl) = pu /\ pu \in Seq(PathUpdateT)
      BY PathUpdatesAgree
<1>2. /\ ev.inAccounts \in Seq(InAccount) /\ ev.inHashes \in Seq(Hashes)
      /\ ev.outAccounts \in Seq(Accounts) /\ ev.outHashes \in Seq(Hashes)
      /\ ev.pubkeys \in Seq(Trees)
      BY Zenon DEF PublicTransactionEvent
<1>3. /\ Len(ev.inHashes) = Len(ev.inAccounts)
      /\ Len(ev.outHashes) = Len(ev.outAccounts)
      BY DEF WellFormedEvent
<1>4. ZipLen(Len(ev.inAccounts), Len(ev.inHashes)) = Len(ev.inAccounts)
      BY <1>2, <1>3 DEF ZipLen
<1>9. \A k \in 1..Len(ev.inAccounts) :
         ev.inAccounts[k].treeIndex \in Nat /\ ev.inAccounts[k].treeIndex < Len(ev.pubkeys)
      <2> TAKE k \in 1..Len(ev.inAccounts)
      <2>1. ev.inAccounts[k] \in InAccount
            BY <1>2
      <2>2. ev.inAccounts[k].treeIndex \in Nat
            BY <2>1, Zenon DEF InAccount
      <2> QED
          BY <2>2 DEF EventInRange
<1>5. ~InputIndexOutOfBounds(ev)
      BY <1>2, <1>4, <1>9 DEF InputIndexOutOfBounds
<1>6. SpecMalformed(cl, ev) <=> Len(ev.outAccounts) # Len(pu)
      <2>1. ~\E k \in 1..Len(ev.inAccounts) : ev.inAccounts[k].treeIndex >= Len(ev.pubkeys)
            BY <1>2, <1>9
      <2> QED
          BY <2>1, Zenon DEF SpecMalformed, pu
<1>7. CASE Len(ev.outAccounts) # Len(pu)
      BY <1>1, <1>5, <1>6, <1>7 DEF ParsePublicTransactionEvent, SpecAssemble
<1>8. CASE Len(ev.outAccounts) = Len(pu)
      <2>1. EnrichInputs(ev)
              = [k \in 1..Len(ev.inAccounts) |->
                   [account |-> ev.inAccounts[k].account,
                    tree |-> ev.pubkeys[ev.inAccounts[k].treeIndex + 1],
                    seq |-> NoSeq, hash |-> ev.inHashes[k]]]
            BY <1>4 DEF EnrichInputs
      <2>2. ZipLen(ZipLen(Len(ev.outAccounts), Len(pu)), Len(ev.outHashes))
              = Len(ev.outAccounts)
            BY <1>2, <1>3, <1>8 DEF ZipLen
      <2>3. EnrichOutputs(ev, pu)
              = [j \in 1..Len(ev.outAccounts) |->
                   [account |-> ev.outAccounts[j], tree |-> pu[j].tree,
                    seq |-> pu[j].seq, hash |-> ev.outHashes[j]]]
            BY <2>2 DEF EnrichOutputs
      <2> DEFINE G == [k \in 1..Len(pu) |->
                         [i \in 1..Len(pu[k].path) |->
                            [node |-> pu[k].path[i], tree |-> pu[k].tree,
                             seq |-> pu[k].seq, level |-> i - 1,
                             depth |-> Len(pu[k].path)]]]
      <2>4. G \in Seq(Seq(EnrichedPathNode))
            <3>1. \A k \in 1..Len(pu) : /\ pu[k].path \in Seq(Nodes)
                                        /\ pu[k].tree \in Trees
                                        /\ pu[k].seq \in Nat
                  <4> TAKE k \in 1..Len(pu)
                  <4>1. pu[k] \in PathUpdateT
                        BY <1>1
                  <4> QED
                      BY <4>1, Zenon DEF PathUpdateT
            <3> QED
                BY <3>1 DEF EnrichedPathNode
      <2>5. PathNodes(pu) = Concatenation(G)
            <3>1. PathNodes(pu) = FlattenSeq(G)
                  BY DEF PathNodes, ExpandPath
            <3> QED
                BY <2>4, <3>1, FlattenSeqIsConcatenation
      <2> QED
          BY <1>1, <1>5, <1>6, <1>8, <2>1, <2>3, <2>5
          DEF ParsePublicTransactionEvent, SpecAssemble
<1> QED
    BY <1>7, <1>8

=============================================================================
