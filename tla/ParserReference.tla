--------------------------- MODULE ParserReference ---------------------------
(***************************************************************************)
(* What the parser must compute, written from spec.md sections 4.2-4.4    *)
(* and 7 alone, declaratively: triggers are a set of positions, "in       *)
(* order" is the lexicographic order of positions, and "ordered           *)
(* concatenation" ranks (sequence, index) pairs.  Nothing here is taken   *)
(* from the code; the code-level modules are checked against it.          *)
(***************************************************************************)
EXTENDS Naturals, FiniteSets, TransactionInfo, StateUpdate

\* Positions <<a, b>> ordered lexicographically.
LexBefore(p, q) == p[1] < q[1] \/ (p[1] = q[1] /\ p[2] < q[2])

\* The elements of a finite set of positions, listed in lexicographic order.
InLexOrder(S) ==
    [r \in 1..Cardinality(S) |->
        CHOOSE p \in S : Cardinality({q \in S : LexBefore(q, p)}) = r - 1]

\* The ordered concatenation of a sequence of sequences.
Concatenation(ss) ==
    LET order == InLexOrder(UNION {{<<k, j>> : j \in 1..Len(ss[k])} :
                                   k \in 1..Len(ss)})
    IN  [r \in DOMAIN order |-> ss[order[r][1]][order[r][2]]]

-----------------------------------------------------------------------------
(* Section 4.3: one trigger's pair of decoded events.                       *)

SpecPathUpdates(changelogs) ==
    Concatenation([e \in 1..Len(changelogs) |->
        [p \in 1..Len(changelogs[e].paths) |->
            [tree |-> changelogs[e].id, path |-> changelogs[e].paths[p],
             seq |-> changelogs[e].seq]]])

\* I2 of section 3: every input account's merkle_tree_pubkey_index is
\* inside pubkey_array.
EventInRange(ev) ==
    \A k \in 1..Len(ev.inAccounts) : ev.inAccounts[k].treeIndex < Len(ev.pubkeys)

\* I1 and I2 of section 3.
SpecMalformed(changelogs, ev) ==
    \/ Len(ev.outAccounts) # Len(SpecPathUpdates(changelogs))
    \/ \E k \in 1..Len(ev.inAccounts) :
           ev.inAccounts[k].treeIndex >= Len(ev.pubkeys)

\* The accounts and their hashes are zipped into pairs and triples: the
\* spec's properties are stated for events where they pair up.
WellFormedEvent(ev) ==
    /\ Len(ev.inHashes) = Len(ev.inAccounts)
    /\ Len(ev.outHashes) = Len(ev.outAccounts)

SpecAssemble(changelogs, ev) ==
    LET pu == SpecPathUpdates(changelogs)
    IN  IF SpecMalformed(changelogs, ev) THEN Err("malformed")
        ELSE Ok([in |-> [k \in 1..Len(ev.inAccounts) |->
                           [account |-> ev.inAccounts[k].account,
                            tree |-> ev.pubkeys[ev.inAccounts[k].treeIndex + 1],
                            seq |-> NoSeq, hash |-> ev.inHashes[k]]],
                 out |-> [j \in 1..Len(ev.outAccounts) |->
                           [account |-> ev.outAccounts[j], tree |-> pu[j].tree,
                            seq |-> pu[j].seq, hash |-> ev.outHashes[j]]],
                 nodes |-> Concatenation([k \in 1..Len(pu) |->
                           [i \in 1..Len(pu[k].path) |->
                              [node |-> pu[k].path[i], tree |-> pu[k].tree,
                               seq |-> pu[k].seq, level |-> i - 1,
                               depth |-> Len(pu[k].path)]]])])

-----------------------------------------------------------------------------
(* Sections 4.2, 4.4 and 7: a whole transaction.                            *)

\* An outer instruction followed by its inner instructions.
Traversal(grp) == <<grp.outer>> \o grp.inner

\* The trigger pattern of section 4.2 at position k of a traversal.
EmitsEvent(ins, k) ==
    /\ k + 2 <= Len(ins)
    /\ ins[k].program = ACCOUNT_COMPRESSION_PROGRAM_ID
    /\ NOOP_PROGRAM_ID \in ins[k].accounts
    /\ ins[k + 1].program = NOOP_PROGRAM_ID
    /\ ins[k + 2].program = NOOP_PROGRAM_ID

SpecTriggers(tx) ==
    {t \in UNION {{<<h, k>> : k \in 1..Len(Traversal(tx[h]))} : h \in 1..Len(tx)} :
        EmitsEvent(Traversal(tx[t[1]]), t[2])}

\* A decode failure is a ParserError; otherwise section 4.3 applies.
TriggerResult(tx, t) ==
    LET ins == Traversal(tx[t[1]])
        cl  == ins[t[2] + 1].data.cl
        ev  == ins[t[2] + 2].data.pte
    IN  IF cl = DecodeFail \/ ev = DecodeFail THEN Err("parser")
        ELSE SpecAssemble(cl, ev)

WellFormedTx(tx) ==
    \A t \in SpecTriggers(tx) :
        LET ev == Traversal(tx[t[1]])[t[2] + 2].data.pte
        IN  ev # DecodeFail => WellFormedEvent(ev)

\* The first failing trigger fails the transaction; otherwise the
\* per-trigger updates are merged in traversal order.
SpecParse(tx) ==
    LET ts     == InLexOrder(SpecTriggers(tx))
        rs     == [r \in DOMAIN ts |-> TriggerResult(tx, ts[r])]
        failed == {r \in DOMAIN rs : rs[r].kind # "ok"}
    IN  IF failed # {}
        THEN Err(rs[CHOOSE r \in failed : \A s \in failed : r <= s].kind)
        ELSE Ok([in    |-> Concatenation([r \in DOMAIN rs |-> rs[r].val.in]),
                 out   |-> Concatenation([r \in DOMAIN rs |-> rs[r].val.out]),
                 nodes |-> Concatenation([r \in DOMAIN rs |-> rs[r].val.nodes])])

=============================================================================
