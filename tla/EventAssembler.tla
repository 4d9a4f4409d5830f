--------------------------- MODULE EventAssembler ---------------------------
(***************************************************************************)
(* The event assembler: parse_public_transaction_event and                *)
(* extract_path_updates of src/src/ingester/parser/mod.rs.  Both are pure *)
(* functions of the two decoded payloads, so they are operators; the      *)
(* scanner (InstructionScanner) calls them once per matched trigger.      *)
(***************************************************************************)
EXTENDS StateUpdate, SequencesExt

\* CompressedAccountWithMerkleContext, reduced to the two fields read.
InAccount == [account : Accounts, treeIndex : Nat]

\* ChangelogEvent::V1 (ChangelogEventV1); its unused `index` is left out.
ChangelogEvent == [id : Trees, paths : Seq(Seq(Nodes)), seq : Nat]

\* PublicTransactionEvent, reduced to the fields that are destructured.
PublicTransactionEvent ==
    [inHashes : Seq(Hashes), outHashes : Seq(Hashes),
     inAccounts : Seq(InAccount), outAccounts : Seq(Accounts),
     pubkeys : Seq(Trees)]

\* Iterator::zip stops at the shorter side.
ZipLen(m, n) == IF m <= n THEN m ELSE n

\* extract_path_updates: flat_map over the V1 events, one PathUpdate per
\* path, in event order and path order.
ExtractPathUpdates(changelogs) ==
    FlattenSeq([e \in 1..Len(changelogs) |->
                  LET cl == changelogs[e]
                  IN  [p \in 1..Len(cl.paths) |->
                         [tree |-> cl.id, path |-> cl.paths[p], seq |-> cl.seq]]])

\* The input loop indexes pubkey_array[merkle_tree_pubkey_index as usize]
\* for every (account, hash) pair the zip yields; an index past the end
\* panics.
InputIndexOutOfBounds(ev) ==
    \E k \in 1..ZipLen(Len(ev.inAccounts), Len(ev.inHashes)) :
        ev.inAccounts[k].treeIndex >= Len(ev.pubkeys)

\* The input loop: one EnrichedAccount per zipped (account, hash) pair.
EnrichInputs(ev) ==
    [k \in 1..ZipLen(Len(ev.inAccounts), Len(ev.inHashes)) |->
        [account |-> ev.inAccounts[k].account,
         tree    |-> ev.pubkeys[ev.inAccounts[k].treeIndex + 1],
         seq     |-> NoSeq,
         hash    |-> ev.inHashes[k]]]

\* The output loop: output accounts zipped with the path updates and then
\* with the output hashes.
EnrichOutputs(ev, pu) ==
    [k \in 1..ZipLen(ZipLen(Len(ev.outAccounts), Len(pu)), Len(ev.outHashes)) |->
        [account |-> ev.outAccounts[k],
         tree    |-> pu[k].tree,
         seq     |-> pu[k].seq,
         hash    |-> ev.outHashes[k]]]

\* A variant of the closure below that counts levels from one.
ExpandPathLevelFromOne(u) ==
    [l \in 1..Len(u.path) |->
        [node |-> u.path[l], tree |-> u.tree, seq |-> u.seq,
         level |-> l, depth |-> Len(u.path)]]

\* The closure of the final flat_map: one node per path entry, leaf first.
ExpandPath(u) ==
    [l \in 1..Len(u.path) |->
        [node |-> u.path[l], tree |-> u.tree, seq |-> u.seq,
         level |-> l - 1, depth |-> Len(u.path)]]

PathNodes(pu) == FlattenSeq([k \in 1..Len(pu) |-> ExpandPath(pu[k])])

\* parse_public_transaction_event: inputs first (where the panic happens),
\* then the output-count check, then outputs and path nodes.
ParsePublicTransactionEvent(changelogs, ev) ==
    LET pu == ExtractPathUpdates(changelogs)
    IN  IF InputIndexOutOfBounds(ev) THEN Err("panic")
        ELSE IF Len(ev.outAccounts) # Len(pu) THEN Err("malformed")
        ELSE Ok([in    |-> EnrichInputs(ev),
                 out   |-> EnrichOutputs(ev, pu),
                 nodes |-> PathNodes(pu)])

=============================================================================
