---------------------------- MODULE StateUpdate ----------------------------
(***************************************************************************)
(* The records the parser produces and the merger that combines them      *)
(* (ingester/parser/state_update.rs, which is not among the source files  *)
(* given: modelled from spec.md sections 3 and 4.4).                       *)
(*                                                                         *)
(* Data is abstracted to what the properties tell apart: a tree pubkey,   *)
(* a path node, a compressed-account payload and a 32-byte hash are model *)
(* values.  The slot is the same for every entry of a transaction and is  *)
(* left out.                                                               *)
(***************************************************************************)
EXTENDS Naturals, Sequences

CONSTANTS
    Trees,      \* tree pubkeys (ChangelogEventV1.id, pubkey_array entries)
    Nodes,      \* PathNode values { node, index }
    Accounts,   \* compressed-account payloads
    Hashes,     \* 32-byte account hashes
    NoSeq       \* EnrichedAccount.seq = None

ASSUME NoSeqAssumption == NoSeq \notin Nat

\* EnrichedAccount { account, tree, seq, slot, hash }
EnrichedAccount ==
    [account : Accounts, tree : Trees, seq : Nat \cup {NoSeq}, hash : Hashes]

\* EnrichedPathNode { node, slot, tree, seq, level, tree_depth }
EnrichedPathNode ==
    [node : Nodes, tree : Trees, seq : Nat, level : Nat, depth : Nat]

\* StateUpdate { in_accounts, out_accounts, path_nodes }
StateUpdateT ==
    [in : Seq(EnrichedAccount), out : Seq(EnrichedAccount),
     nodes : Seq(EnrichedPathNode)]

\* StateUpdate::new()
EmptyUpdate == [in |-> <<>>, out |-> <<>>, nodes |-> <<>>]

\* StateUpdate::merge: a's entries first, field by field.
Merge(a, b) ==
    [in |-> a.in \o b.in, out |-> a.out \o b.out, nodes |-> a.nodes \o b.nodes]

\* StateUpdate::merge_updates: the left fold of Merge starting from empty.
MergeUpdates(us) ==
    LET fold[k \in 0..Len(us)] ==
            IF k = 0 THEN EmptyUpdate ELSE Merge(fold[k - 1], us[k])
    IN  fold[Len(us)]

(***************************************************************************)
(* Outcome of parsing one trigger or one transaction.  "ok" carries the   *)
(* update; "parser" is IngesterError::ParserError, "malformed" is         *)
(* IngesterError::MalformedEvent, "panic" is a Rust panic that unwinds    *)
(* out of the parser.  An error carries the empty update.                 *)
(***************************************************************************)
ErrorKinds == {"parser", "malformed", "panic"}

Ok(u) == [kind |-> "ok", val |-> u]

Err(k) == [kind |-> k, val |-> EmptyUpdate]

OutcomeT == [kind : {"ok"} \cup ErrorKinds, val : StateUpdateT]

=============================================================================
