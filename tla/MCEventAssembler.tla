--------------------------- MODULE MCEventAssembler ---------------------------
(***************************************************************************)
(* Model-checking harness for the event assembler: one call of            *)
(* parse_public_transaction_event on every pair of decoded events from    *)
(* small bounded sets (AssemblerCall), compared with the reference of    *)
(* ParserReference.                                                        *)
(***************************************************************************)
EXTENDS AssemblerCall

CONSTANTS t1, t2, n1, n2, a1, a2, h1, h2, h3

\* Merkle-tree indices the input accounts may carry, and the pubkey
\* arrays they index; a cfg chooses them.
CONSTANTS TreeIndices, PubkeyArrays

MCTrees    == {t1, t2}
MCNodes    == {n1, n2}
MCAccounts == {a1, a2}
MCHashes   == {h1, h2, h3}

\* Pubkey arrays long enough for every index in TreeIndices, and ones
\* that are not.
InRangePubkeyArrays == {<<t1, t2>>, <<t2, t1>>}
ShortPubkeyArrays   == {<<t1>>, <<t2, t1>>}
AllPubkeyArrays     == InRangePubkeyArrays \cup ShortPubkeyArrays

\* Events of two trees with distinct sequence numbers; their path lists
\* hold an empty path, paths of one and of two nodes, and two paths.
MCEvents ==
    {[id |-> ts[1], seq |-> ts[2], paths |-> ps] :
        ts \in {<<t1, 1>>, <<t2, 2>>},
        ps \in {<<>>, << <<>> >>, << <<n1>> >>, << <<n2>>, <<n1, n2>> >>}}

MCChangelogsInputs ==
    {<<>>} \cup {<<e>> : e \in MCEvents} \cup {<<e, f>> : e, f \in MCEvents}

MCInAccounts ==
    {<<>>} \cup {<<[account |-> a1, treeIndex |-> i]>> : i \in TreeIndices}
           \cup {<<[account |-> a1, treeIndex |-> i],
                   [account |-> a2, treeIndex |-> j]>> : i, j \in TreeIndices}

MCEventInputs ==
    [inHashes : Prefixes(<<h1, h2>>), outHashes : Prefixes(<<h3, h1>>),
     inAccounts : MCInAccounts, outAccounts : Prefixes(<<a2, a1>>),
     pubkeys : PubkeyArrays]

=============================================================================
