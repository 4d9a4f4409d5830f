------------------------- MODULE MCInstructionScanner -------------------------
(***************************************************************************)
(* Model-checking harness for parse_transaction: the scanner composed     *)
(* with the event assembler, run on every transaction of a bounded set,   *)
(* and checked against the abstract ParserSpec.                           *)
(***************************************************************************)
EXTENDS InstructionScanner, EventAssembler

CONSTANTS t1, t2, n1, n2, a1, a2, h1, h2, OtherProgram

MCTrees    == {t1, t2}
MCNodes    == {n1, n2}
MCAccounts == {a1, a2}
MCHashes   == {h1, h2}
MCPubkeys  == {ACCOUNT_COMPRESSION_PROGRAM_ID, NOOP_PROGRAM_ID, OtherProgram}

\* One path of two nodes on t1; two paths on two trees.
CL1 == << [id |-> t1, seq |-> 1, paths |-> << <<n1, n2>> >>] >>
CL2 == << [id |-> t1, seq |-> 1, paths |-> << <<n1>> >>],
          [id |-> t2, seq |-> 2, paths |-> << <<n2>> >>] >>

\* One output; one input and two outputs.  Both well formed: hashes pair
\* up with accounts and every index is inside pubkey_array.
PTE1 == [inHashes |-> <<>>, outHashes |-> <<h1>>, inAccounts |-> <<>>,
         outAccounts |-> <<a1>>, pubkeys |-> <<t1>>]
PTE2 == [inHashes |-> <<h2>>, outHashes |-> <<h1, h2>>,
         inAccounts |-> << [account |-> a2, treeIndex |-> 0] >>,
         outAccounts |-> <<a1, a2>>, pubkeys |-> <<t2>>]

\* Instruction data, by what each decoder makes of it.
Data(cl, pte) == [cl |-> cl, pte |-> pte]
Junk == Data(DecodeFail, DecodeFail)
MCPayloads ==
    {Data(CL1, DecodeFail), Data(CL2, DecodeFail), Data(DecodeFail, PTE1),
     Data(DecodeFail, PTE2), Junk}

Inst(p, accs, d) == [program |-> p, accounts |-> accs, data |-> d]
Noop(d) == Inst(NOOP_PROGRAM_ID, {}, d)

\* The emitter with and without the noop account, and another program
\* that lists the noop account.
Emitter  == Inst(ACCOUNT_COMPRESSION_PROGRAM_ID, {NOOP_PROGRAM_ID}, Junk)
Silent   == Inst(ACCOUNT_COMPRESSION_PROGRAM_ID, {}, Junk)
Stranger == Inst(OtherProgram, {NOOP_PROGRAM_ID}, Junk)

FullAlphabet  == {Emitter, Silent, Stranger} \cup {Noop(d) : d \in MCPayloads}
SmallAlphabet == {Emitter, Noop(Data(CL1, DecodeFail)),
                  Noop(Data(DecodeFail, PTE1)), Noop(Data(DecodeFail, PTE2))}

\* Instruction groups of 1 to n instructions over an alphabet.
Groups(A, n) ==
    {[outer |-> s[1], inner |-> [i \in 1..Len(s) - 1 |-> s[i + 1]]] :
        s \in UNION {[1..m -> A] : m \in 1..n}}

\* Single groups of up to 4 instructions over every letter, single groups
\* of up to 6 (two triggers) and pairs of groups of up to 3 over the
\* letters that make triggers.
MCTxInputs ==
    {<<g>> : g \in Groups(FullAlphabet, 4)}
    \cup {<<g>> : g \in Groups(SmallAlphabet, 6)}
    \cup {<<g1, g2>> : g1, g2 \in Groups(SmallAlphabet, 3)}

MCAssemble(cl, ev) == ParsePublicTransactionEvent(cl, ev)

ASSUME MCWellFormedAssumption ==
    \A d \in MCPayloads :
        d.pte # DecodeFail =>
            /\ Len(d.pte.inHashes) = Len(d.pte.inAccounts)
            /\ Len(d.pte.outHashes) = Len(d.pte.outAccounts)
            /\ \A k \in 1..Len(d.pte.inAccounts) :
                   d.pte.inAccounts[k].treeIndex < Len(d.pte.pubkeys)

=============================================================================
