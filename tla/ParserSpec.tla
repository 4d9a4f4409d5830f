------------------------------ MODULE ParserSpec ------------------------------
(***************************************************************************)
(* What parse_transaction promises (spec.md sections 4 and 7): one step   *)
(* takes a transaction to the result SpecParse prescribes.  The scanner   *)
(* (InstructionScanner) implements it with res mapped to its result.      *)
(***************************************************************************)
EXTENDS ParserReference

VARIABLES tx, res

avars == <<tx, res>>

Pending == [kind |-> "pending", val |-> EmptyUpdate]

Init ==
    /\ tx \in Transaction
    /\ res = Pending

Parse ==
    /\ res = Pending
    /\ res' = SpecParse(tx)
    /\ UNCHANGED tx

\* A parse that has been called returns.
Spec == Init /\ [][Parse]_avars /\ WF_avars(Parse)

=============================================================================
