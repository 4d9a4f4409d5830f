--------------------------- MODULE TransactionInfo ---------------------------
(***************************************************************************)
(* The parser's input (ingester/typedefs/block_info.rs, not among the     *)
(* source files given: modelled from spec.md sections 3 and 6).           *)
(*                                                                         *)
(* A pubkey is a model value.  An instruction's data is represented by    *)
(* what the two borsh decoders make of its bytes: a payload p has a field *)
(* p.cl (Changelogs::deserialize) and a field p.pte                      *)
(* (PublicTransactionEvent::deserialize), each the decoded value or       *)
(* DecodeFail.  The same bytes may decode as both, as one or as neither.  *)
(***************************************************************************)
EXTENDS Sequences

CONSTANTS
    Pubkeys,                         \* program ids and account keys
    ACCOUNT_COMPRESSION_PROGRAM_ID,
    NOOP_PROGRAM_ID,
    Payloads,                        \* instruction data, as decodings
    DecodeFail                       \* a borsh decode error

ASSUME ProgramIdsAssumption ==
    /\ ACCOUNT_COMPRESSION_PROGRAM_ID \in Pubkeys
    /\ NOOP_PROGRAM_ID \in Pubkeys
    /\ ACCOUNT_COMPRESSION_PROGRAM_ID # NOOP_PROGRAM_ID

\* Instruction { program_id, accounts, data }; only membership in
\* `accounts` is ever tested, so it is a set.
Instruction == [program : Pubkeys, accounts : SUBSET Pubkeys, data : Payloads]

\* InstructionGroup { outer_instruction, inner_instructions }
InstructionGroup == [outer : Instruction, inner : Seq(Instruction)]

\* TransactionInfo.instruction_groups (the signature only appears in log
\* and error text and is left out).
Transaction == Seq(InstructionGroup)

=============================================================================
