-------------------------- MODULE AssemblerCallProofs --------------------------
(***************************************************************************)
(* The invariant AssemblyMatchesSpec of the one-call harness              *)
(* AssemblerCall, for every set of inputs, from AssemblerMatchesReference. *)
(***************************************************************************)
EXTENDS AssemblerCall, EventAssemblerProofs, TLAPS

\* The inputs stay those of the call, and a result is the call's.
CallInv ==
    /\ changelogs \in ChangelogsInputs
    /\ event \in EventInputs
    /\ outcome \in {Pending, ParsePublicTransactionEvent(changelogs, event)}

LEMMA CallInvInductive == Spec => []CallInv
<1>1. Init => CallInv
      BY DEF Init, CallInv
<1>2. CallInv /\ [Assemble]_vars => CallInv'
      BY DEF CallInv, Assemble, vars
<1> QED
    BY <1>1, <1>2, PTL DEF Spec

(***************************************************************************)
(* AssemblyMatchesSpec of run assembler_matches_spec, for every set of    *)
(* changelog lists and events: once parse_public_transaction_event has    *)
(* returned on an event whose hashes pair up and whose input indices are  *)
(* inside pubkey_array, its result is SpecAssemble's.                      *)
(***************************************************************************)
THEOREM AssemblyMatchesSpecHolds == Spec => []AssemblyMatchesSpec
<1>1. CallInv => AssemblyMatchesSpec
      <2> SUFFICES ASSUME CallInv, outcome # Pending, WellFormedEvent(event),
                          EventInRange(event)
                   PROVE  outcome = SpecAssemble(changelogs, event)
          BY DEF AssemblyMatchesSpec
      <2>1. changelogs \in Seq(ChangelogEvent) /\ event \in PublicTransactionEvent
            BY InputsAssumption DEF CallInv
      <2>2. outcome = ParsePublicTransactionEvent(changelogs, event)
            BY DEF CallInv
      <2> QED
          BY <2>1, <2>2, AssemblerMatchesReference
<1> QED
    BY <1>1, CallInvInductive, PTL

=============================================================================
