----------------------------- MODULE MCPhotonMain -----------------------------
(***************************************************************************)
(* Model-checking harness for photon's main: a chain with skipped slots,  *)
(* one --start-slot value and one last indexed slot in an existing        *)
(* database, both on blocks.                                               *)
(***************************************************************************)
EXTENDS PhotonMain

MCBlocks     == {1, 2, 3, 5, 9}
MCStartSlots == {3}
MCDbSlots    == {2}
MCNetworks   == {"devnet", "other"}

=============================================================================
