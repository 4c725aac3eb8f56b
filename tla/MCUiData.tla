------------------------------ MODULE MCUiData ------------------------------
(***************************************************************************)
(* Instances of UiData for TLC.  a1 exists on the network, a2 does not     *)
(* until it is funded.                                                     *)
(***************************************************************************)
EXTENDS UiData

CONSTANTS a1, a2

MCAccounts == {a1, a2}
MCOnChain  == {a1}
MCOwners   == {a1}
=============================================================================
