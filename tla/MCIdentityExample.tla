-------------------------- MODULE MCIdentityExample --------------------------
(***************************************************************************)
(* The example's Alice and Bob: Bob enrols a password and a proof of       *)
(* person.                                                                 *)
(***************************************************************************)
EXTENDS IdentityExample, TLC

CONSTANTS alice, bob, opKeyAlice, opKeyBob, password, bioauth

OpKeys == alice :> opKeyAlice @@ bob :> opKeyBob
OthersOfBob == alice :> {} @@ bob :> {password, bioauth}

=============================================================================
