------------------------------- MODULE MCPage -------------------------------
(***************************************************************************)
(* Instances of Page for TLC: two accounts, two passwords.                 *)
(***************************************************************************)
EXTENDS Page

CONSTANTS a1, a2, p1, p2

MCAccounts == {a1, a2}
MCFactors  == {p1, p2}
=============================================================================
