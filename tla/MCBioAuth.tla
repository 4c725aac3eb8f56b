------------------------------ MODULE MCBioAuth ------------------------------
(***************************************************************************)
(* Instances of BioAuth for TLC: two ids, one human, two tabs.             *)
(***************************************************************************)
EXTENDS BioAuth

CONSTANTS x, y, h, t1, t2

MCBioIds == {x, y}
MCHumans == {h}
MCTabs   == {t1, t2}
=============================================================================
