----------------------------- MODULE MCZkHumans -----------------------------
(***************************************************************************)
(* Small instances of ZkHumans: two identities i1 and i2 with the operator *)
(* keys k1 and k2, and the secrets p1 and p2 their owners may enrol.       *)
(***************************************************************************)
EXTENDS ZkHumans, TLC

CONSTANTS i1, i2, k1, k2, p1, p2

OpKeys == i1 :> k1 @@ i2 :> k2

\* Every secret is known to one owner ...
OwnSecrets == i1 :> {p1} @@ i2 :> {p2}
OneOwnSecret == i1 :> {p1} @@ i2 :> {}

\* ... or two identities enrol the same one.
SharedSecret == i1 :> {p1} @@ i2 :> {p1}

\* The methods the web app calls.
AppMethods == {"addIdentity", "addAuthNFactor"}

=============================================================================
