------------------------------- MODULE Client -------------------------------
(***************************************************************************)
(* The web app of a user (apps/zkapp-zkhumans): preparing the proof of an  *)
(* operation from the maps it restores through the API, and sending it.    *)
(*                                                                         *)
(* The maps are read at separate awaits, then the method runs against the  *)
(* commitment fetched from the network.  The app lets a user leave the     *)
(* page and start another operation while a transaction is under way, so   *)
(* a client is free again as soon as it has sent one.                      *)
(***************************************************************************)
EXTENDS IdentityManager, Storage

CONSTANTS
    Clients,    \* browsers
    Methods     \* the contract methods they call

AllMethods == {"addIdentity", "NEW_addIdentity",
               "addAuthNFactor", "delAuthNFactor"}

ASSUME MethodsAssumption == Methods \subseteq AllMethods

VARIABLE client   \* client[u]: the operation u is preparing

clientVars == <<client>>

Idle == [pc |-> "idle"]

Preparing ==
    [pc : {"restoreManager"}, method : AllMethods, id : Ids, factor : Factors,
     ring : Keyrings]
    \cup
    [pc : {"prove"}, method : AllMethods, id : Ids, factor : Factors,
     ring : Keyrings, mgr : Commitments]

ClientTypeOK == client \in [Clients -> {Idle} \cup Preparing]

ClientInit == client = [u \in Clients |-> Idle]

\* identities.new: the next identifier that is not in storage, with a keyring
\* made on the spot.
BeginIdentity(u, method, i) ==
    /\ client[u] = Idle
    /\ sends < MaxSends
    /\ method \in Methods \cap {"addIdentity", "NEW_addIdentity"}
    /\ ~Exists(storage, i)
    /\ client' = [client EXCEPT ![u] =
          [pc |-> "restoreManager", method |-> method, id |-> i,
           factor |-> OpKey[i], ring |-> FirstKeyring(i)]]

\* identities.$identityId: the keyring restored from storage.
BeginFactor(u, method, i, f) ==
    /\ client[u] = Idle
    /\ sends < MaxSends
    /\ method \in Methods \cap {"addAuthNFactor", "delAuthNFactor"}
    /\ Exists(storage, i)
    /\ f \in Enrols[i]
    /\ client' = [client EXCEPT ![u] =
          [pc |-> "restoreManager", method |-> method, id |-> i,
           factor |-> f, ring |-> StoredKeyring(storage, i)]]

\* ... then the manager's map.
RestoreManager(u) ==
    /\ client[u].pc = "restoreManager"
    /\ client' = [client EXCEPT ![u] =
          [pc |-> "prove", method |-> @.method, id |-> @.id,
           factor |-> @.factor, ring |-> @.ring,
           mgr |-> StoredManager(storage)]]

\* The assertions of method for the operation p, and the events it emits.
\* The app takes each witness for the key it names in the call: the manager's
\* for the identifier, the keyring's for the operator key and for the factor,
\* and claims the root of the keyring as the identity's commitment.
Asserts(p) ==
    CASE p.method \in {"addIdentity", "NEW_addIdentity"} ->
            AddStoreAsserts(p.mgr, p.id, commitment)
      [] p.method = "addAuthNFactor" ->
            /\ OperatorKeyAsserts(p.ring, OpKey[p.id], p.ring)
            /\ SetStoreDataAsserts(p.mgr, p.ring, p.id, p.factor, EMPTY,
                                   commitment)
      [] p.method = "delAuthNFactor" ->
            /\ OperatorKeyAsserts(p.ring, OpKey[p.id], p.ring)
            /\ SetStoreDataAsserts(p.mgr, p.ring, p.id, p.factor, PRESENT,
                                   commitment)

Emits(p) ==
    CASE p.method = "addIdentity"     -> AddIdentityEvents(p.id, commitment)
      [] p.method = "NEW_addIdentity" -> NewAddIdentityEvents(p.id, commitment)
      [] p.method = "addAuthNFactor"  ->
            AddAuthNFactorEvents(p.id, p.factor, commitment)
      [] p.method = "delAuthNFactor"  ->
            DelAuthNFactorEvents(p.id, p.factor, commitment)

\* The method runs, its transaction is proved and sent.
Prove(u) ==
    /\ client[u].pc = "prove"
    /\ Asserts(client[u])
    /\ SendUser(Emits(client[u]))
    /\ client' = [client EXCEPT ![u] = Idle]

\* An assertion fails: the error is shown and the user may try again.
ProveFails(u) ==
    /\ client[u].pc = "prove"
    /\ ~Asserts(client[u])
    /\ client' = [client EXCEPT ![u] = Idle]
    /\ UNCHANGED chainVars

ClientStep(u) ==
    \/ /\ \/ \E i \in Ids, m \in Methods : BeginIdentity(u, m, i)
          \/ \E i \in Ids, m \in Methods : \E f \in Enrols[i] :
                BeginFactor(u, m, i, f)
          \/ RestoreManager(u)
       /\ UNCHANGED chainVars
    \/ Prove(u)
    \/ ProveFails(u)

=============================================================================
