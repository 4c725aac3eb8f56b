-------------------------------- MODULE Zkkv --------------------------------
(***************************************************************************)
(* The key:value store of libs/zkkv, and the methods of the IdentityManager*)
(* contract that are built on it, as pure operators.                       *)
(*                                                                         *)
(* A Merkle root stands for the content of its map: Poseidon is taken to   *)
(* be injective, so two roots are equal exactly when the maps are.  A      *)
(* keyring maps factors to leaves, the manager's map (level 1) maps store  *)
(* keys to the roots of keyrings (level 2).  EMPTY is Field(0), the leaf   *)
(* of a key that is not in a map; it is not the root of an empty map.      *)
(***************************************************************************)
EXTENDS Naturals, Sequences

CONSTANTS
    Ids,        \* identifiers of identities (level-2 keys)
    Factors,    \* keys of authentication factors (level-3 keys)
    OpKey,      \* OpKey[i]: the operator key of identity i's owner
    Enrols,     \* Enrols[i]: the other factors i's owner may enrol
    MANAGER,    \* identifier of the manager's own store
    EMPTY,      \* Field(0)
    PRESENT,    \* Field(1): the leaf of a factor; also AuthNType.operator
    PROTOCOL,   \* Field(2) and above: a type or provider of a protocol
    NULL        \* an absent database row or column

ASSUME KeysAssumption ==
    /\ Ids \cap Factors = {}
    /\ {MANAGER, EMPTY, PRESENT, PROTOCOL, NULL} \cap (Ids \cup Factors) = {}
    /\ MANAGER \notin {EMPTY, PRESENT, PROTOCOL, NULL}
    /\ OpKey \in [Ids -> Factors]
    /\ Enrols \in [Ids -> SUBSET Factors]
    /\ \A i \in Ids : OpKey[i] \notin Enrols[i]

\* Children of a manager's map: identities, and any key a row names as store.
Level2   == Ids \cup Factors
EmptyMap == [f \in Factors |-> EMPTY]
Leaves   == {EMPTY, PRESENT, EmptyMap}
Keyrings == [Factors -> Leaves]

\* What the zkApp's commitment may be: the root of a manager's map.
Commitments == [Level2 -> Keyrings \cup {EMPTY}]

\* The map of a newly deployed manager.
NoIdentities == [s \in Level2 |-> EMPTY]

ASSUME FieldAssumption ==
    /\ EMPTY \notin Keyrings
    /\ PRESENT \notin {EMPTY, PROTOCOL}
    /\ PROTOCOL # EMPTY
    /\ NULL \notin Commitments

-----------------------------------------------------------------------------
(***************************************************************************)
(* Events.  meta is the triple of data1's meta fields.                     *)
(***************************************************************************)
NoMeta == <<EMPTY, EMPTY, EMPTY>>

EventStorageCreate(key, value) ==
    [type |-> "storage:create", key |-> key, value |-> value]

EventStoragePending(commitmentPending, id, key, value, meta) ==
    [type |-> "storage:pending", commitmentPending |-> commitmentPending,
     id |-> id, key |-> key, value |-> value, meta |-> meta]

EventStorageCommit(commitmentPending, commitmentSettled) ==
    [type |-> "storage:commit", commitmentPending |-> commitmentPending,
     commitmentSettled |-> commitmentSettled]

CreateEvents ==
    [type : {"storage:create"}, key : {MANAGER}, value : Commitments]
IdentityEvents ==
    [type : {"storage:pending"}, commitmentPending : Commitments,
     id : {MANAGER}, key : Ids, value : Keyrings,
     meta : (Keyrings \cup {EMPTY}) \X (Factors \cup {EMPTY})
                \X {PRESENT, EMPTY}]
FactorEvents ==
    [type : {"storage:pending"}, commitmentPending : Commitments,
     id : Ids, key : Factors, value : {PRESENT, EMPTY},
     meta : {PRESENT, PROTOCOL, EMPTY} \X {PROTOCOL, EMPTY} \X {EMPTY}]
CommitEvents ==
    [type : {"storage:commit"}, commitmentPending : Commitments,
     commitmentSettled : Commitments]
Events == CreateEvents \cup IdentityEvents \cup FactorEvents \cup CommitEvents

-----------------------------------------------------------------------------
(***************************************************************************)
(* What the contract methods assert of their witnesses.  A witness of a    *)
(* key holds the siblings on its path, that is the whole map but for the   *)
(* key's own leaf: computeRootAndKey(v) is the root with that leaf set to  *)
(* v.  mgr and ring are the maps the caller took the witnesses from, c is  *)
(* the zkApp's commitment when the proof is made.                          *)
(*                                                                         *)
(* w and k are the keys the caller took the witnesses for: the methods     *)
(* drop the key that computeRootAndKey returns beside the root, so nothing *)
(* here ties w or k to the identity, factor or operator key of the call.   *)
(* That they are its own is the caller's doing (see Asserts of Client).    *)
(***************************************************************************)

\* Mutant: proves the leaf to be whatever the caller's map holds.
MutantAddStoreAsserts(mgr, w, c) == mgr = c

\* ZKKV.addStore: the key of the witness is not in the committed map.
AddStoreAsserts(mgr, w, c) == [mgr EXCEPT ![w] = EMPTY] = c

\* Mutant: proves the keyring as it is, without the leaf data0.
MutantSetStoreDataAsserts(mgr, ring, w, k, data0, c) ==
    [mgr EXCEPT ![w] = ring] = c

\* ZKKV.setStoreData: the leaf of k is data0 in the keyring committed at w.
SetStoreDataAsserts(mgr, ring, w, k, data0, c) ==
    [mgr EXCEPT ![w] = [ring EXCEPT ![k] = data0]] = c

\* The leaf of k is an operator key's in the keyring whose root is claimed:
\* the value of every factor is 1 (AuthNFactor.getValue).
OperatorKeyAsserts(ring, k, claimed) == [ring EXCEPT ![k] = PRESENT] = claimed

(***************************************************************************)
(* The events the methods emit.  The app creates an identity whose meta    *)
(* fields are its root and its operator key, for the indexer to unpack;    *)
(* NEW_addIdentity emits the operator key as an event of its own, with the *)
(* protocol of the key (type operator, provider zkhumans, revision 0).     *)
(***************************************************************************)
FirstKeyring(i) == [EmptyMap EXCEPT ![OpKey[i]] = PRESENT]

AddIdentityEvents(i, c) ==
    <<EventStoragePending(c, MANAGER, i, FirstKeyring(i),
                          <<FirstKeyring(i), OpKey[i], PRESENT>>)>>

NewAddIdentityEvents(i, c) ==
    <<EventStoragePending(c, MANAGER, i, FirstKeyring(i), NoMeta),
      EventStoragePending(c, i, OpKey[i], PRESENT,
                          <<PRESENT, PROTOCOL, EMPTY>>)>>

AddAuthNFactorEvents(i, f, c) ==
    <<EventStoragePending(c, i, f, PRESENT, <<PROTOCOL, PROTOCOL, EMPTY>>)>>

DelAuthNFactorEvents(i, f, c) ==
    <<EventStoragePending(c, i, f, EMPTY, NoMeta)>>

=============================================================================
