------------------------------- MODULE Prover -------------------------------
(***************************************************************************)
(* The prover (apps/prover): turns the pending rows of the table "storage" *)
(* into one transaction that commits them.  It reads the rows, then the    *)
(* map of each store they name, then the manager's map, each at an await   *)
(* of its own; it sets isTransforming once the transaction is sent.        *)
(***************************************************************************)
EXTENDS IdentityManager, Storage

VARIABLES
    pvPc,        \* where the prover is in its loop
    pvRows,      \* the keys of the pending rows it read, with their values
    pvMaps,      \* the level-2 maps it has restored and updated so far
    pvPending,   \* commitmentPending of the transaction
    pvSettled    \* commitmentSettled of the transaction

proverVars == <<pvPc, pvRows, pvMaps, pvPending, pvSettled>>

PvPcs == {"query", "restoreStores", "send",
          "setTransforming", "wait"}

ProverTypeOK ==
    /\ pvPc \in PvPcs
    /\ \A r \in pvRows :
          r \in [key : Keys, value : ValuesOf(r.key), storageKey : Level2]
    /\ pvMaps \in [Level2 -> Keyrings \cup {NULL}]
    /\ pvPending \in Commitments \cup {NULL}
    /\ pvSettled \in Commitments \cup {NULL}
    /\ pvPc = "send" => pvSettled \in Commitments

NoMaps == [s \in Level2 |-> NULL]

Rest ==
    /\ pvPc' = "query"
    /\ pvRows' = {}
    /\ pvMaps' = NoMaps
    /\ pvPending' = NULL
    /\ pvSettled' = NULL

ProverInit ==
    /\ pvPc = "query"
    /\ pvRows = {}
    /\ pvMaps = NoMaps
    /\ pvPending = NULL
    /\ pvSettled = NULL

\* The rows of level 3: in a store, and not directly in the manager's.
Level3Reads(st) ==
    {[key |-> k, value |-> st[k].value, storageKey |-> st[k].storageKey] :
        k \in {j \in Pending(st) : st[j].storageKey \in Level2}}

\* Mutant: a transformation in progress is not waited for.
MutantQuery ==
    /\ pvPc = "query"
    /\ Pending(storage) # {}
    /\ pvRows' = Level3Reads(storage)
    /\ \E k \in Pending(storage) : pvPending' = storage[k].commitmentPending
    /\ pvPc' = "restoreStores"
    /\ UNCHANGED <<pvMaps, pvSettled>>

\* No transformation is in progress and rows are pending.  commitmentPending
\* is that of the last row, which may be any of them.
Query ==
    /\ pvPc = "query"
    /\ ~isTransforming
    /\ Pending(storage) # {}
    /\ pvRows' = Level3Reads(storage)
    /\ \E k \in Pending(storage) : pvPending' = storage[k].commitmentPending
    /\ pvPc' = "restoreStores"
    /\ UNCHANGED <<pvMaps, pvSettled>>

\* Mutant: the restored map is taken as it is.
MutantUpdated(ring, s) == ring

\* The leaves of the rows read from store s, set in s's restored map.  The
\* junk rows, of keys that are no factors, have the value EMPTY.
Updated(ring, s) ==
    [f \in Factors |->
        IF \E r \in pvRows : r.storageKey = s /\ r.key = f
        THEN (CHOOSE r \in pvRows : r.storageKey = s /\ r.key = f).value
        ELSE ring[f]]

RestoreStore(s) ==
    /\ pvPc = "restoreStores"
    /\ pvMaps[s] = NULL
    /\ \E r \in pvRows : r.storageKey = s
    /\ pvMaps' = [pvMaps EXCEPT ![s] = Updated(StoredKeyring(storage, s), s)]
    /\ UNCHANGED <<pvPc, pvRows, pvPending, pvSettled>>

\* Mutant: the manager's map is not restored.
MutantProverRestoreManager ==
    /\ pvPc = "restoreStores"
    /\ pvSettled' = [s \in Level2 |-> IF pvMaps[s] = NULL
                                      THEN EMPTY
                                      ELSE pvMaps[s]]
    /\ pvPc' = "send"
    /\ UNCHANGED <<pvRows, pvMaps, pvPending>>

\* All level-2 maps restored: their roots are set in the manager's map.
ProverRestoreManager ==
    /\ pvPc = "restoreStores"
    /\ \A r \in pvRows : pvMaps[r.storageKey] # NULL
    /\ pvSettled' = [s \in Level2 |-> IF pvMaps[s] = NULL
                                      THEN StoredManager(storage)[s]
                                      ELSE pvMaps[s]]
    /\ pvPc' = "send"
    /\ UNCHANGED <<pvRows, pvMaps, pvPending>>

Send ==
    /\ pvPc = "send"
    /\ CommitPendingXforms(pvPending, pvSettled)
    /\ pvPc' = "setTransforming"
    /\ UNCHANGED <<pvRows, pvMaps, pvPending, pvSettled>>

\* The method's assertion fails: the process ends and restarts.
SendFails ==
    /\ pvPc = "send"
    /\ pvPending # commitment
    /\ Rest
    /\ UNCHANGED chainVars

SetTransforming ==
    /\ pvPc = "setTransforming"
    /\ isTransforming' = TRUE
    /\ pvPc' = "wait"
    /\ UNCHANGED <<pvRows, pvMaps, pvPending, pvSettled,
                   storage, recorded, processed>>

\* The wait ends when the transaction is in a block, when it failed, and when
\* it takes too long; the three make no difference.
Waited ==
    /\ pvPc = "wait"
    /\ Rest

ProverCrash ==
    /\ pvPc # "query"
    /\ Rest

ProverStep ==
    \/ /\ \/ Query
          \/ \E s \in Level2 : RestoreStore(s)
          \/ ProverRestoreManager
          \/ Waited
       /\ UNCHANGED <<chainVars, dbVars>>
    \/ (Send \/ SendFails) /\ UNCHANGED dbVars
    \/ SetTransforming /\ UNCHANGED chainVars

=============================================================================
