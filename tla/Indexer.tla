------------------------------- MODULE Indexer -------------------------------
(***************************************************************************)
(* The indexer (apps/indexer): records the archived events in the database *)
(* and replays them, in order, on the table "storage".  Every API call is  *)
(* a step of its own; a call that fails and a crash both end the process,  *)
(* which restarts at the top of its loop with nothing but the database.    *)
(*                                                                         *)
(* Which blocks a cycle scans is the subject of module EventFetch; here a  *)
(* cycle records some of the archived events that follow those recorded.   *)
(***************************************************************************)
EXTENDS IdentityManager, Storage

VARIABLES
    ixPc,      \* where the indexer is in its loop
    ixStores   \* the stores a commit still has to update

indexerVars == <<ixPc, ixStores>>

IxPcs == {"fetch", "process", "setData", "updateStores",
          "clearTransforming", "markProcessed"}

IndexerTypeOK ==
    /\ ixPc \in IxPcs
    /\ ixStores \subseteq Level2

IndexerInit == ixPc = "fetch" /\ ixStores = {}

\* The event being processed.
Current == archive[processed + 1]

Fetch ==
    /\ ixPc = "fetch"
    /\ recorded' \in recorded .. Len(archive)
    /\ ixPc' = "process"
    /\ UNCHANGED <<storage, processed, isTransforming, ixStores>>

\* Every recorded event is processed: the cycle ends.
EndCycle ==
    /\ ixPc = "process"
    /\ processed = recorded
    /\ ixPc' = "fetch"
    /\ UNCHANGED <<dbVars, ixStores>>

ProcessCreate ==
    /\ ixPc = "process"
    /\ processed < recorded
    /\ Current.type = "storage:create"
    /\ ~Exists(storage, Current.key)
    /\ storage' = CreateRow(storage, Current.key, Current.value)
    /\ ixPc' = "markProcessed"
    /\ UNCHANGED <<recorded, processed, isTransforming, ixStores>>

\* Does the event carry data for the store it creates?
HasData(e) == e.meta[1] = e.value

\* Mutant: the data in the meta fields is left there.
MutantProcessPending ==
    /\ ixPc = "process"
    /\ processed < recorded
    /\ Current.type = "storage:pending"
    /\ CanSet(storage, Current.key, Current.id)
    /\ storage' = Set(storage, Current.key, Current.value,
                      Current.commitmentPending, Current.id)
    /\ ixPc' = "markProcessed"
    /\ UNCHANGED <<recorded, processed, isTransforming, ixStores>>

ProcessPending ==
    /\ ixPc = "process"
    /\ processed < recorded
    /\ Current.type = "storage:pending"
    /\ CanSet(storage, Current.key, Current.id)
    /\ storage' = Set(storage, Current.key, Current.value,
                      Current.commitmentPending, Current.id)
    /\ ixPc' = IF HasData(Current) THEN "setData" ELSE "markProcessed"
    /\ UNCHANGED <<recorded, processed, isTransforming, ixStores>>

\* Mutant: the row is put where the new store's own row is.
MutantSetData ==
    /\ ixPc = "setData"
    /\ storage' = Set(storage, Current.meta[2], Current.meta[3],
                      Current.commitmentPending, Current.id)
    /\ ixPc' = "markProcessed"
    /\ UNCHANGED <<recorded, processed, isTransforming, ixStores>>

\* The second and third meta fields, as a row within the new store.
SetData ==
    /\ ixPc = "setData"
    /\ storage' = Set(storage, Current.meta[2], Current.meta[3],
                      Current.commitmentPending, Current.key)
    /\ ixPc' = "markProcessed"
    /\ UNCHANGED <<recorded, processed, isTransforming, ixStores>>

\* Mutant: only the stores of the rows this very call settles are updated.
MutantProcessCommit ==
    /\ ixPc = "process"
    /\ processed < recorded
    /\ Current.type = "storage:commit"
    /\ LET cp == Current.commitmentPending
           cs == Current.commitmentSettled
       IN /\ storage' = Commit(storage, cp, cs)
          /\ ixStores' =
                {storage[k].storageKey : k \in
                    {j \in Pending(storage) :
                        storage[j].commitmentPending = cp}} \ {MANAGER}
    /\ ixPc' = "updateStores"
    /\ UNCHANGED <<recorded, processed, isTransforming>>

ProcessCommit ==
    /\ ixPc = "process"
    /\ processed < recorded
    /\ Current.type = "storage:commit"
    /\ LET cp == Current.commitmentPending
           cs == Current.commitmentSettled
       IN /\ storage' = Commit(storage, cp, cs)
          /\ ixStores' = CommittedStores(Commit(storage, cp, cs), cp, cs)
                            \ {MANAGER}
    /\ ixPc' = "updateStores"
    /\ UNCHANGED <<recorded, processed, isTransforming>>

\* A committed store's row takes the root of its restored map.
UpdateStore(s) ==
    /\ ixPc = "updateStores"
    /\ s \in ixStores
    /\ storage' = Update(storage, s, StoredKeyring(storage, s))
    /\ ixStores' = ixStores \ {s}
    /\ UNCHANGED <<recorded, processed, isTransforming, ixPc>>

\* Then so does the manager's row.
UpdateManager ==
    /\ ixPc = "updateStores"
    /\ ixStores = {}
    /\ storage' = Update(storage, MANAGER, StoredManager(storage))
    /\ ixPc' = "clearTransforming"
    /\ UNCHANGED <<recorded, processed, isTransforming, ixStores>>

\* Mutant: the flag stays as it is.
MutantClearTransforming ==
    /\ ixPc = "clearTransforming"
    /\ ixPc' = "markProcessed"
    /\ UNCHANGED <<dbVars, ixStores>>

ClearTransforming ==
    /\ ixPc = "clearTransforming"
    /\ isTransforming' = FALSE
    /\ ixPc' = "markProcessed"
    /\ UNCHANGED <<storage, recorded, processed, ixStores>>

MarkProcessed ==
    /\ ixPc = "markProcessed"
    /\ processed' = processed + 1
    /\ ixPc' = "process"
    /\ UNCHANGED <<storage, recorded, isTransforming, ixStores>>

\* Mutant: the table event is scanned anew, what is processed is not kept.
MutantRestart ==
    /\ ixPc' = "fetch"
    /\ ixStores' = {}
    /\ recorded' = 0
    /\ UNCHANGED <<storage, processed, isTransforming>>

Restart ==
    /\ ixPc' = "fetch"
    /\ ixStores' = {}
    /\ UNCHANGED dbVars

\* A call for the event e fails: the row to create exists, or the store of the
\* row to set does not.
Throws(e) == IF e.type = "storage:create"
             THEN Exists(storage, e.key)
             ELSE e.type = "storage:pending" /\ ~CanSet(storage, e.key, e.id)

\* ... and with it the process.
IndexerThrows ==
    /\ ixPc = "process"
    /\ processed < recorded
    /\ Throws(Current)
    /\ Restart

IndexerCrash ==
    /\ ixPc # "fetch"
    /\ Restart

IndexerStep ==
    \/ Fetch \/ EndCycle
    \/ ProcessCreate \/ ProcessPending \/ SetData
    \/ ProcessCommit \/ (\E s \in Level2 : UpdateStore(s)) \/ UpdateManager
    \/ ClearTransforming \/ MarkProcessed
    \/ IndexerThrows

=============================================================================
