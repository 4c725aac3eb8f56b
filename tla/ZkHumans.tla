------------------------------ MODULE ZkHumans ------------------------------
(***************************************************************************)
(* The system: the zkApp on its network, the database behind the API, and  *)
(* the three programs that work on them concurrently - the users' apps,    *)
(* the indexer and the prover.                                             *)
(*                                                                         *)
(* Two constants restrict what the environment does, for the properties    *)
(* that need it; neither is enforced by the code.                          *)
(***************************************************************************)
EXTENDS Client, Indexer, Prover

CONSTANTS
    Serialized,         \* commits and users' transactions take turns
    PromptFlag,         \* a block takes longer than the call after a send
    MaxIndexerCrashes,  \* bound
    MaxProverCrashes    \* bound

ASSUME EnvironmentAssumption ==
    /\ Serialized \in BOOLEAN
    /\ PromptFlag \in BOOLEAN
    /\ MaxIndexerCrashes \in Nat
    /\ MaxProverCrashes \in Nat

VARIABLE crashes   \* how often the indexer and the prover have crashed

vars == <<chainVars, dbVars, clientVars, indexerVars, proverVars, crashes>>

TypeOK ==
    /\ ChainTypeOK
    /\ DbTypeOK
    /\ ClientTypeOK
    /\ IndexerTypeOK
    /\ ProverTypeOK
    /\ processed <= recorded
    /\ recorded <= Len(archive)
    /\ crashes \in [indexer : 0 .. MaxIndexerCrashes,
                    prover : 0 .. MaxProverCrashes]

Init ==
    /\ ChainInit
    /\ DbInit
    /\ ClientInit
    /\ IndexerInit
    /\ ProverInit
    /\ crashes = [indexer |-> 0, prover |-> 0]

\* Storage has replayed everything the zkApp emitted.
CaughtUp == processed = Len(archive) /\ ixPc \in {"fetch", "process"}

\* No commit transaction is being made or under way.
ProverQuiet == pvPc = "query" /\ CommitTxns = {}

\* The environment's part in an inclusion and in the prover's query.
MayInclude(t) ==
    IF t.origin = "user" THEN Serialized => ProverQuiet
                         ELSE PromptFlag => pvPc # "setTransforming"
MayQuery == Serialized => CaughtUp

Users ==
    /\ \E u \in Clients : ClientStep(u)
    /\ UNCHANGED <<dbVars, indexerVars, proverVars, crashes>>

IncludeTxn(t) ==
    /\ MayInclude(t)
    /\ Include(t)
    /\ UNCHANGED <<dbVars, clientVars, indexerVars, proverVars, crashes>>

IncludeCommit == \E t \in CommitTxns : IncludeTxn(t)

Network ==
    \/ \E t \in mempool : IncludeTxn(t)
    \/ /\ \E t \in mempool : Reject(t) \/ Drop(t)
       /\ UNCHANGED <<dbVars, clientVars, indexerVars, proverVars, crashes>>

Indexing ==
    /\ IndexerStep
    /\ UNCHANGED <<chainVars, clientVars, proverVars, crashes>>

Proving ==
    /\ ProverStep
    /\ pvPc = "query" => MayQuery
    /\ UNCHANGED <<clientVars, indexerVars, crashes>>

Crash ==
    /\ \/ /\ crashes.indexer < MaxIndexerCrashes
          /\ IndexerCrash
          /\ crashes' = [crashes EXCEPT !.indexer = @ + 1]
          /\ UNCHANGED proverVars
       \/ /\ crashes.prover < MaxProverCrashes
          /\ ProverCrash
          /\ crashes' = [crashes EXCEPT !.prover = @ + 1]
          /\ UNCHANGED <<dbVars, indexerVars>>
    /\ UNCHANGED <<chainVars, clientVars>>

Next == Users \/ Network \/ Indexing \/ Proving \/ Crash

Spec == Init /\ [][Next]_vars

(***************************************************************************)
(* Fairness: the indexer and the prover are loops that are restarted when  *)
(* they end, the network includes a commit whose precondition holds and    *)
(* that it does not drop, and of the cycles that find new events in the    *)
(* archive infinitely many record one.  Users owe nothing.                 *)
(***************************************************************************)
Fairness ==
    /\ WF_vars(Indexing)
    /\ SF_vars(Indexing /\ recorded' > recorded)
    /\ WF_vars(Proving)
    /\ WF_vars(IncludeCommit)

FairSpec == Spec /\ Fairness

-----------------------------------------------------------------------------
(***************************************************************************)
(* The zkApp's log.                                                        *)
(***************************************************************************)

\* The commitment once an event has been emitted.
After(e) == CASE e.type = "storage:create"  -> e.value
              [] e.type = "storage:pending" -> e.commitmentPending
              [] e.type = "storage:commit"  -> e.commitmentSettled

\* Every event was proved on the commitment the one before it leads to.
Linked(es) ==
    \A n \in 1 .. Len(es) - 1 : es[n + 1].commitmentPending = After(es[n])

\* The archive is a chain: every event was proved on the commitment the events
\* before it lead to, and the last one leads to the zkApp's commitment.  This
\* is what lets storage settle rows by their commitmentPending alone
\* (getAndAssertEquals in the methods of IdentityManager).
LogLinked ==
    /\ Linked(archive)
    /\ commitment = After(archive[Len(archive)])

\* The commitment a request was proved on allows it.
Justified(e) ==
    e.type = "storage:pending" =>
        IF e.id = MANAGER
        THEN e.commitmentPending[e.key] = EMPTY
        ELSE LET ring == e.commitmentPending[e.id]
             IN \/ e.key = OpKey[e.id] /\ ring = EMPTY
                \/ /\ ring # EMPTY
                   /\ ring[OpKey[e.id]] = PRESENT
                   /\ e.value = PRESENT => ring[e.key] = EMPTY
                   /\ e.value = EMPTY => ring[e.key] # EMPTY

\* Of the requests the web app sends, none is for an identity that the
\* commitment it was proved on already has, and none adds or deletes a factor
\* but by the owner of the operator key in the committed keyring, where the
\* factor is absent or present respectively: however stale the maps the app
\* restored, the roots asserted by addStore, setStoreData and the operator key
\* check see to it.  It is a property of the app and the contract together: the
\* methods do not compare the keys of the witnesses, so it is not one of every
\* caller of the contract.
RequestsJustified == \A n \in 1 .. Len(archive) : Justified(archive[n])

-----------------------------------------------------------------------------
(***************************************************************************)
(* What users requested, and what became of it.                            *)
(***************************************************************************)
\* The pending events since the last commit event.
OpenRequests ==
    LET closed == {n \in 1 .. Len(archive) :
                      archive[n].type # "storage:pending"}
        last   == CHOOSE n \in closed : \A m \in closed : m <= n
    IN SubSeq(archive, last + 1, Len(archive))

Settling == INSTANCE Settlement WITH requests <- OpenRequests

\* With the environment serialized, the system implements the abstract
\* settlement: a commit applies every request since the previous one, all of
\* them and nothing else.
ImplementsSettlement == Settling!SettlementSpec

\* What the last request in the log for factor f of identity i asks for.
LastRequested(i, f) ==
    LET asking == {n \in 1 .. Len(archive) :
                      /\ archive[n].type = "storage:pending"
                      /\ Settling!Asks(archive[n], i, f)}
        last   == CHOOSE n \in asking : \A m \in asking : m <= n
    IN IF asking = {} THEN EMPTY ELSE Settling!Asked(archive[last], f)

\* A commit changes a leaf only to what its owner last asked for: whatever the
\* prover read, and when, nobody's factor is dropped or invented.
OnlyRequestedChanges ==
    [][\A i \in Ids, f \in Factors :
          Settling!Leaf(commitment', i, f) # Settling!Leaf(commitment, i, f)
            => Settling!Leaf(commitment', i, f) = LastRequested(i, f)]_commitment

-----------------------------------------------------------------------------
(***************************************************************************)
(* Storage and the zkApp.                                                  *)
(***************************************************************************)

\* All pending rows were proved on the same commitment: the prover takes the
\* commitmentPending of any of them (apps/prover/src/main.ts:148-152).
PendingShareCommitment ==
    \A k, l \in Pending(storage) :
        storage[k].commitmentPending = storage[l].commitmentPending

\* The table "storage" after the first n events, each replayed at one go.
Replay(st, e) ==
    CASE e.type = "storage:create"  -> CreateRow(st, e.key, e.value)
      [] e.type = "storage:pending" ->
            LET set == Set(st, e.key, e.value, e.commitmentPending, e.id)
            IN IF e.meta[1] = e.value
               THEN Set(set, e.meta[2], e.meta[3], e.commitmentPending, e.key)
               ELSE set
      [] e.type = "storage:commit"  ->
            LET done   == Commit(st, e.commitmentPending, e.commitmentSettled)
                stores == {s \in Level2 : \E k \in Keys :
                              /\ Exists(done, k)
                              /\ done[k].storageKey = s
                              /\ done[k].commitmentPending = e.commitmentPending
                              /\ done[k].commitmentSettled = e.commitmentSettled}
                kept   == [k \in Keys |->
                              IF k \in stores
                              THEN [done[k] EXCEPT
                                       !.value = StoredKeyring(done, k)]
                              ELSE done[k]]
            IN Update(kept, MANAGER, StoredManager(kept))

Replayed ==
    LET st[n \in 0 .. Len(archive)] ==
            IF n = 0 THEN [k \in Keys |-> NULL]
                     ELSE Replay(st[n - 1], archive[n])
    IN st

\* However often the indexer stops and starts again in the middle of an event,
\* an event marked as processed has had the effect of one uninterrupted
\* replay: storage is a function of the log.
ReplayedExactly ==
    ixPc = "markProcessed" => storage = Replayed[processed + 1]

\* Storage that has caught up holds the committed maps: the app restores from
\* it the witnesses the zkApp accepts.
StorageInSync ==
    CaughtUp /\ Exists(storage, MANAGER) =>
        /\ StoredManager(storage) = commitment
        /\ storage[MANAGER].value = commitment
        /\ \A i \in Ids : Settled(storage, i) =>
                              StoredKeyring(storage, i) = commitment[i]

\* A settled row is in the commitment it is said to have settled within.
SettledWithin ==
    \A k \in Keys :
        Settled(storage, k) /\ storage[k].commitmentSettled # NULL =>
            LET cs == storage[k].commitmentSettled
            IN /\ k \in Ids => cs[k] # EMPTY
               /\ k \in Factors =>
                     Settling!Leaf(cs, storage[k].storageKey, k)
                       = storage[k].value

\* Once storage has processed a request, what was requested has a row within
\* its own store: an identity with the manager, a factor and an operator key
\* with the identity.  (Rows are found by key alone: it holds because every
\* owner enrols secrets of their own.)
RowPerStore ==
    \A n \in 1 .. processed :
        LET e == archive[n]
        IN e.type = "storage:pending" =>
              /\ storage[e.key].storageKey = e.id
              /\ HasData(e) => storage[e.meta[2]].storageKey = e.key

\* The row a storage:create event creates is not in the table.
CreateUnknownKey ==
    ixPc = "process" /\ processed < recorded
      /\ Current.type = "storage:create" => ~Exists(storage, Current.key)

-----------------------------------------------------------------------------
(***************************************************************************)
(* Transactions that commit.                                               *)
(***************************************************************************)

\* The prover never has two transactions under way that could both be included.
NoDuplicateCommit ==
    \A s, t \in CommitTxns : s.pre = t.pre => s = t

\* A transformation in progress ends, for the prover to start the next one.
TransformingEnds == isTransforming ~> ~isTransforming

\* What users request while storage works is settled.
RequestsSettle ==
    (processed >= 1 /\ OpenRequests # <<>>) ~> (OpenRequests = <<>>)

=============================================================================
