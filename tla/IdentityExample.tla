--------------------------- MODULE IdentityExample ---------------------------
(***************************************************************************)
(* The example of libs/contracts (examples/identity.ts): the contract, a   *)
(* consumer contract and a simulated storage on a local blockchain.  One   *)
(* script plays users, indexer and prover.  It keeps two sets of maps,     *)
(* storage for what is committed and storageRunner for what is about to    *)
(* be, and processes the events after every transaction.  The script calls *)
(* its helpers in one fixed order; here they may be called in any.         *)
(*                                                                         *)
(* A call whose assertions fail throws, which ends the script or is        *)
(* caught: it is a step that cannot be taken.                              *)
(***************************************************************************)
EXTENDS Rollup

CONSTANTS
    BioAuths,    \* factors whose protocol is that of a proof of person
    MaxEvents    \* bound: events emitted

ASSUME ExampleAssumption ==
    /\ BioAuths \subseteq Factors
    /\ MaxEvents \in Nat
    /\ NULL \notin Keyrings

VARIABLES
    commitment,   \* state of the IdentityManager contract
    archive,      \* the events it emitted
    numEvents,    \* how many of them processEvents has processed
    runner,       \* storageRunner.maps: the manager's map and those of stores
    storage,      \* storage.maps
    pending,      \* storage.pending
    todo,         \* what processPending has left to process
    assertion,    \* idAssertionBob
    authorized,   \* last event of the ExampleIdentityConsumer contract, with
                  \* the commitment its assertion claimed
    pc            \* where the script is

vars == <<commitment, archive, numEvents, runner, storage, pending, todo,
          assertion, authorized, pc>>

NoMaps == [s \in Level2 |-> NULL]

MapsOf(mgrs) == [mgr : mgrs, stores : [Level2 -> Keyrings \cup {NULL}]]

Assertions == [id : Ids, ring : Keyrings, mgr : Commitments]

Authorizations == [type : {"authorizedID", "bioauthorizedID"}, id : Ids,
                   claimed : Keyrings]

TypeOK ==
    /\ commitment \in Commitments
    /\ archive \in Seq(Events) /\ numEvents \in 0 .. Len(archive)
    /\ runner \in MapsOf(Commitments)
    /\ storage \in MapsOf(Commitments \cup {NULL})
    /\ pending \in Seq(IdentityEvents \cup FactorEvents)
    /\ todo \in Seq(IdentityEvents \cup FactorEvents)
    /\ assertion \in Assertions \cup {NULL}
    /\ authorized \in Authorizations \cup {NULL}
    /\ pc \in {"ready", "events", "runner", "storage"}

\* Both contracts are deployed and the manager's storage:create is emitted.
Init ==
    /\ commitment = NoIdentities
    /\ archive = <<EventStorageCreate(MANAGER, NoIdentities)>>
    /\ numEvents = 0
    /\ runner = [mgr |-> NoIdentities, stores |-> NoMaps]
    /\ storage = [mgr |-> NULL, stores |-> NoMaps]
    /\ pending = <<>> /\ todo = <<>>
    /\ assertion = NULL
    /\ authorized = NULL
    /\ pc = "events"

\* A transaction on the local blockchain is applied at once.
Emit(es) ==
    /\ Len(archive) + Len(es) <= MaxEvents
    /\ archive' = archive \o es
    /\ pc' = "events"

-----------------------------------------------------------------------------
(***************************************************************************)
(* The simulated storage.                                                  *)
(***************************************************************************)

MapFor(stores, s) == IF stores[s] = NULL THEN EmptyMap ELSE stores[s]

\* Mutant: the manager's map is not told of a store that has changed.
MutantProcessed(maps, e) ==
    LET ring == [MapFor(maps.stores, e.id) EXCEPT ![e.key] = e.value]
        new  == [maps.stores EXCEPT ![e.key] = MapFor(maps.stores, e.key)]
    IN IF e.id = MANAGER
       THEN [mgr |-> [maps.mgr EXCEPT ![e.key] = e.value], stores |-> new]
       ELSE [mgr |-> maps.mgr, stores |-> [new EXCEPT ![e.id] = ring]]

\* The maps once a pending event is processed: a key is set in its map, the
\* manager's map is told of the store's new root, and the key gets a map.
Processed(maps, e) ==
    IF e.id = MANAGER
    THEN [mgr    |-> [maps.mgr EXCEPT ![e.key] = e.value],
          stores |-> [maps.stores EXCEPT ![e.key] = MapFor(maps.stores, e.key)]]
    ELSE LET ring == [MapFor(maps.stores, e.id) EXCEPT ![e.key] = e.value]
         IN [mgr    |-> [maps.mgr EXCEPT ![e.id] = ring],
             stores |-> [maps.stores EXCEPT
                            ![e.id]  = ring,
                            ![e.key] = MapFor(maps.stores, e.key)]]

\* processPending, one event a step: of the runner before a commit, and of
\* storage after it.
ProcessPending ==
    /\ todo # <<>>
    /\ todo' = Tail(todo)
    /\ \/ pc = "runner" /\ runner' = Processed(runner, Head(todo))
                        /\ UNCHANGED storage
       \/ pc = "storage" /\ storage' = Processed(storage, Head(todo))
                         /\ UNCHANGED runner
    /\ UNCHANGED <<commitment, archive, numEvents, pending, assertion,
                   authorized, pc>>

NewEvents == SubSeq(archive, numEvents + 1, Len(archive))

\* Mutant: the pending events are kept in the order they are fetched in, that
\* is in reverse.
MutantUnshifted(es, seq) == [n \in 1 .. Len(es) |-> es[Len(es) + 1 - n]] \o seq

\* A transaction's events are fetched in reverse and each goes in front.
Unshifted(es, seq) == es \o seq

\* Mutant: the events of this call are added to a count that holds them.
MutantProcessedSoFar == numEvents + Len(archive)

\* The counter that processEvents returns, the next call's offset.
ProcessedSoFar == Len(archive)

\* processEvents, called after each transaction: its events are of one type.
ProcessEvents ==
    /\ pc = "events"
    /\ numEvents' = ProcessedSoFar
    /\ LET type == archive[Len(archive)].type
       IN \/ /\ type = "storage:create"
             /\ storage' = [storage EXCEPT !.mgr = NoIdentities]
             /\ pc' = "ready"
             /\ UNCHANGED <<pending, todo>>
          \/ /\ type = "storage:pending"
             /\ pending' = Unshifted(NewEvents, pending)
             /\ pc' = "ready"
             /\ UNCHANGED <<storage, todo>>
          \/ /\ type = "storage:commit"
             /\ todo' = pending
             /\ pc' = "storage"
             /\ UNCHANGED <<storage, pending>>
    /\ UNCHANGED <<commitment, archive, runner, assertion, authorized>>

\* The end of processing a storage:commit event.
CommitProcessed ==
    /\ pc = "storage" /\ todo = <<>>
    /\ pending' = <<>>
    /\ pc' = "ready"
    /\ UNCHANGED <<commitment, archive, numEvents, runner, storage, todo,
                   assertion, authorized>>

-----------------------------------------------------------------------------
(***************************************************************************)
(* Transactions on the IdentityManager.                                    *)
(***************************************************************************)

\* An identity is added with an empty keyring, and its operator key with it.
ExampleIdentityEvents(i, c) ==
    <<EventStoragePending(c, MANAGER, i, EmptyMap, NoMeta),
      EventStoragePending(c, i, OpKey[i], PRESENT,
                          <<PRESENT, PROTOCOL, EMPTY>>)>>

\* addIdentity: the witness is of the runner's map.
AddIdentity(i) ==
    /\ pc = "ready"
    /\ AddStoreAsserts(runner.mgr, i, commitment)
    /\ Emit(ExampleIdentityEvents(i, commitment))
    /\ UNCHANGED <<commitment, numEvents, runner, storage, pending, todo,
                   assertion, authorized>>

\* The proof of ownership is made once, for the transactions that follow.
AssertIdentity(i) ==
    /\ pc = "ready"
    /\ storage.stores[i] # NULL
    /\ assertion' = [id |-> i, ring |-> storage.stores[i], mgr |-> storage.mgr]
    /\ UNCHANGED <<commitment, archive, numEvents, runner, storage, pending,
                   todo, authorized, pc>>

\* addAuthNFactor accepts the assertion: the new factor's witness is of the
\* identity's map as it is by now.
Accepted(f) ==
    /\ assertion # NULL
    /\ OperatorKeyAsserts(assertion.ring, OpKey[assertion.id], assertion.ring)
    /\ SetStoreDataAsserts(assertion.mgr, storage.stores[assertion.id],
                           assertion.id, f, EMPTY, commitment)

AddAuthNFactor(f) ==
    /\ pc = "ready"
    /\ Accepted(f)
    /\ f \in Enrols[assertion.id]
    /\ Emit(AddAuthNFactorEvents(assertion.id, f, commitment))
    /\ UNCHANGED <<commitment, numEvents, runner, storage, pending, todo,
                   assertion, authorized>>

\* commitPendingTransformations: nothing to do without pending events, else
\* the runner processes them to get the next commitment ...
PrepareCommit ==
    /\ pc = "ready"
    /\ pending # <<>>
    /\ todo' = pending
    /\ pc' = "runner"
    /\ UNCHANGED <<commitment, archive, numEvents, runner, storage, pending,
                   assertion, authorized>>

\* ... and the transaction commits it with the auth token.
Commit ==
    /\ pc = "runner" /\ todo = <<>>
    /\ commitment' = runner.mgr
    /\ Emit(<<EventStorageCommit(commitment, runner.mgr)>>)
    /\ UNCHANGED <<numEvents, runner, storage, pending, todo, assertion,
                   authorized>>

-----------------------------------------------------------------------------
(***************************************************************************)
(* The ExampleIdentityConsumer.                                            *)
(***************************************************************************)

\* Mutant: the manager's commitment is matched, the identity's is not.
MutantAuth(claimed, ring, mgr, w, k) ==
    [mgr EXCEPT ![w] = [ring EXCEPT ![k] = PRESENT]] = commitment

\* IdentityAssertion.auth in isIdentityOwner: ring and mgr are the maps the
\* witnesses, of keys k and w, are from, claimed is the identity's commitment.
\* The factor's value is the same for all, and the keys that computeRootAndKey
\* returns are dropped: neither the identity's identifier nor the factor's key
\* is compared with anything.
Auth(claimed, ring, mgr, w, k) ==
    LET root0 == [ring EXCEPT ![k] = PRESENT]
        root1 == [mgr EXCEPT ![w] = root0]
    IN root0 = claimed /\ root1 = commitment

\* Identities that have a map in the simulated storage.
Stored == {s \in Ids : storage.stores[s] # NULL}

\* What an identity may claim as its commitment: that of a new one, or the root
\* of any stored map (setCommitment).
Claims == {EmptyMap} \cup {storage.stores[s] : s \in Stored}

\* Some witnesses, of any key of any stored map and of any key of the
\* manager's, prove the claim.
Asserted(claimed) ==
    \E s, w \in Stored, k \in Factors :
        Auth(claimed, storage.stores[s], storage.mgr, w, k)

\* requireAuth, and requireBioAuth that also asserts the factor's protocol:
\* identifier i is emitted for whatever commitment was claimed along with it.
RequireAuth(i, f) ==
    /\ pc = "ready"
    /\ \E claimed \in Claims :
        /\ Asserted(claimed)
        /\ \E type \in {"authorizedID"} \cup
                       (IF f \in BioAuths THEN {"bioauthorizedID"} ELSE {}) :
              authorized' = [type |-> type, id |-> i, claimed |-> claimed]
    /\ UNCHANGED <<commitment, archive, numEvents, runner, storage, pending,
                   todo, assertion, pc>>

Next ==
    \/ ProcessEvents \/ ProcessPending \/ CommitProcessed
    \/ \E i \in Ids : AddIdentity(i) \/ AssertIdentity(i)
    \/ \E f \in Factors : AddAuthNFactor(f)
    \/ PrepareCommit \/ Commit
    \/ \E i \in Ids, f \in Factors : RequireAuth(i, f)

Spec == Init /\ [][Next]_vars

-----------------------------------------------------------------------------
(***************************************************************************)
(* The commit with a recursive proof, commitPendingTransformationsWithProof*)
(* (in the source, but disabled): the steps that prove what the runner     *)
(* does, from the maps as they are before it.                              *)
(***************************************************************************)

\* The maps and the step for one pending event.
StepOf(maps, e) ==
    LET key    == IF e.id = MANAGER THEN e.key ELSE e.id
        store  == MapFor(maps.stores, key)
        value0 == IF e.id = MANAGER THEN EMPTY ELSE store
        value1 == IF e.id = MANAGER THEN store
                                    ELSE [store EXCEPT ![e.key] = e.value]
        mgr    == [maps.mgr EXCEPT ![key] = value1]
    IN [maps |-> [mgr |-> mgr, stores |-> [maps.stores EXCEPT ![key] = value1]],
        step |-> RollupStep(maps.mgr, mgr, key, value0, value1, maps.mgr)]

\* The steps of all pending events and the merged proof, if every assertion
\* on the way holds.
RollupOf(maps, es) ==
    LET at[n \in 1 .. Len(es)] ==
            StepOf(IF n = 1 THEN maps ELSE at[n - 1].maps, es[n])
        proofs == [n \in 1 .. Len(es) |->
                      RollupState(at[n].step.root0, at[n].step.root1)]
        merged[n \in 1 .. Len(es)] ==
            IF n = 1 THEN proofs[1] ELSE CreateMerged(merged[n - 1], proofs[n])
    IN [proof    |-> merged[Len(es)],
        verifies |-> /\ \A n \in 1 .. Len(es) : OneStepAsserts(at[n].step)
                     /\ \A n \in 2 .. Len(es) :
                           MergeAsserts(merged[n], merged[n - 1], proofs[n])]

-----------------------------------------------------------------------------
(***************************************************************************)
(* Properties.                                                             *)
(***************************************************************************)

\* After each transaction's events are processed, the runner's maps, the maps
\* of storage and the contract's commitment agree: what the script asserts at
\* its end ("confirm sync of MMs", "confirm sync of commitments").
InSync ==
    pc = "ready" =>
        /\ runner = storage
        /\ storage.mgr = commitment
        /\ \A i \in Ids :
              IF commitment[i] = EMPTY THEN storage.stores[i] = NULL
                                       ELSE storage.stores[i] = commitment[i]

\* The consumer authorizes nobody but on a keyring of the committed manager
\* that holds a factor, and the keyring stays: however many commits later, some
\* identity's holds every factor that the claimed one held (isIdentityOwner,
\* and the transformations that are committed).  Whose keyring it is, and which
\* of its factors was shown, the contract does not tell.
AuthorizedByMember ==
    authorized # NULL =>
        LET held == {f \in Factors : authorized.claimed[f] = PRESENT}
        IN /\ held # {}
           /\ \E j \in Ids :
                 /\ commitment[j] # EMPTY
                 /\ \A f \in held : commitment[j][f] = PRESENT

\* The requests at the end of the log es.
RequestsAtEnd(es) ==
    LET closed == {n \in 1 .. Len(es) : es[n].type # "storage:pending"}
        last   == CHOOSE n \in closed : \A m \in closed : m <= n
    IN SubSeq(es, last + 1, Len(es))

\* The contract's requests since its last event that is none.
OpenRequests == RequestsAtEnd(archive)

Settling == INSTANCE Settlement WITH requests <- OpenRequests

\* Though pending events are kept newest transaction first, a commit settles
\* the requests in the order they were made, all of them and nothing else.
ImplementsSettlement == Settling!SettlementSpec

\* "valid for both addAuthNFactor operations here because txn concurrency": an
\* assertion made on the current commitment is accepted for every factor the
\* identity does not have, whatever is pending.
AssertionLasts ==
    pc = "ready" /\ assertion # NULL =>
        \A f \in Enrols[assertion.id] :
            assertion.mgr = commitment /\ commitment[assertion.id][f] = EMPTY
                => Accepted(f)

\* An identity is requested twice in the pending events.
RequestedTwice ==
    \E m, n \in 1 .. Len(pending) :
        m # n /\ pending[m].id = MANAGER /\ pending[n] = pending[m]

\* A commit with the auth token is the transformation that the rollup of the
\* pending events would prove.  There is one exception: the contract lets an
\* identity be requested again while it is pending, and the second request has
\* no step.
CommitProvable ==
    pc = "events" /\ archive[Len(archive)].type = "storage:commit" =>
        LET rollup == RollupOf(storage, pending)
        IN IF RequestedTwice
           THEN ~rollup.verifies
           ELSE /\ rollup.verifies
                /\ rollup.proof.root0 = archive[Len(archive)].commitmentPending
                /\ rollup.proof.root1 = commitment

=============================================================================
