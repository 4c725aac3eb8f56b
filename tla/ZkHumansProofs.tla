--------------------------- MODULE ZkHumansProofs ---------------------------
(***************************************************************************)
(* Theorems about the system ZkHumans, for any number of identities,       *)
(* factors, users, transactions and crashes, and any environment.          *)
(*                                                                         *)
(* TypeOK is not inductive: which row the indexer sets and updates follows *)
(* from where it is in its loop and from the event it is processing.       *)
(* TypeInv says so, part by part, and is inductive.  The properties of the *)
(* log follow from the same facts about transactions that are not in a     *)
(* block yet (LogInv).  Then come theorems about what the table "storage"  *)
(* says of the log while the indexer replays it, and about the commits the *)
(* prover makes of it.                                                     *)
(*                                                                         *)
(* The last part is about what the zkApp's commitment may become.          *)
(* Whichever rows the prover has read, and when, what it settles is what   *)
(* their owners requested.  Where commits and users' transactions take     *)
(* turns, the log is what the abstract settlement allows, and the table    *)
(* "storage" that has replayed it holds the committed maps.  There, owners *)
(* use secrets of their own and call the methods of the web app.           *)
(***************************************************************************)
EXTENDS ZkHumans, SequenceLemmas

-----------------------------------------------------------------------------
(***************************************************************************)
(* The inductive invariants.                                               *)
(***************************************************************************)

\* The log starts with the one event that creates the manager's row.
CreatedFirst ==
    /\ archive # <<>>
    /\ archive[1].type = "storage:create"
    /\ \A n \in 2 .. Len(archive) : archive[n].type # "storage:create"
    /\ \A t \in mempool : \A n \in 1 .. Len(t.events) :
          t.events[n].type # "storage:create"

\* Every row within a store has the store's row.
StoresExist ==
    \A k \in Keys : Exists(storage, k) /\ storage[k].storageKey \in Level2
                        => Exists(storage, storage[k].storageKey)

\* A user who proves a factor proves one of those they may enrol.
ClientReady ==
    \A u \in Clients :
        /\ client[u].pc # "idle"
        /\ client[u].method \in {"addAuthNFactor", "delAuthNFactor"}
        => client[u].factor \in Enrols[client[u].id]

\* In the middle of an event the indexer has what its next steps work on.
IndexerReady ==
    /\ processed <= recorded
    /\ recorded <= Len(archive)
    /\ ixPc \notin {"fetch", "process"} => processed < recorded
    /\ ixPc = "setData" => /\ Current.type = "storage:pending"
                           /\ HasData(Current)
                           /\ Exists(storage, Current.key)
    /\ ixPc \in {"updateStores", "clearTransforming"} =>
          Current.type = "storage:commit"
    /\ \A s \in ixStores : Exists(storage, s)
    /\ processed >= 1 \/ ixPc = "markProcessed" => Exists(storage, MANAGER)

CrashesOK == crashes \in [indexer : 0 .. MaxIndexerCrashes,
                          prover : 0 .. MaxProverCrashes]

\* The invariant by parts, one for each group of variables.
ChainInv   == ChainTypeOK /\ CreatedFirst
DbInv      == DbTypeOK /\ StoresExist
ClientInv  == ClientTypeOK /\ ClientReady
IndexerInv == IndexerTypeOK /\ IndexerReady

TypeInv ==
    ChainInv /\ DbInv /\ ClientInv /\ IndexerInv /\ ProverTypeOK /\ CrashesOK

\* A transaction's events lead from the commitment it was proved on to the one
\* it leaves, and its requests are allowed.
TxnInv ==
    \A t \in mempool :
        /\ t.events # <<>>
        /\ t.events[1].commitmentPending = t.pre
        /\ Linked(t.events)
        /\ After(t.events[Len(t.events)]) = t.post
        /\ \A n \in 1 .. Len(t.events) : Justified(t.events[n])

LogInv == TxnInv /\ LogLinked /\ RequestsJustified

-----------------------------------------------------------------------------
(***************************************************************************)
(* Maps and events.                                                        *)
(***************************************************************************)

\* The maps of an empty keyring and of a new identity are keyrings.
LEMMA KeyringFacts ==
    /\ EmptyMap \in Keyrings
    /\ \A i \in Ids : FirstKeyring(i) \in Keyrings
    /\ NoIdentities \in Commitments
<1>1. EmptyMap \in Keyrings
  BY DEF EmptyMap, Keyrings, Leaves
<1>2. ASSUME NEW i \in Ids
      PROVE  FirstKeyring(i) \in Keyrings
  BY <1>1, KeysAssumption DEF FirstKeyring, Keyrings, Leaves
<1>3. NoIdentities \in Commitments
  BY DEF NoIdentities, Commitments
<1> QED
  BY <1>1, <1>2, <1>3

\* Whatever rows there are, the maps restored from them are a keyring and a
\* manager's map; a store that is no identity has no factors.
LEMMA RestoredMaps ==
    ASSUME DbTypeOK
    PROVE  /\ \A s \in Level2 : StoredKeyring(storage, s) \in Keyrings
           /\ \A s \in Factors : StoredKeyring(storage, s) = EmptyMap
           /\ StoredManager(storage) \in Commitments
<1>1. ASSUME NEW f \in Factors, Settled(storage, f)
      PROVE  storage[f].value \in Leaves /\ storage[f].storageKey \in Ids
  BY <1>1, KeysAssumption
  DEF DbTypeOK, Settled, Exists, RowsOf, ValuesOf, StoresOf, Keys, Level2
<1>2. ASSUME NEW s \in Level2
      PROVE  StoredKeyring(storage, s) \in Keyrings
  BY <1>1 DEF StoredKeyring, Keyrings, Leaves
<1>3. ASSUME NEW s \in Factors
      PROVE  StoredKeyring(storage, s) = EmptyMap
  BY <1>1, KeysAssumption DEF StoredKeyring, EmptyMap
<1>4. ASSUME NEW s \in Level2, Settled(storage, s),
             storage[s].storageKey = MANAGER
      PROVE  storage[s].value \in Keyrings
  BY <1>4, <1>1, KeysAssumption
  DEF DbTypeOK, Settled, Exists, RowsOf, ValuesOf, Keys, Level2
<1>5. StoredManager(storage) \in Commitments
  BY <1>4 DEF StoredManager, Commitments
<1> QED
  BY <1>2, <1>3, <1>5

\* What the methods emit: at least one request, each proved on the current
\* commitment and allowed by it.
Requests(es, c) ==
    /\ es # <<>>
    /\ \A n \in 1 .. Len(es) :
          /\ es[n].type = "storage:pending"
          /\ es[n].commitmentPending = c
          /\ Justified(es[n])

\* A new identity is a request, where the commitment has none of its id.
LEMMA AddIdentityRequests ==
    ASSUME NEW i \in Ids, NEW c \in Commitments, c[i] = EMPTY
    PROVE  /\ AddIdentityEvents(i, c) \in Seq(Events)
           /\ Requests(AddIdentityEvents(i, c), c)
<1> DEFINE e == EventStoragePending(c, MANAGER, i, FirstKeyring(i),
                                    <<FirstKeyring(i), OpKey[i], PRESENT>>)
<1>1. e \in IdentityEvents
  BY KeyringFacts, KeysAssumption DEF EventStoragePending, IdentityEvents
<1>2. /\ e.type = "storage:pending"
      /\ e.commitmentPending = c
      /\ Justified(e)
  BY DEF EventStoragePending, Justified
<1>3. AddIdentityEvents(i, c) = <<e>>
  BY DEF AddIdentityEvents
<1> HIDE DEF e
<1> QED
  BY <1>1, <1>2, <1>3 DEF Events, Requests

\* So are a new identity and its operator key.
LEMMA NewAddIdentityRequests ==
    ASSUME NEW i \in Ids, NEW c \in Commitments, c[i] = EMPTY
    PROVE  /\ NewAddIdentityEvents(i, c) \in Seq(Events)
           /\ Requests(NewAddIdentityEvents(i, c), c)
<1> DEFINE e1 == EventStoragePending(c, MANAGER, i, FirstKeyring(i), NoMeta)
           e2 == EventStoragePending(c, i, OpKey[i], PRESENT,
                                     <<PRESENT, PROTOCOL, EMPTY>>)
<1>1. e1 \in IdentityEvents
  BY KeyringFacts DEF EventStoragePending, IdentityEvents, NoMeta
<1>2. e2 \in FactorEvents
  BY KeysAssumption DEF EventStoragePending, FactorEvents
<1>3. /\ e1.type = "storage:pending"
      /\ e1.commitmentPending = c
      /\ Justified(e1)
  BY DEF EventStoragePending, Justified
<1>4. /\ e2.type = "storage:pending"
      /\ e2.commitmentPending = c
      /\ Justified(e2)
  BY KeysAssumption DEF EventStoragePending, Justified
<1>5. NewAddIdentityEvents(i, c) = <<e1, e2>>
  BY DEF NewAddIdentityEvents
<1> HIDE DEF e1, e2
<1> QED
  BY <1>1, <1>2, <1>3, <1>4, <1>5 DEF Events, Requests

\* The committed keyring is the asserted one, but for the factor's own leaf.
LEMMA AssertedKeyring ==
    ASSUME NEW i \in Ids, NEW f \in Enrols[i], NEW data0 \in {EMPTY, PRESENT},
           NEW mgr \in Commitments, NEW ring \in Keyrings,
           NEW c \in Commitments,
           OperatorKeyAsserts(ring, OpKey[i], ring),
           SetStoreDataAsserts(mgr, ring, i, f, data0, c)
    PROVE  c[i] # EMPTY /\ c[i][f] = data0 /\ c[i][OpKey[i]] = PRESENT
<1>1. f \in Factors /\ OpKey[i] \in Factors /\ f # OpKey[i] /\ i \in Level2
  BY KeysAssumption DEF Level2
<1>2. c[i] = [ring EXCEPT ![f] = data0]
  BY <1>1 DEF SetStoreDataAsserts, Commitments
<1>3. ring[OpKey[i]] = PRESENT
  BY <1>1 DEF OperatorKeyAsserts, Keyrings
<1>4. [ring EXCEPT ![f] = data0] \in Keyrings
  BY <1>1 DEF Keyrings, Leaves
<1> QED
  BY <1>1, <1>2, <1>3, <1>4, FieldAssumption DEF Keyrings

\* So is a factor that the committed keyring lacks.
LEMMA AddAuthNFactorRequests ==
    ASSUME NEW i \in Ids, NEW f \in Enrols[i], NEW c \in Commitments,
           c[i] # EMPTY, c[i][f] = EMPTY, c[i][OpKey[i]] = PRESENT
    PROVE  /\ AddAuthNFactorEvents(i, f, c) \in Seq(Events)
           /\ Requests(AddAuthNFactorEvents(i, f, c), c)
<1> DEFINE e == EventStoragePending(c, i, f, PRESENT,
                                    <<PROTOCOL, PROTOCOL, EMPTY>>)
<1>1. e \in FactorEvents
  BY KeysAssumption DEF EventStoragePending, FactorEvents
<1>2. /\ e.type = "storage:pending"
      /\ e.commitmentPending = c
      /\ Justified(e)
  BY KeysAssumption, FieldAssumption DEF EventStoragePending, Justified
<1>3. AddAuthNFactorEvents(i, f, c) = <<e>>
  BY DEF AddAuthNFactorEvents
<1> HIDE DEF e
<1> QED
  BY <1>1, <1>2, <1>3 DEF Events, Requests

\* So is the deletion of a factor that the committed keyring has.
LEMMA DelAuthNFactorRequests ==
    ASSUME NEW i \in Ids, NEW f \in Enrols[i], NEW c \in Commitments,
           c[i] # EMPTY, c[i][f] = PRESENT, c[i][OpKey[i]] = PRESENT
    PROVE  /\ DelAuthNFactorEvents(i, f, c) \in Seq(Events)
           /\ Requests(DelAuthNFactorEvents(i, f, c), c)
<1> DEFINE e == EventStoragePending(c, i, f, EMPTY, NoMeta)
<1>1. e \in FactorEvents
  BY KeysAssumption DEF EventStoragePending, FactorEvents, NoMeta
<1>2. /\ e.type = "storage:pending"
      /\ e.commitmentPending = c
      /\ Justified(e)
  BY KeysAssumption, FieldAssumption DEF EventStoragePending, Justified
<1>3. DelAuthNFactorEvents(i, f, c) = <<e>>
  BY DEF DelAuthNFactorEvents
<1> HIDE DEF e
<1> QED
  BY <1>1, <1>2, <1>3 DEF Events, Requests

\* A method that runs to its end on the commitment emits requests.
LEMMA MethodRequests ==
    ASSUME ClientTypeOK, commitment \in Commitments,
           NEW u \in Clients, client[u].pc = "prove",
           client[u].method \in {"addAuthNFactor", "delAuthNFactor"}
               => client[u].factor \in Enrols[client[u].id],
           Asserts(client[u])
    PROVE  /\ Emits(client[u]) \in Seq(Events)
           /\ Requests(Emits(client[u]), commitment)
<1> DEFINE p == client[u]
<1>1. /\ p.method \in AllMethods
      /\ p.id \in Ids
      /\ p.ring \in Keyrings
      /\ p.mgr \in Commitments
  BY DEF ClientTypeOK, Preparing, Idle
<1> HIDE DEF p
<1>2. CASE p.method = "addIdentity" \/ p.method = "NEW_addIdentity"
  <2>1. AddStoreAsserts(p.mgr, p.id, commitment)
    BY <1>2 DEF Asserts, p
  <2>2. commitment[p.id] = EMPTY
    BY <2>1, <1>1 DEF AddStoreAsserts, Commitments, Level2
  <2> QED
    BY <1>1, <1>2, <2>2, AddIdentityRequests, NewAddIdentityRequests
    DEF Emits, p
<1>3. CASE p.method = "addAuthNFactor"
  <2>1. /\ OperatorKeyAsserts(p.ring, OpKey[p.id], p.ring)
        /\ SetStoreDataAsserts(p.mgr, p.ring, p.id, p.factor, EMPTY,
                               commitment)
    BY <1>3 DEF Asserts, p
  <2>2. p.factor \in Enrols[p.id]
    BY <1>3 DEF p
  <2> QED
    BY <1>1, <1>3, <2>1, <2>2, AssertedKeyring, AddAuthNFactorRequests
    DEF Emits, p
<1>4. CASE p.method = "delAuthNFactor"
  <2>1. /\ OperatorKeyAsserts(p.ring, OpKey[p.id], p.ring)
        /\ SetStoreDataAsserts(p.mgr, p.ring, p.id, p.factor, PRESENT,
                               commitment)
    BY <1>4 DEF Asserts, p
  <2>2. p.factor \in Enrols[p.id]
    BY <1>4 DEF p
  <2> QED
    BY <1>1, <1>4, <2>1, <2>2, AssertedKeyring, DelAuthNFactorRequests
    DEF Emits, p
<1> QED
  BY <1>1, <1>2, <1>3, <1>4 DEF AllMethods

-----------------------------------------------------------------------------
(***************************************************************************)
(* Type correctness: what a step leaves alone.                             *)
(***************************************************************************)
\* The zkApp and its network.
LEMMA ChainFrame ==
    ASSUME ChainInv, UNCHANGED chainVars
    PROVE  ChainInv'
BY DEF ChainInv, ChainTypeOK, CreatedFirst, chainVars

\* The database.
LEMMA DbFrame ==
    ASSUME DbInv, UNCHANGED dbVars
    PROVE  DbInv'
BY DEF DbInv, DbTypeOK, StoresExist, Exists, dbVars

\* The users' apps.
LEMMA ClientFrame ==
    ASSUME ClientInv, UNCHANGED clientVars
    PROVE  ClientInv'
BY DEF ClientInv, ClientTypeOK, ClientReady, clientVars

\* The prover.
LEMMA ProverFrame ==
    ASSUME ProverTypeOK, UNCHANGED proverVars
    PROVE  ProverTypeOK'
BY DEF ProverTypeOK, proverVars

\* The log may grow, the event being processed is still the same.
LEMMA IndexerFrame ==
    ASSUME IndexerInv, archive \in Seq(Events), UNCHANGED <<dbVars, indexerVars>>,
           archive' = archive \/ \E es \in Seq(Events) : archive' = archive \o es,
           recorded \in Nat, processed \in Nat
    PROVE  IndexerInv'
<1>1. Len(archive) <= Len(archive')
  OBVIOUS
<1>2. ASSUME processed < recorded
      PROVE  Current' = Current
  <2>1. processed + 1 \in 1 .. Len(archive)
    BY <1>2 DEF IndexerInv, IndexerReady
  <2>2. archive'[processed + 1] = archive[processed + 1]
    BY <2>1
  <2> QED
    BY <2>2 DEF Current, dbVars
<1>3. IndexerTypeOK'
  BY DEF IndexerInv, IndexerTypeOK, indexerVars
<1>4. IndexerReady'
  BY <1>1, <1>2 DEF IndexerInv, IndexerReady, Exists, HasData, dbVars, indexerVars
<1> QED
  BY <1>3, <1>4 DEF IndexerInv

\* The counters of crashes.
LEMMA CrashesFrame ==
    ASSUME CrashesOK, UNCHANGED crashes
    PROVE  CrashesOK'
BY DEF CrashesOK

-----------------------------------------------------------------------------
(***************************************************************************)
(* Type correctness: the zkApp and its network.                            *)
(***************************************************************************)
\* A transaction joins the mempool.
LEMMA ChainSend ==
    ASSUME ChainInv, NEW t \in Transactions,
           \A n \in 1 .. Len(t.events) : t.events[n].type # "storage:create",
           mempool' = mempool \cup {t},
           UNCHANGED <<commitment, archive>>,
           sends' \in 0 .. MaxSends, commits' \in 0 .. MaxCommits
    PROVE  ChainInv'
BY DEF ChainInv, ChainTypeOK, CreatedFirst

\* A user's transaction is a transaction.
LEMMA SendUserInv ==
    ASSUME ChainInv, NEW es \in Seq(Events), Requests(es, commitment),
           SendUser(es)
    PROVE  ChainInv'
<1> DEFINE t == [origin |-> "user", serial |-> sends + 1,
                 pre |-> commitment, post |-> commitment, events |-> es]
<1>1. t \in Transactions
  BY ChainAssumption DEF Transactions, ChainInv, ChainTypeOK
<1>2. \A n \in 1 .. Len(t.events) : t.events[n].type # "storage:create"
  BY DEF Requests
<1>3. /\ mempool' = mempool \cup {t}
      /\ UNCHANGED <<commitment, archive>>
      /\ sends' \in 0 .. MaxSends
      /\ commits' \in 0 .. MaxCommits
  BY ChainAssumption DEF SendUser, ChainInv, ChainTypeOK
<1> HIDE DEF t
<1> QED
  BY <1>1, <1>2, <1>3, ChainSend

\* So is the prover's.
LEMMA CommitPendingXformsInv ==
    ASSUME ChainInv, NEW cp, NEW cs \in Commitments,
           CommitPendingXforms(cp, cs)
    PROVE  ChainInv'
<1> DEFINE e == EventStorageCommit(cp, cs)
           t == [origin |-> "prover", serial |-> commits + 1,
                 pre |-> commitment, post |-> cs, events |-> <<e>>]
<1>1. e \in Events /\ e.type # "storage:create"
  BY DEF EventStorageCommit, Events, CommitEvents, CommitPendingXforms,
         ChainInv, ChainTypeOK
<1>2. /\ mempool' = mempool \cup {t}
      /\ UNCHANGED <<commitment, archive>>
      /\ sends' \in 0 .. MaxSends
      /\ commits' \in 0 .. MaxCommits
  BY ChainAssumption DEF CommitPendingXforms, ChainInv, ChainTypeOK
<1> HIDE DEF e
<1>3. t \in Transactions
  BY <1>1, ChainAssumption DEF Transactions, ChainInv, ChainTypeOK
<1>4. \A n \in 1 .. Len(t.events) : t.events[n].type # "storage:create"
  BY <1>1
<1> HIDE DEF t
<1> QED
  BY <1>2, <1>3, <1>4, ChainSend

\* A block takes a transaction of the mempool.
LEMMA IncludeInv ==
    ASSUME ChainInv, NEW t \in mempool, Include(t)
    PROVE  ChainInv' /\ archive' = archive \o t.events /\ t.events \in Seq(Events)
<1>1. /\ t.events \in Seq(Events)
      /\ t.post \in Commitments
      /\ archive \in Seq(Events)
  BY DEF ChainInv, ChainTypeOK, Transactions
<1>2. ChainTypeOK'
  BY <1>1 DEF Include, ChainInv, ChainTypeOK
<1>3. /\ archive' = archive \o t.events
      /\ mempool' \subseteq mempool
  BY DEF Include
<1>4. CreatedFirst'
  <2>1. archive' # <<>> /\ archive'[1] = archive[1]
    BY <1>1, <1>3 DEF ChainInv, CreatedFirst
  <2>2. ASSUME NEW n \in 2 .. Len(archive')
        PROVE  archive'[n].type # "storage:create"
    <3>1. CASE n <= Len(archive)
      BY <3>1, <1>1, <1>3 DEF ChainInv, CreatedFirst
    <3>2. CASE n > Len(archive)
      <4>1. /\ n - Len(archive) \in 1 .. Len(t.events)
            /\ archive'[n] = t.events[n - Len(archive)]
        BY <3>2, <1>1, <1>3
      <4> QED
        BY <4>1 DEF ChainInv, CreatedFirst
    <3> QED
      BY <3>1, <3>2, <1>1
  <2> QED
    BY <2>1, <2>2, <1>3 DEF ChainInv, CreatedFirst
<1> QED
  BY <1>1, <1>2, <1>3, <1>4 DEF ChainInv

\* The mempool loses a transaction.
LEMMA RejectInv ==
    ASSUME ChainInv, NEW t \in mempool, Reject(t) \/ Drop(t)
    PROVE  ChainInv' /\ UNCHANGED archive
BY DEF ChainInv, ChainTypeOK, CreatedFirst, Reject, Drop

-----------------------------------------------------------------------------
(***************************************************************************)
(* Type correctness: the table "storage".                                  *)
(***************************************************************************)

\* The table after a write: it is well-formed and has lost no row.
Written(st) ==
    /\ DOMAIN st = Keys
    /\ \A k \in Keys : st[k] \in RowsOf(k) \cup {NULL}
    /\ \A k \in Keys : Exists(st, k) /\ st[k].storageKey \in Level2
                          => Exists(st, st[k].storageKey)
    /\ \A k \in Keys : Exists(storage, k) => Exists(st, k)

\* A table written that way is a table again.
LEMMA WrittenInv ==
    ASSUME Written(storage'), recorded' \in Nat, processed' \in Nat,
           isTransforming' \in BOOLEAN
    PROVE  DbInv'
BY DEF Written, DbInv, DbTypeOK, StoresExist, Exists

\* A row that changes, and stays in its store.
LEMMA RowWritten ==
    ASSUME DbInv, NEW k \in Keys, NEW row \in RowsOf(k),
           row.storageKey \in Level2 => Exists(storage, row.storageKey)
    PROVE  /\ Written([storage EXCEPT ![k] = row])
           /\ Exists([storage EXCEPT ![k] = row], k)
<1>1. Level2 \subseteq Keys
  BY DEF Keys
<1>2. row # NULL
  BY RowAssumption
<1> QED
  BY <1>1, <1>2 DEF Written, DbInv, DbTypeOK, StoresExist, Exists

\* What a row holds and where it is.
LEMMA RowFacts ==
    ASSUME DbInv, NEW k \in Keys, Exists(storage, k)
    PROVE  /\ storage[k] \in RowsOf(k)
           /\ storage[k].storageKey \in StoresOf(k)
           /\ storage[k].storageKey \in Level2
                  => Exists(storage, storage[k].storageKey)
BY DEF DbInv, DbTypeOK, StoresExist, Exists, RowsOf

\* storage.create writes the manager's row.
LEMMA CreateRowWritten ==
    ASSUME DbInv, NEW c \in Commitments
    PROVE  /\ Written(CreateRow(storage, MANAGER, c))
           /\ Exists(CreateRow(storage, MANAGER, c), MANAGER)
<1> DEFINE row == [value |-> c, isPending |-> FALSE,
                   commitmentPending |-> NULL, commitmentSettled |-> c,
                   storageKey |-> NULL]
<1>1. row \in RowsOf(MANAGER) /\ row.storageKey \notin Level2
  BY KeysAssumption DEF RowsOf, ValuesOf, StoresOf, Level2
<1>2. MANAGER \in Keys
  BY DEF Keys
<1>3. CreateRow(storage, MANAGER, c) = [storage EXCEPT ![MANAGER] = row]
  BY DEF CreateRow
<1> HIDE DEF row
<1> QED
  BY <1>1, <1>2, <1>3, RowWritten

\* storage.set writes a row of a store that exists.
LEMMA SetWritten ==
    ASSUME DbInv, NEW k \in Keys, NEW v \in ValuesOf(k), NEW cp \in Commitments,
           NEW s \in StoresOf(k),
           Exists(storage, k) \/ Exists(storage, s)
    PROVE  /\ Written(Set(storage, k, v, cp, s))
           /\ Exists(Set(storage, k, v, cp, s), k)
<1> DEFINE row == IF Exists(storage, k)
                  THEN [storage[k] EXCEPT !.value = v, !.isPending = TRUE,
                                          !.commitmentPending = cp]
                  ELSE [value |-> v, isPending |-> TRUE,
                        commitmentPending |-> cp,
                        commitmentSettled |-> NULL, storageKey |-> s]
<1>1. row \in RowsOf(k)
  <2>1. CASE Exists(storage, k)
    <3>1. storage[k] \in RowsOf(k)
      BY <2>1, RowFacts
    <3> QED
      BY <2>1, <3>1 DEF RowsOf
  <2>2. CASE ~Exists(storage, k)
    BY <2>2 DEF RowsOf
  <2> QED
    BY <2>1, <2>2
<1>2. row.storageKey \in Level2 => Exists(storage, row.storageKey)
  BY RowFacts DEF RowsOf
<1>3. Set(storage, k, v, cp, s) = [storage EXCEPT ![k] = row]
  BY DEF Set, DbInv, DbTypeOK
<1> HIDE DEF row
<1> QED
  BY <1>1, <1>2, <1>3, RowWritten

\* storage.update writes a row that exists.
LEMMA UpdateWritten ==
    ASSUME DbInv, NEW k \in Keys, Exists(storage, k), NEW v \in ValuesOf(k)
    PROVE  Written(Update(storage, k, v))
<1> DEFINE row == [storage[k] EXCEPT !.value = v]
<1>1. row \in RowsOf(k)
  BY RowFacts DEF RowsOf
<1>2. row.storageKey \in Level2 => Exists(storage, row.storageKey)
  BY RowFacts DEF RowsOf
<1>3. Update(storage, k, v) = [storage EXCEPT ![k] = row]
  BY DEF Update, DbInv, DbTypeOK
<1> HIDE DEF row
<1> QED
  BY <1>1, <1>2, <1>3, RowWritten

\* storage.commit writes rows that stay in their stores.
LEMMA CommitWritten ==
    ASSUME DbInv, NEW cp, NEW cs \in Commitments
    PROVE  Written(Commit(storage, cp, cs))
<1> DEFINE st == Commit(storage, cp, cs)
<1>1. ASSUME NEW k \in Keys
      PROVE  /\ st[k] \in RowsOf(k) \cup {NULL}
             /\ Exists(st, k) <=> Exists(storage, k)
             /\ Exists(st, k) => st[k].storageKey = storage[k].storageKey
  <2>1. CASE k \in Pending(storage) /\ storage[k].commitmentPending = cp
    <3>1. Exists(storage, k) /\ storage[k] \in RowsOf(k)
      BY <2>1, RowFacts DEF Pending
    <3>2. st[k] = [storage[k] EXCEPT !.isPending = FALSE,
                                     !.commitmentSettled = cs]
      BY <2>1 DEF Commit
    <3>3. st[k] \in RowsOf(k) /\ st[k].storageKey = storage[k].storageKey
      BY <3>1, <3>2 DEF RowsOf
    <3> QED
      BY <3>1, <3>3, RowAssumption DEF Exists
  <2>2. CASE ~(k \in Pending(storage) /\ storage[k].commitmentPending = cp)
    <3>1. st[k] = storage[k]
      BY <2>2 DEF Commit
    <3> QED
      BY <3>1 DEF Exists, DbInv, DbTypeOK
  <2> QED
    BY <2>1, <2>2
<1>2. DOMAIN st = Keys
  BY DEF Commit
<1>3. Level2 \subseteq Keys
  BY DEF Keys
<1> HIDE DEF st
<1>4. Written(st)
  BY <1>1, <1>2, <1>3 DEF Written, DbInv, StoresExist
<1> QED
  BY <1>4 DEF st

\* The stores a commit reports have rows, the manager's aside.
LEMMA CommittedStoresExist ==
    ASSUME NEW st, Written(st), NEW cp, NEW cs,
           NEW s \in CommittedStores(st, cp, cs) \ {MANAGER}
    PROVE  s \in Level2 /\ Exists(st, s)
<1>1. PICK k \in Keys : /\ Exists(st, k)
                        /\ st[k].storageKey = s
                        /\ s # NULL
  BY DEF CommittedStores
<1>2. s \in StoresOf(k)
  BY <1>1 DEF Written, RowsOf, Exists
<1>3. s \in Level2
  BY <1>1, <1>2, KeysAssumption DEF StoresOf, Level2
<1> QED
  BY <1>1, <1>3 DEF Written

-----------------------------------------------------------------------------
(***************************************************************************)
(* Type correctness: the indexer.                                          *)
(***************************************************************************)

\* The events by type.
LEMMA EventFacts ==
    ASSUME NEW e \in Events
    PROVE  /\ e.type = "storage:create" =>
                 e.key = MANAGER /\ e.value \in Commitments
           /\ e.type = "storage:pending" =>
                 e \in IdentityEvents \cup FactorEvents
           /\ e.type = "storage:commit" =>
                 /\ e.commitmentPending \in Commitments
                 /\ e.commitmentSettled \in Commitments
           /\ e.type \in {"storage:create", "storage:pending",
                          "storage:commit"}
BY DEF Events, CreateEvents, IdentityEvents, FactorEvents, CommitEvents

\* A request is a row of its store.
LEMMA PendingEventFacts ==
    ASSUME NEW e \in IdentityEvents \cup FactorEvents
    PROVE  /\ e.key \in Keys /\ e.key \in Level2
           /\ e.value \in ValuesOf(e.key)
           /\ e.commitmentPending \in Commitments
           /\ e.id \in StoresOf(e.key)
<1>1. CASE e \in IdentityEvents
  BY <1>1, KeysAssumption
  DEF IdentityEvents, Keys, Level2, ValuesOf, StoresOf
<1>2. CASE e \in FactorEvents
  BY <1>2, KeysAssumption
  DEF FactorEvents, Keys, Level2, ValuesOf, StoresOf, Leaves
<1> QED
  BY <1>1, <1>2

\* So is the data in its meta fields, where there is some.
LEMMA MetaFacts ==
    ASSUME NEW e \in IdentityEvents \cup FactorEvents, HasData(e)
    PROVE  /\ e.meta[2] \in Keys
           /\ e.meta[3] \in ValuesOf(e.meta[2])
           /\ e.key \in StoresOf(e.meta[2])
<1>1. CASE e \in IdentityEvents
  <2>1. /\ e.key \in Ids
        /\ e.meta[2] \in Factors \cup {EMPTY}
        /\ e.meta[3] \in Leaves
    BY <1>1 DEF IdentityEvents, Leaves
  <2> QED
    BY <2>1, KeysAssumption DEF Keys, Level2, ValuesOf, StoresOf
<1>2. CASE e \in FactorEvents
  <2>1. /\ e.key \in Factors
        /\ e.meta[2] \in {PROTOCOL, EMPTY}
        /\ e.meta[3] \in Leaves
    BY <1>2 DEF FactorEvents, Leaves
  <2> QED
    BY <2>1, KeysAssumption DEF Keys, Level2, ValuesOf, StoresOf
<1> QED
  BY <1>1, <1>2

\* A step of the indexer that writes storage and stays with its event.
LEMMA WriteStep ==
    ASSUME ChainInv, DbInv, IndexerInv, UNCHANGED chainVars,
           processed < recorded,
           Written(storage'),
           UNCHANGED <<recorded, processed>>, isTransforming' \in BOOLEAN,
           IndexerTypeOK',
           ixPc' \in {"setData", "updateStores", "clearTransforming",
                      "markProcessed"},
           ixPc' = "setData" => /\ Current.type = "storage:pending"
                                /\ HasData(Current)
                                /\ Exists(storage', Current.key),
           ixPc' \in {"updateStores", "clearTransforming"} =>
              Current.type = "storage:commit",
           \A s \in ixStores' : Exists(storage', s),
           ixPc' = "markProcessed" => processed >= 1 \/ Exists(storage', MANAGER)
    PROVE  DbInv' /\ IndexerInv'
<1>1. DbInv'
  BY WrittenInv DEF DbInv, DbTypeOK
<1>2. Current' = Current
  BY DEF Current, chainVars
<1>3. MANAGER \in Keys
  BY DEF Keys
<1>4. IndexerReady'
  BY <1>2, <1>3 DEF IndexerInv, IndexerReady, Written, chainVars, Exists, HasData
<1> QED
  BY <1>1, <1>4 DEF IndexerInv

\* The event being processed is an event of the log.
LEMMA CurrentFacts ==
    ASSUME ChainInv, DbInv, IndexerInv, processed < recorded
    PROVE  /\ Current \in Events
           /\ Current.type = "storage:create" <=> processed = 0
           /\ recorded \in Nat /\ processed \in Nat
           /\ processed + 1 \in 1 .. Len(archive)
<1>1. /\ archive \in Seq(Events)
      /\ recorded \in Nat
      /\ processed \in Nat
      /\ processed + 1 \in 1 .. Len(archive)
  BY DEF ChainInv, ChainTypeOK, DbInv, DbTypeOK, IndexerInv, IndexerReady
<1>2. Current \in Events
  BY <1>1 DEF Current
<1>3. Current.type = "storage:create" <=> processed = 0
  BY <1>1 DEF Current, ChainInv, CreatedFirst
<1> QED
  BY <1>1, <1>2, <1>3

\* Every step of the indexer writes the row its event is about, and the step
\* after it finds the rows it needs.
LEMMA IndexerInvStep ==
    ASSUME ChainInv, DbInv, IndexerInv, UNCHANGED chainVars,
           IndexerStep \/ IndexerCrash
    PROVE  DbInv' /\ IndexerInv'
<1>1. /\ archive \in Seq(Events)
      /\ recorded \in Nat
      /\ processed \in Nat
      /\ archive' = archive
  BY DEF ChainInv, ChainTypeOK, DbInv, DbTypeOK, chainVars
<1>2. CASE Fetch
  <2>1. DbInv'
    BY <1>1, <1>2 DEF Fetch, DbInv, DbTypeOK, StoresExist, Exists
  <2>2. IndexerInv'
    BY <1>1, <1>2
    DEF Fetch, IndexerInv, IndexerTypeOK, IndexerReady, IxPcs, Exists
  <2> QED
    BY <2>1, <2>2
<1>3. CASE EndCycle
  <2>1. DbInv'
    BY <1>3, DbFrame DEF EndCycle
  <2>2. IndexerInv'
    BY <1>1, <1>3
    DEF EndCycle, IndexerInv, IndexerTypeOK, IndexerReady, IxPcs, Exists, dbVars
  <2> QED
    BY <2>1, <2>2
<1>4. CASE ProcessCreate
  <2>1. /\ Written(storage')
        /\ Exists(storage', MANAGER)
    BY <1>4, CurrentFacts, EventFacts, CreateRowWritten DEF ProcessCreate
  <2>2. IndexerTypeOK' /\ \A s \in ixStores' : Exists(storage', s)
    BY <1>4, <2>1
    DEF ProcessCreate, IndexerInv, IndexerTypeOK, IndexerReady, IxPcs,
        Written, Keys
  <2> QED
    BY <1>4, <2>1, <2>2, WriteStep
    DEF ProcessCreate, DbInv, DbTypeOK
<1>5. CASE ProcessPending
  <2>1. Current \in IdentityEvents \cup FactorEvents
    BY <1>5, CurrentFacts, EventFacts DEF ProcessPending
  <2>2. /\ Written(storage')
        /\ Exists(storage', Current.key)
    BY <1>5, <2>1, PendingEventFacts, SetWritten DEF ProcessPending, CanSet
  <2>3. IndexerTypeOK' /\ \A s \in ixStores' : Exists(storage', s)
    BY <1>5, <2>2
    DEF ProcessPending, IndexerInv, IndexerTypeOK, IndexerReady, IxPcs,
        Written, Keys
  <2>4. processed >= 1
    BY <1>5, CurrentFacts DEF ProcessPending
  <2> QED
    BY <1>5, <2>2, <2>3, <2>4, WriteStep DEF ProcessPending, DbInv, DbTypeOK
<1>6. CASE SetData
  <2>1. /\ processed < recorded
        /\ Current.type = "storage:pending"
        /\ HasData(Current)
        /\ Exists(storage, Current.key)
    BY <1>6 DEF SetData, IndexerInv, IndexerReady
  <2>2. Current \in IdentityEvents \cup FactorEvents
    BY <2>1, CurrentFacts, EventFacts
  <2>3. Written(storage')
    BY <1>6, <2>1, <2>2, MetaFacts, PendingEventFacts, SetWritten DEF SetData
  <2>4. IndexerTypeOK' /\ \A s \in ixStores' : Exists(storage', s)
    BY <1>6, <2>3
    DEF SetData, IndexerInv, IndexerTypeOK, IndexerReady, IxPcs, Written, Keys
  <2>5. processed >= 1
    BY <2>1, CurrentFacts
  <2> QED
    BY <1>6, <2>1, <2>3, <2>4, <2>5, WriteStep DEF SetData, DbInv, DbTypeOK
<1>7. CASE ProcessCommit
  <2>1. /\ processed < recorded
        /\ Current.type = "storage:commit"
        /\ Current.commitmentSettled \in Commitments
    BY <1>7, CurrentFacts, EventFacts DEF ProcessCommit
  <2>2. Written(storage')
    BY <1>7, <2>1, CommitWritten DEF ProcessCommit
  <2>3. /\ ixStores' = CommittedStores(storage', Current.commitmentPending,
                                       Current.commitmentSettled) \ {MANAGER}
        /\ ixPc' = "updateStores"
    BY <1>7 DEF ProcessCommit
  <2>4. \A s \in ixStores' : s \in Level2 /\ Exists(storage', s)
    BY <2>2, <2>3, CommittedStoresExist
  <2>5. IndexerTypeOK'
    BY <2>3, <2>4 DEF IndexerTypeOK, IxPcs
  <2> QED
    BY <1>7, <2>1, <2>2, <2>3, <2>4, <2>5, WriteStep
    DEF ProcessCommit, DbInv, DbTypeOK
<1>8. CASE \E s \in Level2 : UpdateStore(s)
  <2>1. PICK s \in Level2 : UpdateStore(s)
    BY <1>8
  <2>2. /\ processed < recorded
        /\ Current.type = "storage:commit"
        /\ Exists(storage, s)
    BY <2>1 DEF UpdateStore, IndexerInv, IndexerReady
  <2>3. StoredKeyring(storage, s) \in ValuesOf(s) /\ s \in Keys
    BY RestoredMaps, KeysAssumption
    DEF DbInv, ValuesOf, Level2, Keys, Leaves
  <2>4. Written(storage')
    BY <2>1, <2>2, <2>3, UpdateWritten DEF UpdateStore
  <2>5. IndexerTypeOK' /\ \A r \in ixStores' : Exists(storage', r)
    BY <2>1, <2>4
    DEF UpdateStore, IndexerInv, IndexerTypeOK, IndexerReady, Written, Keys
  <2> QED
    BY <2>1, <2>2, <2>4, <2>5, WriteStep DEF UpdateStore, DbInv, DbTypeOK
<1>9. CASE UpdateManager
  <2>1. /\ processed < recorded
        /\ Current.type = "storage:commit"
    BY <1>9 DEF UpdateManager, IndexerInv, IndexerReady
  <2>2. Exists(storage, MANAGER)
    BY <2>1, CurrentFacts DEF IndexerInv, IndexerReady
  <2>3. StoredManager(storage) \in ValuesOf(MANAGER) /\ MANAGER \in Keys
    BY RestoredMaps DEF DbInv, ValuesOf, Keys
  <2>4. Written(storage')
    BY <1>9, <2>2, <2>3, UpdateWritten DEF UpdateManager
  <2>5. IndexerTypeOK' /\ \A r \in ixStores' : Exists(storage', r)
    BY <1>9 DEF UpdateManager, IndexerTypeOK, IxPcs
  <2> QED
    BY <1>9, <2>1, <2>4, <2>5, WriteStep DEF UpdateManager, DbInv, DbTypeOK
<1>10. CASE ClearTransforming
  <2>1. /\ processed < recorded
        /\ Current.type = "storage:commit"
    BY <1>10 DEF ClearTransforming, IndexerInv, IndexerReady
  <2>2. processed >= 1
    BY <2>1, CurrentFacts
  <2>3. DbInv'
    BY <1>10 DEF ClearTransforming, DbInv, DbTypeOK, StoresExist, Exists
  <2>4. IndexerInv'
    BY <1>10, <2>1, <2>2
    DEF ClearTransforming, IndexerInv, IndexerTypeOK, IndexerReady, IxPcs,
        Exists, chainVars
  <2> QED
    BY <2>3, <2>4
<1>11. CASE MarkProcessed
  <2>1. processed < recorded /\ Exists(storage, MANAGER)
    BY <1>11 DEF MarkProcessed, IndexerInv, IndexerReady
  <2>2. DbInv'
    BY <1>1, <1>11 DEF MarkProcessed, DbInv, DbTypeOK, StoresExist, Exists
  <2>3. IndexerInv'
    BY <1>1, <1>11, <2>1
    DEF MarkProcessed, IndexerInv, IndexerTypeOK, IndexerReady, IxPcs, Exists
  <2> QED
    BY <2>2, <2>3
<1>12. CASE Restart
  <2>1. DbInv'
    BY <1>12, DbFrame DEF Restart
  <2>2. IndexerInv'
    BY <1>1, <1>12
    DEF Restart, IndexerInv, IndexerTypeOK, IndexerReady, IxPcs, Exists, dbVars
  <2> QED
    BY <2>1, <2>2
<1> QED
  BY <1>2, <1>3, <1>4, <1>5, <1>6, <1>7, <1>8, <1>9, <1>10, <1>11, <1>12
  DEF IndexerStep, IndexerThrows, IndexerCrash

-----------------------------------------------------------------------------
(***************************************************************************)
(* Type correctness: users and the prover.                                 *)
(***************************************************************************)
\* Every step of a user's app.
LEMMA ClientInvStep ==
    ASSUME ChainInv, DbInv, ClientInv, NEW u \in Clients, ClientStep(u)
    PROVE  ClientInv' /\ ChainInv' /\ UNCHANGED archive
<1>1. /\ commitment \in Commitments
      /\ DbTypeOK
      /\ client \in [Clients -> {Idle} \cup Preparing]
  BY DEF ChainInv, ChainTypeOK, DbInv, ClientInv, ClientTypeOK
<1>2. ASSUME NEW i \in Ids, NEW m \in Methods, BeginIdentity(u, m, i),
             UNCHANGED chainVars
      PROVE  ClientInv' /\ ChainInv' /\ UNCHANGED archive
  <2>1. m \in AllMethods /\ m \notin {"addAuthNFactor", "delAuthNFactor"}
    BY <1>2, MethodsAssumption DEF BeginIdentity
  <2>2. ClientTypeOK'
    BY <1>1, <1>2, <2>1, KeyringFacts, KeysAssumption
    DEF BeginIdentity, ClientTypeOK, Preparing
  <2>3. ClientReady'
    BY <1>1, <1>2, <2>1 DEF BeginIdentity, ClientInv, ClientReady
  <2> QED
    BY <1>2, <2>2, <2>3, ChainFrame DEF ClientInv, chainVars
<1>3. ASSUME NEW i \in Ids, NEW m \in Methods, NEW f \in Enrols[i],
             BeginFactor(u, m, i, f), UNCHANGED chainVars
      PROVE  ClientInv' /\ ChainInv' /\ UNCHANGED archive
  <2>1. m \in AllMethods /\ f \in Factors /\ i \in Level2
    BY <1>3, MethodsAssumption, KeysAssumption DEF Level2
  <2>2. ClientTypeOK'
    BY <1>1, <1>3, <2>1, RestoredMaps DEF BeginFactor, ClientTypeOK, Preparing
  <2>3. ClientReady'
    BY <1>1, <1>3 DEF BeginFactor, ClientInv, ClientReady
  <2> QED
    BY <1>3, <2>2, <2>3, ChainFrame DEF ClientInv, chainVars
<1>4. ASSUME RestoreManager(u), UNCHANGED chainVars
      PROVE  ClientInv' /\ ChainInv' /\ UNCHANGED archive
  <2>1. client[u] \in Preparing
    BY <1>1, <1>4 DEF RestoreManager, Idle
  <2>2. ClientTypeOK'
    BY <1>1, <1>4, <2>1, RestoredMaps
    DEF RestoreManager, ClientTypeOK, Preparing
  <2>3. ClientReady'
    BY <1>1, <1>4 DEF RestoreManager, ClientInv, ClientReady
  <2> QED
    BY <1>4, <2>2, <2>3, ChainFrame DEF ClientInv, chainVars
<1>5. ASSUME client' = [client EXCEPT ![u] = Idle]
      PROVE  ClientInv'
  BY <1>1, <1>5 DEF ClientInv, ClientTypeOK, ClientReady, Idle
<1>6. CASE Prove(u)
  <2>1. client[u].method \in {"addAuthNFactor", "delAuthNFactor"}
            => client[u].factor \in Enrols[client[u].id]
    BY <1>6 DEF Prove, ClientInv, ClientReady
  <2>2. /\ Emits(client[u]) \in Seq(Events)
        /\ Requests(Emits(client[u]), commitment)
    BY <1>1, <1>6, <2>1, MethodRequests DEF Prove, ClientInv
  <2>3. ChainInv' /\ UNCHANGED archive
    BY <1>6, <2>2, SendUserInv DEF Prove, SendUser
  <2> QED
    BY <1>5, <1>6, <2>3 DEF Prove
<1>7. CASE ProveFails(u)
  BY <1>5, <1>7, ChainFrame DEF ProveFails, chainVars
<1> QED
  BY <1>2, <1>3, <1>4, <1>6, <1>7 DEF ClientStep

\* The prover at rest.
LEMMA RestInv ==
    ASSUME Rest
    PROVE  ProverTypeOK'
BY DEF Rest, ProverTypeOK, NoMaps, PvPcs

\* The leaves the prover read are leaves.
LEMMA UpdatedKeyring ==
    ASSUME ProverTypeOK, NEW ring \in Keyrings, NEW s \in Level2
    PROVE  Updated(ring, s) \in Keyrings
<1>1. ASSUME NEW f \in Factors, \E r \in pvRows : r.storageKey = s /\ r.key = f
      PROVE  (CHOOSE r \in pvRows : r.storageKey = s /\ r.key = f).value
                 \in Leaves
  <2> DEFINE r == CHOOSE x \in pvRows : x.storageKey = s /\ x.key = f
  <2>1. r \in pvRows /\ r.key = f
    BY <1>1
  <2> HIDE DEF r
  <2>2. r.value \in ValuesOf(f)
    BY <2>1 DEF ProverTypeOK
  <2>3. r.value \in Leaves
    BY <2>2, KeysAssumption DEF ValuesOf
  <2> QED
    BY <2>3 DEF r
<1> QED
  BY <1>1 DEF Updated, Keyrings

\* Every step of the prover.
LEMMA ProverInvStep ==
    ASSUME ChainInv, DbInv, ProverTypeOK, ProverStep
    PROVE  /\ ProverTypeOK' /\ ChainInv' /\ UNCHANGED archive
           /\ UNCHANGED dbVars \/ SetTransforming
<1>1. DbTypeOK
  BY DEF DbInv
<1>2. CASE UNCHANGED <<chainVars, dbVars>> /\ Query
  <2>1. ASSUME NEW r \in Level3Reads(storage)
        PROVE  r \in [key : Keys, value : ValuesOf(r.key), storageKey : Level2]
    <3>1. PICK k \in Pending(storage) :
             /\ storage[k].storageKey \in Level2
             /\ r = [key |-> k, value |-> storage[k].value,
                     storageKey |-> storage[k].storageKey]
      BY DEF Level3Reads
    <3>2. k \in Keys /\ storage[k] \in RowsOf(k)
      BY <3>1, RowFacts DEF Pending
    <3> QED
      BY <3>1, <3>2 DEF RowsOf
  <2>2. \A k \in Pending(storage) :
           storage[k].commitmentPending \in Commitments \cup {NULL}
    BY RowFacts DEF Pending, RowsOf
  <2>3. ProverTypeOK'
    BY <1>2, <2>1, <2>2 DEF Query, ProverTypeOK, PvPcs
  <2> QED
    BY <1>2, <2>3, ChainFrame DEF chainVars
<1>3. CASE UNCHANGED <<chainVars, dbVars>> /\ \E s \in Level2 : RestoreStore(s)
  <2>1. PICK s \in Level2 : RestoreStore(s)
    BY <1>3
  <2>2. Updated(StoredKeyring(storage, s), s) \in Keyrings
    BY <1>1, RestoredMaps, UpdatedKeyring
  <2>3. ProverTypeOK'
    BY <2>1, <2>2 DEF RestoreStore, ProverTypeOK
  <2> QED
    BY <1>3, <2>3, ChainFrame DEF chainVars
<1>4. CASE UNCHANGED <<chainVars, dbVars>> /\ ProverRestoreManager
  <2>1. StoredManager(storage) \in Commitments
    BY <1>1, RestoredMaps
  <2>2. pvSettled' \in Commitments
    BY <1>4, <2>1 DEF ProverRestoreManager, ProverTypeOK, Commitments
  <2>3. ProverTypeOK'
    BY <1>4, <2>2 DEF ProverRestoreManager, ProverTypeOK, PvPcs
  <2> QED
    BY <1>4, <2>3, ChainFrame DEF chainVars
<1>5. CASE UNCHANGED <<chainVars, dbVars>> /\ Waited
  BY <1>5, RestInv, ChainFrame DEF Waited, chainVars
<1>6. CASE Send /\ UNCHANGED dbVars
  <2>1. ChainInv' /\ UNCHANGED archive
    BY <1>6, CommitPendingXformsInv
    DEF Send, ProverTypeOK, CommitPendingXforms
  <2>2. ProverTypeOK'
    BY <1>6 DEF Send, ProverTypeOK, PvPcs
  <2> QED
    BY <1>6, <2>1, <2>2
<1>7. CASE SendFails /\ UNCHANGED dbVars
  BY <1>7, RestInv, ChainFrame DEF SendFails, chainVars
<1>8. CASE SetTransforming /\ UNCHANGED chainVars
  <2>1. ProverTypeOK'
    BY <1>8 DEF SetTransforming, ProverTypeOK, PvPcs
  <2> QED
    BY <1>8, <2>1, ChainFrame DEF chainVars
<1> QED
  BY <1>2, <1>3, <1>4, <1>5, <1>6, <1>7, <1>8 DEF ProverStep

-----------------------------------------------------------------------------
(***************************************************************************)
(* Type correctness: the system.                                           *)
(***************************************************************************)
\* The deployed system is typed.
LEMMA TypeInvInit == Init => TypeInv
<1> SUFFICES ASSUME Init PROVE TypeInv
  OBVIOUS
<1>1. ChainInv
  <2> DEFINE e == EventStorageCreate(MANAGER, NoIdentities)
  <2>1. e \in Events /\ e.type = "storage:create"
    BY KeyringFacts DEF EventStorageCreate, Events, CreateEvents
  <2>2. /\ commitment = NoIdentities /\ mempool = {} /\ archive = <<e>>
        /\ sends = 0 /\ commits = 0
    BY DEF Init, ChainInit
  <2> HIDE DEF e
  <2> QED
    BY <2>1, <2>2, KeyringFacts, ChainAssumption
    DEF ChainInv, ChainTypeOK, CreatedFirst
<1>2. DbInv
  BY DEF Init, DbInit, DbInv, DbTypeOK, StoresExist, Exists
<1>3. ClientInv
  BY DEF Init, ClientInit, ClientInv, ClientTypeOK, ClientReady, Idle
<1>4. IndexerInv
  BY <1>1 DEF Init, DbInit, IndexerInit, IndexerInv, IndexerTypeOK, IndexerReady,
         IxPcs, ChainInv, ChainTypeOK
<1>5. ProverTypeOK
  BY DEF Init, ProverInit, ProverTypeOK, NoMaps, PvPcs
<1>6. CrashesOK
  BY EnvironmentAssumption DEF Init, CrashesOK
<1> QED
  BY <1>1, <1>2, <1>3, <1>4, <1>5, <1>6 DEF TypeInv

\* Every step of the system keeps it typed.
LEMMA TypeInvStep == TypeInv /\ [Next]_vars => TypeInv'
<1> SUFFICES ASSUME TypeInv, [Next]_vars PROVE TypeInv'
  OBVIOUS
<1>1. /\ ChainInv /\ DbInv /\ ClientInv /\ IndexerInv
      /\ ProverTypeOK /\ CrashesOK
  BY DEF TypeInv
<1>2. archive \in Seq(Events) /\ recorded \in Nat /\ processed \in Nat
  BY <1>1 DEF ChainInv, ChainTypeOK, DbInv, DbTypeOK
<1>3. CASE Users
  <2>1. ClientInv' /\ ChainInv' /\ UNCHANGED archive
    BY <1>1, <1>3, ClientInvStep DEF Users
  <2> QED
    BY <1>1, <1>2, <1>3, <2>1, DbFrame, IndexerFrame, ProverFrame, CrashesFrame
    DEF Users, TypeInv
<1>4. CASE Network
  <2>1. /\ ChainInv'
        /\ archive' = archive \/ \E es \in Seq(Events) : archive' = archive \o es
    BY <1>1, <1>4, IncludeInv, RejectInv DEF Network, IncludeTxn
  <2>2. UNCHANGED <<dbVars, clientVars, indexerVars, proverVars, crashes>>
    BY <1>4 DEF Network, IncludeTxn
  <2> QED
    BY <1>1, <1>2, <2>1, <2>2, DbFrame, ClientFrame, IndexerFrame, ProverFrame,
       CrashesFrame
    DEF TypeInv
<1>5. CASE Indexing
  <2>1. DbInv' /\ IndexerInv'
    BY <1>1, <1>5, IndexerInvStep DEF Indexing
  <2> QED
    BY <1>1, <1>5, <2>1, ChainFrame, ClientFrame, ProverFrame, CrashesFrame
    DEF Indexing, TypeInv
<1>6. CASE Proving
  <2>1. /\ ProverTypeOK' /\ ChainInv' /\ UNCHANGED archive
        /\ UNCHANGED dbVars \/ SetTransforming
    BY <1>1, <1>6, ProverInvStep DEF Proving
  <2>2. DbInv' /\ IndexerInv'
    <3>1. CASE UNCHANGED dbVars
      BY <1>1, <1>2, <1>6, <2>1, <3>1, DbFrame, IndexerFrame DEF Proving
    <3>2. CASE SetTransforming
      <4>1. DbInv'
        BY <1>1, <3>2
        DEF SetTransforming, DbInv, DbTypeOK, StoresExist, Exists
      <4>2. IndexerInv'
        BY <1>1, <1>6, <2>1, <3>2
        DEF SetTransforming, Proving, IndexerInv, IndexerTypeOK, IndexerReady,
            Current, Exists, HasData, indexerVars
      <4> QED
        BY <4>1, <4>2
    <3> QED
      BY <2>1, <3>1, <3>2
  <2> QED
    BY <1>1, <1>6, <2>1, <2>2, ClientFrame, CrashesFrame DEF Proving, TypeInv
<1>7. CASE Crash
  <2>1. UNCHANGED chainVars /\ UNCHANGED clientVars
    BY <1>7 DEF Crash
  <2>2. CrashesOK'
    BY <1>1, <1>7, EnvironmentAssumption DEF Crash, CrashesOK
  <2>3. CASE IndexerCrash /\ UNCHANGED proverVars
    BY <1>1, <2>1, <2>2, <2>3, IndexerInvStep, ChainFrame, ClientFrame,
       ProverFrame
    DEF TypeInv
  <2>4. CASE ProverCrash /\ UNCHANGED <<dbVars, indexerVars>>
    <3>1. ProverTypeOK'
      BY <2>4, RestInv DEF ProverCrash
    <3> QED
      BY <1>1, <1>2, <2>1, <2>2, <2>4, <3>1, ChainFrame, DbFrame, ClientFrame,
         IndexerFrame
      DEF TypeInv, chainVars
  <2> QED
    BY <1>7, <2>3, <2>4 DEF Crash
<1>8. CASE UNCHANGED vars
  BY <1>1, <1>2, <1>8, ChainFrame, DbFrame, ClientFrame, IndexerFrame,
     ProverFrame, CrashesFrame
  DEF TypeInv, vars, chainVars
<1> QED
  BY <1>3, <1>4, <1>5, <1>6, <1>7, <1>8 DEF Next

\* TypeOK holds of the system, and so does the invariant that implies it:
\* every row of the table "storage" is of its key's kind and in a store that
\* exists, whatever the interleaving of users, network, indexer and prover.
THEOREM TypeInvariant == Spec => []TypeInv
BY TypeInvInit, TypeInvStep, PTL DEF Spec

\* Each part of the system's state has its type.
THEOREM TypeCorrect == Spec => []TypeOK
<1>1. TypeInv => TypeOK
  BY DEF TypeInv, TypeOK, ChainInv, DbInv, ClientInv, IndexerInv,
         IndexerReady, CrashesOK
<1> QED
  BY <1>1, TypeInvariant, PTL

-----------------------------------------------------------------------------
(***************************************************************************)
(* The log.                                                                *)
(***************************************************************************)
\* What the commitment is after an event.
LEMMA AfterFacts ==
    ASSUME NEW e
    PROVE  /\ e.type = "storage:create" => After(e) = e.value
           /\ e.type = "storage:pending" => After(e) = e.commitmentPending
           /\ e.type = "storage:commit" => After(e) = e.commitmentSettled
<1>1. e.type = "storage:create" => After(e) = e.value
  <2>1. "storage:create" # "storage:pending" /\ "storage:create" # "storage:commit"
    OBVIOUS
  <2> QED
    BY <2>1, Zenon DEF After
<1>2. e.type = "storage:pending" => After(e) = e.commitmentPending
  <2>1. "storage:create" # "storage:pending" /\ "storage:pending" # "storage:commit"
    OBVIOUS
  <2> QED
    BY <2>1, Zenon DEF After
<1>3. e.type = "storage:commit" => After(e) = e.commitmentSettled
  <2>1. "storage:create" # "storage:commit" /\ "storage:pending" # "storage:commit"
    OBVIOUS
  <2> QED
    BY <2>1, Zenon DEF After
<1> QED
  BY <1>1, <1>2, <1>3

\* Two linked sequences of which one takes up where the other ends.
LEMMA LinkedConcat ==
    ASSUME NEW S, NEW es \in Seq(S), NEW fs \in Seq(S),
           es # <<>>, fs # <<>>, Linked(es), Linked(fs),
           fs[1].commitmentPending = After(es[Len(es)])
    PROVE  Linked(es \o fs) /\ (es \o fs)[Len(es \o fs)] = fs[Len(fs)]
<1>1. ASSUME NEW n \in 1 .. Len(es \o fs) - 1
      PROVE  (es \o fs)[n + 1].commitmentPending = After((es \o fs)[n])
  <2>1. CASE n < Len(es)
    <3>1. (es \o fs)[n] = es[n] /\ (es \o fs)[n + 1] = es[n + 1]
      BY <2>1
    <3> QED
      BY <2>1, <3>1 DEF Linked
  <2>2. CASE n = Len(es)
    <3>1. (es \o fs)[n] = es[n] /\ (es \o fs)[n + 1] = fs[1]
      BY <2>2
    <3> QED
      BY <2>2, <3>1
  <2>3. CASE n > Len(es)
    <3>1. /\ n - Len(es) \in 1 .. Len(fs) - 1
          /\ (es \o fs)[n] = fs[n - Len(es)]
          /\ (es \o fs)[n + 1] = fs[n - Len(es) + 1]
      BY <2>3
    <3> QED
      BY <3>1 DEF Linked
  <2> QED
    BY <2>1, <2>2, <2>3
<1> QED
  BY <1>1 DEF Linked

\* A user's transaction keeps the commitment its requests were proved on.
LEMMA SendUserLog ==
    ASSUME LogInv, NEW es \in Seq(Events), Requests(es, commitment),
           SendUser(es)
    PROVE  LogInv'
<1> DEFINE t == [origin |-> "user", serial |-> sends + 1,
                 pre |-> commitment, post |-> commitment, events |-> es]
<1>1. /\ t.events # <<>>
      /\ t.events[1].commitmentPending = t.pre
      /\ Linked(t.events)
      /\ After(t.events[Len(t.events)]) = t.post
      /\ \A n \in 1 .. Len(t.events) : Justified(t.events[n])
  <2>1. \A n \in 1 .. Len(es) : /\ es[n].commitmentPending = commitment
                                /\ After(es[n]) = commitment
    BY AfterFacts DEF Requests
  <2>2. es # <<>> /\ Len(es) \in 1 .. Len(es)
    BY DEF Requests
  <2> QED
    BY <2>1, <2>2 DEF Linked, Requests
<1>2. mempool' = mempool \cup {t} /\ UNCHANGED <<commitment, archive>>
  BY DEF SendUser
<1> HIDE DEF t
<1> QED
  BY <1>1, <1>2 DEF LogInv, TxnInv, LogLinked, RequestsJustified

\* The prover's transaction leads from the commitment to the settled one.
LEMMA CommitPendingXformsLog ==
    ASSUME LogInv, NEW cp, NEW cs, CommitPendingXforms(cp, cs)
    PROVE  LogInv'
<1> DEFINE e == EventStorageCommit(cp, cs)
           t == [origin |-> "prover", serial |-> commits + 1,
                 pre |-> commitment, post |-> cs, events |-> <<e>>]
<1>1. /\ e.type = "storage:commit"
      /\ e.commitmentPending = commitment
      /\ e.commitmentSettled = cs
  BY DEF EventStorageCommit, CommitPendingXforms
<1>2. After(e) = cs /\ Justified(e)
  BY <1>1, AfterFacts DEF Justified
<1>3. mempool' = mempool \cup {t} /\ UNCHANGED <<commitment, archive>>
  BY DEF CommitPendingXforms
<1> HIDE DEF e
<1>4. /\ t.events # <<>>
      /\ t.events[1].commitmentPending = t.pre
      /\ Linked(t.events)
      /\ After(t.events[Len(t.events)]) = t.post
      /\ \A n \in 1 .. Len(t.events) : Justified(t.events[n])
  BY <1>1, <1>2 DEF Linked
<1> HIDE DEF t
<1> QED
  BY <1>3, <1>4 DEF LogInv, TxnInv, LogLinked, RequestsJustified

\* A block takes a transaction only on the commitment it was proved on.
LEMMA IncludeLog ==
    ASSUME ChainInv, LogInv, NEW t \in mempool, Include(t)
    PROVE  LogInv'
<1>1. /\ archive \in Seq(Events) /\ archive # <<>>
      /\ t.events \in Seq(Events) /\ t.events # <<>>
  BY DEF ChainInv, ChainTypeOK, CreatedFirst, Transactions, LogInv, TxnInv
<1>2. /\ mempool' \subseteq mempool
      /\ commitment' = t.post
      /\ archive' = archive \o t.events
      /\ t.pre = commitment
  BY DEF Include
<1>3. LogLinked'
  <2>1. t.events[1].commitmentPending = After(archive[Len(archive)])
    BY <1>2 DEF LogInv, TxnInv, LogLinked
  <2>2. Linked(archive) /\ Linked(t.events)
    BY DEF LogInv, TxnInv, LogLinked
  <2>3. /\ Linked(archive')
        /\ archive'[Len(archive')] = t.events[Len(t.events)]
    BY <1>1, <1>2, <2>1, <2>2, LinkedConcat
  <2>4. commitment' = After(t.events[Len(t.events)])
    BY <1>2 DEF LogInv, TxnInv
  <2> QED
    BY <2>3, <2>4 DEF LogLinked
<1>4. RequestsJustified'
  <2> SUFFICES ASSUME NEW n \in 1 .. Len(archive')
               PROVE  Justified(archive'[n])
    BY DEF RequestsJustified
  <2>1. CASE n <= Len(archive)
    <3>1. archive'[n] = archive[n]
      BY <1>1, <1>2, <2>1
    <3> QED
      BY <1>1, <2>1, <3>1 DEF LogInv, RequestsJustified
  <2>2. CASE n > Len(archive)
    <3>1. /\ n - Len(archive) \in 1 .. Len(t.events)
          /\ archive'[n] = t.events[n - Len(archive)]
      BY <1>1, <1>2, <2>2
    <3> QED
      BY <3>1 DEF LogInv, TxnInv
  <2> QED
    BY <1>1, <2>1, <2>2
<1>5. TxnInv'
  BY <1>2 DEF LogInv, TxnInv
<1> QED
  BY <1>3, <1>4, <1>5 DEF LogInv

\* Fewer transactions, or none the less.
LEMMA LogFrame ==
    ASSUME LogInv, mempool' \subseteq mempool, UNCHANGED <<commitment, archive>>
    PROVE  LogInv'
BY DEF LogInv, TxnInv, LogLinked, RequestsJustified

\* The log of the deployment.
LEMMA LogInvInit == Init => LogInv
<1> SUFFICES ASSUME Init PROVE LogInv
  OBVIOUS
<1> DEFINE e == EventStorageCreate(MANAGER, NoIdentities)
<1>1. e.type = "storage:create" /\ e.value = NoIdentities
  BY DEF EventStorageCreate
<1>2. After(e) = NoIdentities /\ Justified(e)
  BY <1>1, AfterFacts DEF Justified
<1>3. commitment = NoIdentities /\ mempool = {} /\ archive = <<e>>
  BY DEF Init, ChainInit
<1> HIDE DEF e
<1> QED
  BY <1>2, <1>3 DEF LogInv, TxnInv, LogLinked, Linked, RequestsJustified

\* Every step of the system keeps the log linked and its requests justified.
LEMMA LogInvStep == TypeInv /\ LogInv /\ [Next]_vars => LogInv'
<1> SUFFICES ASSUME TypeInv, LogInv, [Next]_vars PROVE LogInv'
  OBVIOUS
<1>1. ChainInv /\ ClientInv /\ commitment \in Commitments
  BY DEF TypeInv, ChainInv, ChainTypeOK
<1>2. CASE Users
  <2>1. PICK u \in Clients : ClientStep(u)
    BY <1>2 DEF Users
  <2>2. CASE Prove(u)
    <3>1. client[u].method \in {"addAuthNFactor", "delAuthNFactor"}
              => client[u].factor \in Enrols[client[u].id]
      BY <1>1, <2>2 DEF Prove, ClientInv, ClientReady
    <3>2. /\ Emits(client[u]) \in Seq(Events)
          /\ Requests(Emits(client[u]), commitment)
      BY <1>1, <2>2, <3>1, MethodRequests DEF Prove, ClientInv
    <3> QED
      BY <2>2, <3>2, SendUserLog DEF Prove
  <2>3. CASE UNCHANGED chainVars
    BY <2>3, LogFrame DEF chainVars
  <2> QED
    BY <2>1, <2>2, <2>3 DEF ClientStep, ProveFails
<1>3. CASE Network
  BY <1>1, <1>3, IncludeLog, LogFrame DEF Network, IncludeTxn, Reject, Drop
<1>4. CASE Proving
  <2>1. CASE Send
    BY <2>1, CommitPendingXformsLog DEF Send
  <2>2. CASE UNCHANGED chainVars
    BY <2>2, LogFrame DEF chainVars
  <2> QED
    BY <1>4, <2>1, <2>2 DEF Proving, ProverStep, SendFails
<1>5. CASE Indexing \/ Crash \/ UNCHANGED vars
  <2>1. UNCHANGED chainVars
    <3>1. CASE Indexing
      BY <3>1 DEF Indexing
    <3>2. CASE Crash
      BY <3>2, Zenon DEF Crash
    <3>3. CASE UNCHANGED vars
      BY <3>3 DEF vars
    <3> QED
      BY <1>5, <3>1, <3>2, <3>3
  <2>2. mempool' \subseteq mempool /\ UNCHANGED <<commitment, archive>>
    BY <2>1 DEF chainVars
  <2> QED
    BY <2>2, LogFrame
<1> QED
  BY <1>2, <1>3, <1>4, <1>5 DEF Next

\* The log is linked and its requests are justified, and so are those of the
\* transactions that are not in a block yet.
LEMMA LogInvariant == Spec => []LogInv
BY TypeInvariant, LogInvInit, LogInvStep, PTL DEF Spec

\* The archive is a chain of commitments that ends in the zkApp's: no event is
\* emitted on a commitment the events before it do not lead to, whichever
\* transactions the network includes and drops.
THEOREM LogAlwaysLinked == Spec => []LogLinked
BY LogInvariant, PTL DEF LogInv

\* Every request in the archive was allowed by the commitment it was proved on:
\* all of them are the web app's, which takes each witness for the key it names.
THEOREM RequestsAlwaysJustified == Spec => []RequestsJustified
BY LogInvariant, PTL DEF LogInv

-----------------------------------------------------------------------------
(***************************************************************************)
(* What a write does to the rows, for the proofs to cite instead of the    *)
(* operators of module Storage.                                            *)
(***************************************************************************)

\* The row of k is set, pending on cp; a new one is in the store s.
SetsRow(k, v, cp, s) ==
    /\ \A j \in Keys \ {k} : storage'[j] = storage[j]
    /\ Exists(storage', k)
    /\ storage'[k].value = v
    /\ storage'[k].isPending = TRUE
    /\ storage'[k].commitmentPending = cp
    /\ storage'[k].storageKey =
          IF Exists(storage, k) THEN storage[k].storageKey ELSE s

\* The rows pending on cp are settled in cs.
SettlesRows(cp, cs) ==
    \A k \in Keys :
        /\ Exists(storage', k) <=> Exists(storage, k)
        /\ Exists(storage, k) =>
              /\ storage'[k].value = storage[k].value
              /\ storage'[k].storageKey = storage[k].storageKey
              /\ storage'[k].commitmentPending = storage[k].commitmentPending
              /\ IF storage[k].isPending /\ storage[k].commitmentPending = cp
                 THEN /\ storage'[k].isPending = FALSE
                      /\ storage'[k].commitmentSettled = cs
                 ELSE storage'[k] = storage[k]

\* The row of s has the value v now.
RevaluesRow(s, v) ==
    /\ \A j \in Keys \ {s} : storage'[j] = storage[j]
    /\ Exists(storage', s)
    /\ storage'[s].value = v
    /\ storage'[s].isPending = storage[s].isPending
    /\ storage'[s].commitmentPending = storage[s].commitmentPending
    /\ storage'[s].commitmentSettled = storage[s].commitmentSettled
    /\ storage'[s].storageKey = storage[s].storageKey

\* storage.set sets a row.
LEMMA SetWrites ==
    ASSUME DbInv, NEW k \in Keys, NEW v \in ValuesOf(k), NEW cp \in Commitments,
           NEW s \in StoresOf(k), storage' = Set(storage, k, v, cp, s)
    PROVE  SetsRow(k, v, cp, s)
<1>1. DOMAIN storage = Keys
  BY DEF DbInv, DbTypeOK
<1>2. CASE Exists(storage, k)
  <2>1. storage[k] \in RowsOf(k)
    BY <1>2, RowFacts
  <2> DEFINE row == [storage[k] EXCEPT !.value = v, !.isPending = TRUE,
                                       !.commitmentPending = cp]
  <2>2. /\ row \in RowsOf(k)
        /\ row.value = v /\ row.isPending = TRUE /\ row.commitmentPending = cp
        /\ row.storageKey = storage[k].storageKey
    BY <2>1 DEF RowsOf
  <2>3. storage' = [storage EXCEPT ![k] = row]
    BY <1>1, <1>2 DEF Set
  <2> HIDE DEF row
  <2> QED
    BY <1>1, <1>2, <2>2, <2>3, RowAssumption DEF SetsRow, Exists
<1>3. CASE ~Exists(storage, k)
  <2> DEFINE row == [value |-> v, isPending |-> TRUE,
                     commitmentPending |-> cp,
                     commitmentSettled |-> NULL, storageKey |-> s]
  <2>1. /\ row \in RowsOf(k)
        /\ row.value = v /\ row.isPending = TRUE /\ row.commitmentPending = cp
        /\ row.storageKey = s
    BY DEF RowsOf
  <2>2. storage' = [storage EXCEPT ![k] = row]
    BY <1>1, <1>3 DEF Set
  <2> HIDE DEF row
  <2> QED
    BY <1>1, <1>3, <2>1, <2>2, RowAssumption DEF SetsRow, Exists
<1> QED
  BY <1>2, <1>3

\* storage.commit settles rows.
LEMMA CommitWrites ==
    ASSUME DbInv, NEW cp, NEW cs \in Commitments,
           storage' = Commit(storage, cp, cs)
    PROVE  SettlesRows(cp, cs)
<1> SUFFICES ASSUME NEW k \in Keys
    PROVE  /\ Exists(storage', k) <=> Exists(storage, k)
           /\ Exists(storage, k) =>
                /\ storage'[k].value = storage[k].value
                /\ storage'[k].storageKey = storage[k].storageKey
                /\ storage'[k].commitmentPending = storage[k].commitmentPending
                /\ IF storage[k].isPending /\ storage[k].commitmentPending = cp
                   THEN /\ storage'[k].isPending = FALSE
                        /\ storage'[k].commitmentSettled = cs
                   ELSE storage'[k] = storage[k]
  BY DEF SettlesRows
<1>1. CASE k \in Pending(storage) /\ storage[k].commitmentPending = cp
  <2>1. Exists(storage, k) /\ storage[k] \in RowsOf(k) /\ storage[k].isPending
    BY <1>1, RowFacts DEF Pending
  <2>2. storage'[k] = [storage[k] EXCEPT !.isPending = FALSE,
                                         !.commitmentSettled = cs]
    BY <1>1 DEF Commit
  <2>3. storage'[k] \in RowsOf(k)
    BY <2>1, <2>2 DEF RowsOf
  <2> QED
    BY <1>1, <2>1, <2>2, <2>3, RowAssumption DEF RowsOf, Exists
<1>2. CASE ~(k \in Pending(storage) /\ storage[k].commitmentPending = cp)
  <2>1. storage'[k] = storage[k]
    BY <1>2 DEF Commit
  <2> QED
    BY <1>2, <2>1 DEF Exists, Pending
<1> QED
  BY <1>1, <1>2

\* storage.update changes a value.
LEMMA UpdateWrites ==
    ASSUME DbInv, NEW s \in Keys, Exists(storage, s), NEW v \in ValuesOf(s),
           storage' = Update(storage, s, v)
    PROVE  RevaluesRow(s, v)
<1> DEFINE row == [storage[s] EXCEPT !.value = v]
<1>1. storage[s] \in RowsOf(s) /\ DOMAIN storage = Keys
  BY RowFacts DEF DbInv, DbTypeOK
<1>2. /\ row \in RowsOf(s) /\ row.value = v
      /\ row.isPending = storage[s].isPending
      /\ row.commitmentPending = storage[s].commitmentPending
      /\ row.commitmentSettled = storage[s].commitmentSettled
      /\ row.storageKey = storage[s].storageKey
  BY <1>1 DEF RowsOf
<1>3. storage' = [storage EXCEPT ![s] = row]
  BY <1>1 DEF Update
<1> HIDE DEF row
<1> QED
  BY <1>1, <1>2, <1>3, RowAssumption DEF RevaluesRow, Exists

-----------------------------------------------------------------------------
(***************************************************************************)
(* What the indexer's steps do, each with what it knows of its event.      *)
(***************************************************************************)

\* The event being processed was proved on the commitment that storage has
\* replayed the log to.
LEMMA CurrentLinked ==
    ASSUME TypeInv, LogInv, processed < recorded, Current.type # "storage:create"
    PROVE  /\ processed >= 1
           /\ Current.commitmentPending = After(archive[processed])
           /\ Justified(Current)
<1>1. /\ processed >= 1 /\ processed \in Nat
      /\ processed + 1 \in 1 .. Len(archive)
  BY CurrentFacts DEF TypeInv
<1>2. processed \in 1 .. Len(archive) - 1 /\ Len(archive) \in Nat
  BY <1>1 DEF TypeInv, ChainInv, ChainTypeOK
<1> QED
  BY <1>1, <1>2
  DEF Current, LogInv, LogLinked, Linked, RequestsJustified

\* A request is set as a row of its store.
LEMMA ProcessPendingWrites ==
    ASSUME TypeInv, ProcessPending
    PROVE  /\ Current \in IdentityEvents \cup FactorEvents
           /\ SetsRow(Current.key, Current.value, Current.commitmentPending,
                      Current.id)
<1>1. ChainInv /\ DbInv /\ IndexerInv
  BY DEF TypeInv
<1>2. Current \in IdentityEvents \cup FactorEvents
  BY <1>1, CurrentFacts, EventFacts DEF ProcessPending
<1> QED
  BY <1>1, <1>2, PendingEventFacts, SetWrites DEF ProcessPending

\* So is the data it carries.
LEMMA SetDataWrites ==
    ASSUME TypeInv, SetData
    PROVE  /\ processed < recorded
           /\ Current.type = "storage:pending"
           /\ Current \in IdentityEvents \cup FactorEvents
           /\ HasData(Current)
           /\ Exists(storage, Current.key)
           /\ SetsRow(Current.meta[2], Current.meta[3],
                      Current.commitmentPending, Current.key)
<1>1. ChainInv /\ DbInv /\ IndexerInv
  BY DEF TypeInv
<1>2. /\ processed < recorded
      /\ Current.type = "storage:pending"
      /\ HasData(Current)
      /\ Exists(storage, Current.key)
  BY <1>1 DEF SetData, IndexerInv, IndexerReady
<1>3. Current \in IdentityEvents \cup FactorEvents
  BY <1>1, <1>2, CurrentFacts, EventFacts
<1> QED
  BY <1>1, <1>2, <1>3, MetaFacts, PendingEventFacts, SetWrites DEF SetData

\* A commit settles the rows pending on the commitment it was proved on.
LEMMA ProcessCommitWrites ==
    ASSUME TypeInv, ProcessCommit
    PROVE  /\ Current.commitmentSettled \in Commitments
           /\ SettlesRows(Current.commitmentPending, Current.commitmentSettled)
<1>1. ChainInv /\ DbInv /\ IndexerInv
  BY DEF TypeInv
<1>2. Current.commitmentSettled \in Commitments
  BY <1>1, CurrentFacts, EventFacts DEF ProcessCommit
<1> QED
  BY <1>1, <1>2, CommitWrites DEF ProcessCommit

\* A store's row takes the root of its restored map.
LEMMA UpdateStoreWrites ==
    ASSUME TypeInv, NEW s \in Level2, UpdateStore(s)
    PROVE  /\ processed < recorded
           /\ Current.type = "storage:commit"
           /\ Exists(storage, s)
           /\ RevaluesRow(s, StoredKeyring(storage, s))
<1>1. /\ DbInv
      /\ processed < recorded
      /\ Current.type = "storage:commit"
      /\ Exists(storage, s)
  BY DEF TypeInv, UpdateStore, IndexerInv, IndexerReady
<1>2. StoredKeyring(storage, s) \in ValuesOf(s) /\ s \in Keys
  BY <1>1, RestoredMaps, KeysAssumption
  DEF DbInv, ValuesOf, Level2, Keys, Leaves
<1> QED
  BY <1>1, <1>2, UpdateWrites DEF UpdateStore

\* So does the manager's.
LEMMA UpdateManagerWrites ==
    ASSUME TypeInv, UpdateManager
    PROVE  /\ processed < recorded
           /\ Current.type = "storage:commit"
           /\ RevaluesRow(MANAGER, StoredManager(storage))
<1>1. ChainInv /\ DbInv /\ IndexerInv
  BY DEF TypeInv
<1>2. processed < recorded /\ Current.type = "storage:commit"
  BY <1>1 DEF UpdateManager, IndexerInv, IndexerReady
<1>3. Exists(storage, MANAGER)
  BY <1>1, <1>2, CurrentFacts DEF IndexerInv, IndexerReady
<1>4. StoredManager(storage) \in ValuesOf(MANAGER) /\ MANAGER \in Keys
  BY <1>1, RestoredMaps DEF DbInv, ValuesOf, Keys
<1> QED
  BY <1>1, <1>2, <1>3, <1>4, UpdateWrites DEF UpdateManager

\* A step is the indexer's, or leaves it and the table as they are.
LEMMA StepKinds ==
    ASSUME [Next]_vars
    PROVE  \/ /\ IndexerStep \/ IndexerCrash
              /\ UNCHANGED <<chainVars, clientVars, proverVars>>
           \/ UNCHANGED <<storage, recorded, processed, indexerVars>>
<1>1. CASE Users
  BY <1>1 DEF Users, dbVars
<1>2. CASE Network
  BY <1>2 DEF Network, IncludeTxn, dbVars
<1>3. CASE Indexing
  BY <1>3 DEF Indexing
<1>4. CASE Proving
  BY <1>4 DEF Proving, ProverStep, SetTransforming, dbVars
<1>5. CASE Crash
  <2>1. CASE IndexerCrash /\ UNCHANGED proverVars
    BY <1>5, <2>1 DEF Crash
  <2>2. CASE UNCHANGED <<dbVars, indexerVars>>
    BY <2>2 DEF dbVars
  <2> QED
    BY <1>5, <2>1, <2>2 DEF Crash
<1>6. CASE UNCHANGED vars
  BY <1>6 DEF vars, dbVars
<1> QED
  BY <1>1, <1>2, <1>3, <1>4, <1>5, <1>6 DEF Next

\* Two sequences, one after the other.
LEMMA ConcatFacts ==
    ASSUME NEW S, NEW es \in Seq(S), NEW fs \in Seq(S)
    PROVE  /\ Len(es) \in Nat /\ Len(fs) \in Nat
           /\ es \o fs \in Seq(S)
           /\ Len(es \o fs) = Len(es) + Len(fs)
           /\ \A n \in 1 .. Len(es) : (es \o fs)[n] = es[n]
           /\ \A n \in Len(es) + 1 .. Len(es \o fs) :
                 /\ n - Len(es) \in 1 .. Len(fs)
                 /\ (es \o fs)[n] = fs[n - Len(es)]
OBVIOUS

\* The log only ever grows.
LEMMA LogOnlyGrows ==
    ASSUME TypeInv, [Next]_vars
    PROVE  /\ archive \in Seq(Events) /\ archive' \in Seq(Events)
           /\ Len(archive) <= Len(archive')
           /\ \A n \in 1 .. Len(archive) : archive'[n] = archive[n]
<1>1. /\ archive \in Seq(Events)
      /\ \A t \in mempool : t.events \in Seq(Events)
  BY DEF TypeInv, ChainInv, ChainTypeOK, Transactions
<1>2. archive' = archive \/ \E t \in mempool : archive' = archive \o t.events
  <2>1. CASE Users
    BY <2>1 DEF Users, ClientStep, Prove, ProveFails, SendUser, chainVars
  <2>2. CASE Network
    BY <2>2 DEF Network, IncludeTxn, Include, Reject, Drop
  <2>3. CASE Indexing
    BY <2>3 DEF Indexing, chainVars
  <2>4. CASE Proving
    BY <2>4 DEF Proving, ProverStep, Send, SendFails, SetTransforming,
                CommitPendingXforms, chainVars
  <2>5. CASE Crash
    <3>1. UNCHANGED chainVars
      BY <2>5, Zenon DEF Crash
    <3> QED
      BY <3>1 DEF chainVars
  <2>6. CASE UNCHANGED vars
    BY <2>6 DEF vars, chainVars
  <2> QED
    BY <2>1, <2>2, <2>3, <2>4, <2>5, <2>6 DEF Next
<1>3. CASE archive' = archive
  BY <1>1, <1>3
<1>4. ASSUME NEW t \in mempool, archive' = archive \o t.events
      PROVE  /\ archive' \in Seq(Events)
             /\ Len(archive) <= Len(archive')
             /\ \A n \in 1 .. Len(archive) : archive'[n] = archive[n]
  BY <1>1, <1>4
<1> QED
  BY <1>1, <1>2, <1>3, <1>4

\* The log up to what is processed, and the event being processed, stay.
LEMMA LogKept ==
    ASSUME TypeInv, [Next]_vars
    PROVE  /\ \A n \in 1 .. recorded : archive'[n] = archive[n]
           /\ processed \in Nat /\ recorded \in Nat /\ processed <= recorded
           /\ UNCHANGED processed /\ processed < recorded => Current' = Current
<1>1. /\ processed \in Nat /\ recorded \in Nat
      /\ processed <= recorded /\ recorded <= Len(archive)
      /\ archive \in Seq(Events)
  BY DEF TypeInv, DbInv, DbTypeOK, IndexerInv, IndexerReady, ChainInv,
         ChainTypeOK
<1>2. \A n \in 1 .. recorded : archive'[n] = archive[n]
  BY <1>1, LogOnlyGrows
<1> QED
  BY <1>1, <1>2 DEF Current

-----------------------------------------------------------------------------
(***************************************************************************)
(* The pending rows share their commitment: it is the one storage has      *)
(* replayed the log to, so the commit event that follows settles them all. *)
(***************************************************************************)
PendingInv ==
    /\ \A k \in Pending(storage) :
          /\ processed >= 1
          /\ storage[k].commitmentPending = After(archive[processed])
    /\ \/ ixPc \in {"updateStores", "clearTransforming"}
       \/ ixPc = "markProcessed" /\ Current.type # "storage:pending"
       => Pending(storage) = {}

\* A row that is set is pending on the current commitment.
LEMMA PendingSet ==
    ASSUME TypeInv, LogInv, PendingInv, UNCHANGED <<chainVars, processed>>,
           processed < recorded, Current.type = "storage:pending",
           NEW k \in Keys, NEW v, NEW s,
           SetsRow(k, v, Current.commitmentPending, s),
           ixPc' \in {"setData", "markProcessed"}
    PROVE  PendingInv'
<1>1. /\ processed >= 1
      /\ Current.commitmentPending = After(archive[processed])
  BY CurrentLinked
<1>2. archive' = archive /\ processed' = processed
  BY DEF chainVars
<1>3. ASSUME NEW j \in Pending(storage')
      PROVE  storage'[j].commitmentPending = After(archive[processed])
  <2>1. CASE j = k
    BY <1>1, <2>1 DEF SetsRow
  <2>2. CASE j # k
    <3>1. j \in Pending(storage) /\ storage'[j] = storage[j]
      BY <2>2 DEF SetsRow, Pending, Exists
    <3> QED
      BY <3>1 DEF PendingInv
  <2> QED
    BY <2>1, <2>2
<1>4. Current'.type = "storage:pending"
  BY <1>2 DEF Current
<1>5. ixPc' \notin {"updateStores", "clearTransforming"}
  OBVIOUS
<1> QED
  BY <1>1, <1>2, <1>3, <1>4, <1>5 DEF PendingInv

\* Where rows keep their commitments, the invariant does.
LEMMA PendingKept ==
    ASSUME PendingInv, UNCHANGED <<chainVars, processed>>,
           \A k \in Pending(storage') :
              /\ k \in Pending(storage)
              /\ storage'[k].commitmentPending = storage[k].commitmentPending,
           ixPc' \in {"updateStores", "clearTransforming", "markProcessed"}
              => Pending(storage) = {}
    PROVE  PendingInv'
<1>1. archive' = archive /\ processed' = processed
  BY DEF chainVars
<1>2. ASSUME NEW k \in Pending(storage')
      PROVE  /\ processed' >= 1
             /\ storage'[k].commitmentPending = After(archive'[processed'])
  BY <1>1 DEF PendingInv
<1>3. ixPc' \in {"updateStores", "clearTransforming", "markProcessed"}
         => Pending(storage') = {}
  OBVIOUS
<1> QED
  BY <1>2, <1>3 DEF PendingInv

\* Every step of the indexer.
LEMMA PendingIndexer ==
    ASSUME TypeInv, LogInv, PendingInv, UNCHANGED chainVars,
           IndexerStep \/ IndexerCrash
    PROVE  PendingInv'
<1>1. archive' = archive /\ ChainInv /\ DbInv /\ IndexerInv
  BY DEF chainVars, TypeInv
<1>2. CASE Fetch \/ EndCycle \/ IndexerThrows \/ IndexerCrash
  <2>1. /\ UNCHANGED <<storage, processed>>
        /\ ixPc' \in {"fetch", "process"}
    BY <1>2 DEF Fetch, EndCycle, IndexerThrows, IndexerCrash, Restart, dbVars
  <2> QED
    BY <2>1, PendingKept
<1>3. CASE ProcessCreate
  <2>1. Pending(storage) = {}
    BY <1>1, <1>3, CurrentFacts DEF ProcessCreate, PendingInv
  <2>2. /\ storage' = CreateRow(storage, Current.key, Current.value)
        /\ DOMAIN storage = Keys
    BY <1>1, <1>3 DEF ProcessCreate, DbInv, DbTypeOK
  <2>3. \A k \in Pending(storage') : k \in Pending(storage)
    BY <2>2 DEF CreateRow, Pending, Exists
  <2> QED
    BY <1>3, <2>1, <2>3, PendingKept DEF ProcessCreate
<1>4. CASE ProcessPending
  <2>1. Current.key \in Keys
    BY <1>4, ProcessPendingWrites, PendingEventFacts
  <2> QED
    BY <1>4, <2>1, ProcessPendingWrites, PendingSet DEF ProcessPending
<1>5. CASE SetData
  <2>1. Current.meta[2] \in Keys
    BY <1>5, SetDataWrites, MetaFacts
  <2> QED
    BY <1>5, <2>1, SetDataWrites, PendingSet DEF SetData
<1>6. CASE ProcessCommit
  <2>1. /\ processed < recorded /\ Current.type = "storage:commit"
        /\ UNCHANGED processed /\ ixPc' = "updateStores"
    BY <1>6 DEF ProcessCommit
  <2>2. Current.commitmentPending = After(archive[processed])
    BY <2>1, CurrentLinked
  <2>3. ASSUME NEW k \in Pending(storage')
        PROVE  FALSE
    <3>1. k \in Keys /\ Exists(storage', k) /\ storage'[k].isPending
      BY DEF Pending
    <3>2. SettlesRows(Current.commitmentPending, Current.commitmentSettled)
      BY <1>6, ProcessCommitWrites
    <3>3. Exists(storage, k) /\ storage[k].isPending
      BY <3>1, <3>2 DEF SettlesRows
    <3>4. storage[k].commitmentPending = Current.commitmentPending
      BY <3>1, <3>3, <2>2 DEF PendingInv, Pending
    <3> QED
      BY <3>1, <3>2, <3>3, <3>4 DEF SettlesRows
  <2>4. Pending(storage') = {}
    BY <2>3
  <2> QED
    BY <2>4 DEF PendingInv
<1>7. CASE \E s \in Level2 : UpdateStore(s)
  <2>1. PICK s \in Level2 : UpdateStore(s)
    BY <1>7
  <2>2. /\ RevaluesRow(s, StoredKeyring(storage, s)) /\ Exists(storage, s)
        /\ UNCHANGED <<processed, ixPc>>
        /\ Pending(storage) = {}
    BY <2>1, UpdateStoreWrites DEF UpdateStore, PendingInv
  <2>3. \A k \in Pending(storage') : k \in Pending(storage)
    BY <2>2 DEF RevaluesRow, Pending, Exists
  <2> QED
    BY <2>2, <2>3, PendingKept
<1>8. CASE UpdateManager
  <2>1. /\ RevaluesRow(MANAGER, StoredManager(storage))
        /\ UNCHANGED processed
        /\ Pending(storage) = {}
        /\ Exists(storage, MANAGER)
    <3>1. processed >= 1
      BY <1>1, <1>8, UpdateManagerWrites, CurrentFacts
    <3> QED
      BY <1>1, <1>8, <3>1, UpdateManagerWrites
      DEF UpdateManager, PendingInv, IndexerInv, IndexerReady
  <2>2. \A k \in Pending(storage') : k \in Pending(storage)
    BY <2>1 DEF RevaluesRow, Pending, Exists
  <2> QED
    BY <1>8, <2>1, <2>2, PendingKept
<1>9. CASE ClearTransforming
  <2>1. UNCHANGED <<storage, processed>> /\ Pending(storage) = {}
    BY <1>9 DEF ClearTransforming, PendingInv
  <2> QED
    BY <2>1, PendingKept
<1>10. CASE MarkProcessed
  <2>1. /\ UNCHANGED storage /\ processed' = processed + 1
        /\ ixPc = "markProcessed" /\ ixPc' = "process"
        /\ processed < recorded /\ processed \in Nat
    BY <1>1, <1>10
    DEF MarkProcessed, IndexerInv, IndexerReady, DbInv, DbTypeOK
  <2>2. archive'[processed'] = Current
    BY <1>1, <2>1 DEF Current
  <2>3. CASE Current.type = "storage:pending"
    <3>1. After(Current) = After(archive[processed])
      BY <2>1, <2>3, CurrentLinked, AfterFacts
    <3> QED
      BY <2>1, <2>2, <3>1 DEF PendingInv
  <2>4. CASE Current.type # "storage:pending"
    BY <2>1, <2>4 DEF PendingInv
  <2> QED
    BY <2>3, <2>4
<1> QED
  BY <1>2, <1>3, <1>4, <1>5, <1>6, <1>7, <1>8, <1>9, <1>10 DEF IndexerStep

\* Every step of the system.
LEMMA PendingInvStep == TypeInv /\ LogInv /\ PendingInv /\ [Next]_vars => PendingInv'
<1> SUFFICES ASSUME TypeInv, LogInv, PendingInv, [Next]_vars
             PROVE  PendingInv'
  OBVIOUS
<1>1. CASE /\ IndexerStep \/ IndexerCrash
           /\ UNCHANGED <<chainVars, clientVars, proverVars>>
  BY <1>1, PendingIndexer
<1>2. CASE UNCHANGED <<storage, recorded, processed, indexerVars>>
  <2>1. /\ Pending(storage') = Pending(storage)
        /\ processed' = processed /\ ixPc' = ixPc /\ storage' = storage
    BY <1>2 DEF indexerVars
  <2>2. processed >= 1 => archive'[processed] = archive[processed]
    BY LogKept
  <2>3. ixPc = "markProcessed" => Current' = Current
    BY <2>1, LogKept DEF TypeInv, IndexerInv, IndexerReady
  <2> QED
    BY <2>1, <2>2, <2>3 DEF PendingInv
<1> QED
  BY <1>1, <1>2, StepKinds

LEMMA PendingInvInit == Init => PendingInv
<1> SUFFICES ASSUME Init PROVE PendingInv
  OBVIOUS
<1>1. Pending(storage) = {} /\ ixPc = "fetch"
  BY DEF Init, DbInit, IndexerInit, Pending, Exists
<1> QED
  BY <1>1 DEF PendingInv

LEMMA PendingInvariant == Spec => []PendingInv
BY TypeInvariant, LogInvariant, PendingInvInit, PendingInvStep, PTL DEF Spec

\* Whatever is pending was proved on one commitment, however the indexer is
\* stopped in the middle of an event and whoever requests what meanwhile: the
\* prover may take the commitment of any pending row.
THEOREM PendingAlwaysShare == Spec => []PendingShareCommitment
<1>1. PendingInv => PendingShareCommitment
  BY DEF PendingInv, PendingShareCommitment
<1> QED
  BY <1>1, PendingInvariant, PTL

-----------------------------------------------------------------------------
(***************************************************************************)
(* Commits.  A prover that does not crash has one commit under way at      *)
(* most: in the mempool, or in the log and not yet replayed.  What keeps   *)
(* it from making another is isTransforming, or that it has still to set   *)
(* it, or, once the indexer has cleared it, that no row is pending.        *)
(***************************************************************************)
TxnKinds ==
    \A t \in mempool :
        /\ t.origin = "prover" =>
              Len(t.events) = 1 /\ t.events[1].type = "storage:commit"
        /\ t.origin = "user" =>
              \A n \in 1 .. Len(t.events) : t.events[n].type = "storage:pending"

\* The commit events that storage has yet to replay.
CommitsAhead ==
    {n \in processed + 1 .. Len(archive) : archive[n].type = "storage:commit"}

Underway == CommitTxns # {} \/ CommitsAhead # {}

Held == isTransforming \/ pvPc = "setTransforming"

OneCommit ==
    /\ \A s, t \in CommitTxns : s = t
    /\ \A m, n \in CommitsAhead : m = n
    /\ CommitTxns = {} \/ CommitsAhead = {}
    /\ pvPc \in {"restoreStores", "send"} => ~Underway
    /\ CommitTxns # {} => Held
    /\ \A n \in CommitsAhead :
          Held \/ (n = processed + 1 /\ Pending(storage) = {})

CommitInv == TxnKinds /\ OneCommit

\* Sent transactions that become no more keep their kinds.
LEMMA TxnKindsKept ==
    ASSUME TxnKinds, mempool' \subseteq mempool
    PROVE  TxnKinds'
BY DEF TxnKinds

\* A user's transaction makes no commit.
LEMMA CommitUsers ==
    ASSUME TypeInv, CommitInv, Users
    PROVE  CommitInv'
<1>1. PICK u \in Clients : ClientStep(u)
  BY DEF Users
<1>2. UNCHANGED <<archive, storage, processed, isTransforming, pvPc>>
  <2>1. UNCHANGED <<storage, processed, isTransforming, pvPc>>
    BY DEF Users, dbVars, proverVars
  <2>2. UNCHANGED archive
    BY <1>1 DEF ClientStep, Prove, ProveFails, SendUser, chainVars
  <2> QED
    BY <2>1, <2>2
<1>3. TxnKinds' /\ CommitTxns' = CommitTxns
  <2>1. CASE Prove(u)
    <3>1. client[u].method \in {"addAuthNFactor", "delAuthNFactor"}
              => client[u].factor \in Enrols[client[u].id]
      BY <2>1 DEF Prove, TypeInv, ClientInv, ClientReady
    <3>2. Requests(Emits(client[u]), commitment)
      BY <2>1, <3>1, MethodRequests
      DEF Prove, TypeInv, ClientInv, ChainInv, ChainTypeOK
    <3> DEFINE t == [origin |-> "user", serial |-> sends + 1,
                     pre |-> commitment, post |-> commitment,
                     events |-> Emits(client[u])]
    <3>3. mempool' = mempool \cup {t}
      BY <2>1 DEF Prove, SendUser
    <3>4. /\ t.origin = "user"
          /\ \A n \in 1 .. Len(t.events) : t.events[n].type = "storage:pending"
      BY <3>2 DEF Requests
    <3> HIDE DEF t
    <3> QED
      BY <3>3, <3>4 DEF CommitInv, TxnKinds, CommitTxns
  <2>2. CASE UNCHANGED chainVars
    BY <2>2, TxnKindsKept DEF chainVars, CommitTxns, CommitInv
  <2> QED
    BY <1>1, <2>1, <2>2 DEF ClientStep, ProveFails
<1>4. CommitsAhead' = CommitsAhead
  BY <1>2 DEF CommitsAhead
<1>5. Pending(storage') = Pending(storage)
  BY <1>2
<1> QED
  BY <1>2, <1>3, <1>4, <1>5 DEF CommitInv, OneCommit, Underway, Held

\* A user's transaction in a block adds no commit event.
LEMMA CommitIncludeUser ==
    ASSUME TypeInv, CommitInv, NEW t \in mempool, t.origin = "user",
           Include(t), UNCHANGED <<dbVars, proverVars>>
    PROVE  CommitInv'
<1>1. /\ archive \in Seq(Events) /\ t.events \in Seq(Events)
      /\ archive' = archive \o t.events
      /\ mempool' = mempool \ {t}
      /\ processed \in Nat /\ processed <= Len(archive)
  BY DEF TypeInv, ChainInv, ChainTypeOK, Transactions, Include, DbInv,
         DbTypeOK, IndexerInv, IndexerReady
<1>2. CommitsAhead' = CommitsAhead
  <2>1. processed' = processed
    BY DEF dbVars
  <2>2. /\ Len(archive) \in Nat /\ Len(t.events) \in Nat
        /\ Len(archive') = Len(archive) + Len(t.events)
        /\ \A n \in 1 .. Len(archive) : archive'[n] = archive[n]
        /\ \A n \in Len(archive) + 1 .. Len(archive') :
              /\ n - Len(archive) \in 1 .. Len(t.events)
              /\ archive'[n] = t.events[n - Len(archive)]
    BY <1>1, ConcatFacts
  <2>3. \A n \in Len(archive) + 1 .. Len(archive') :
           archive'[n].type = "storage:pending"
    BY <2>2 DEF CommitInv, TxnKinds
  <2>5. ASSUME NEW n \in CommitsAhead'
        PROVE  n \in CommitsAhead
    <3>1. /\ n \in processed + 1 .. Len(archive')
          /\ archive'[n].type = "storage:commit"
      BY <2>1 DEF CommitsAhead
    <3>2. n <= Len(archive)
      BY <1>1, <2>2, <2>3, <3>1
    <3> QED
      BY <1>1, <2>2, <3>1, <3>2 DEF CommitsAhead
  <2>6. ASSUME NEW n \in CommitsAhead
        PROVE  n \in CommitsAhead'
    <3>1. /\ n \in processed + 1 .. Len(archive)
          /\ archive[n].type = "storage:commit"
      BY DEF CommitsAhead
    <3>2. n \in 1 .. Len(archive)
      BY <1>1, <3>1
    <3>3. /\ archive'[n].type = "storage:commit"
          /\ n \in processed + 1 .. Len(archive')
      BY <2>2, <3>1, <3>2
    <3> QED
      BY <2>1, <3>3 DEF CommitsAhead
  <2> QED
    BY <2>5, <2>6
<1>3. CommitTxns' = CommitTxns
  BY <1>1 DEF CommitTxns
<1>4. TxnKinds'
  BY <1>1, TxnKindsKept DEF CommitInv
<1>5. /\ isTransforming' = isTransforming /\ pvPc' = pvPc
      /\ processed' = processed /\ Pending(storage') = Pending(storage)
  BY DEF dbVars, proverVars
<1> QED
  BY <1>2, <1>3, <1>4, <1>5 DEF CommitInv, OneCommit, Underway, Held

\* The commit in a block is the one storage has yet to replay.
LEMMA CommitIncludeProver ==
    ASSUME TypeInv, CommitInv, NEW t \in CommitTxns,
           Include(t), UNCHANGED <<dbVars, proverVars>>
    PROVE  CommitInv'
<1>1. /\ t \in mempool /\ t.origin = "prover"
      /\ archive \in Seq(Events) /\ t.events \in Seq(Events)
      /\ archive' = archive \o t.events
      /\ mempool' = mempool \ {t}
      /\ processed \in Nat /\ processed <= Len(archive)
      /\ Len(t.events) = 1
  BY DEF TypeInv, ChainInv, ChainTypeOK, Transactions, Include, DbInv,
         DbTypeOK, IndexerInv, IndexerReady, CommitTxns, CommitInv, TxnKinds
<1>2. CommitsAhead = {} /\ Held
  BY DEF CommitInv, OneCommit
<1>3. CommitTxns' = {}
  BY <1>1 DEF CommitInv, OneCommit, CommitTxns
<1>4. \A n \in CommitsAhead' : n = Len(archive) + 1
  <2> SUFFICES ASSUME NEW n \in CommitsAhead', n # Len(archive) + 1
               PROVE  FALSE
    OBVIOUS
  <2>1. n \in processed + 1 .. Len(archive') /\ archive'[n].type = "storage:commit"
    BY DEF CommitsAhead, dbVars
  <2>2. Len(archive') = Len(archive) + 1
    <3>1. Len(archive') = Len(archive) + Len(t.events)
      BY <1>1, ConcatFacts
    <3> QED
      BY <1>1, <3>1
  <2>3. n \in processed + 1 .. Len(archive) /\ archive'[n] = archive[n]
    BY <1>1, <2>1, <2>2
  <2> QED
    BY <1>2, <2>1, <2>3 DEF CommitsAhead
<1>5. TxnKinds'
  BY <1>1, TxnKindsKept DEF CommitInv
<1>6. isTransforming' = isTransforming /\ pvPc' = pvPc
  BY DEF dbVars, proverVars
<1>7. Held' /\ pvPc' \notin {"restoreStores", "send"}
  BY <1>2, <1>6 DEF Held, CommitInv, OneCommit, Underway
<1> QED
  BY <1>3, <1>4, <1>5, <1>7 DEF CommitInv, OneCommit, Underway

\* The indexer replays commits, and clears the flag in the middle of one.
LEMMA CommitIndexer ==
    ASSUME TypeInv, PendingInv, CommitInv, UNCHANGED <<chainVars, proverVars>>,
           IndexerStep \/ IndexerCrash
    PROVE  CommitInv'
<1>1. /\ archive' = archive /\ mempool' = mempool /\ pvPc' = pvPc
      /\ ChainInv /\ DbInv /\ IndexerInv
      /\ archive \in Seq(Events)
  BY DEF chainVars, proverVars, TypeInv, ChainInv, ChainTypeOK
<1>2. CommitTxns' = CommitTxns /\ TxnKinds'
  BY <1>1, TxnKindsKept DEF CommitTxns, CommitInv
<1>3. CASE MarkProcessed
  <2>1. /\ isTransforming' = isTransforming /\ storage' = storage
        /\ processed' = processed + 1 /\ processed \in Nat
    BY <1>1, <1>3 DEF MarkProcessed, DbInv, DbTypeOK
  <2>2. \A n \in CommitsAhead' : n \in CommitsAhead /\ n # processed + 1
    BY <1>1, <2>1 DEF CommitsAhead
  <2> QED
    BY <1>1, <1>2, <2>1, <2>2 DEF CommitInv, OneCommit, Underway, Held
<1>4. CASE ClearTransforming
  <2>1. /\ processed < recorded /\ Current.type = "storage:commit"
        /\ UNCHANGED <<storage, processed>>
        /\ Pending(storage) = {}
    BY <1>1, <1>4
    DEF ClearTransforming, IndexerInv, IndexerReady, PendingInv
  <2>2. CommitsAhead' = CommitsAhead
    BY <1>1, <2>1 DEF CommitsAhead
  <2>3. processed + 1 \in CommitsAhead
    <3>1. processed + 1 \in 1 .. Len(archive) /\ processed \in Nat
      BY <1>1, <2>1, CurrentFacts
    <3> QED
      BY <2>1, <3>1 DEF CommitsAhead, Current
  <2> QED
    BY <1>1, <1>2, <2>1, <2>2, <2>3 DEF CommitInv, OneCommit, Underway, Held
<1>5. ASSUME UNCHANGED <<processed, isTransforming>>,
             Pending(storage') \subseteq Pending(storage)
      PROVE  CommitInv'
  <2>1. CommitsAhead' = CommitsAhead
    BY <1>1, <1>5 DEF CommitsAhead
  <2> QED
    BY <1>1, <1>2, <1>5, <2>1 DEF CommitInv, OneCommit, Underway, Held
<1>6. CASE Fetch \/ EndCycle \/ IndexerThrows \/ IndexerCrash
  BY <1>5, <1>6
  DEF Fetch, EndCycle, IndexerThrows, IndexerCrash, Restart, dbVars
<1>7. CASE ProcessCreate
  <2>1. /\ storage' = CreateRow(storage, Current.key, Current.value)
        /\ DOMAIN storage = Keys
        /\ UNCHANGED <<processed, isTransforming>>
    BY <1>1, <1>7 DEF ProcessCreate, DbInv, DbTypeOK
  <2>2. Pending(storage') \subseteq Pending(storage)
    BY <2>1 DEF CreateRow, Pending, Exists
  <2> QED
    BY <1>5, <2>1, <2>2
<1>8. CASE ProcessPending \/ SetData
  <2>1. /\ Current.type = "storage:pending" /\ processed < recorded
        /\ UNCHANGED <<processed, isTransforming>>
    BY <1>8, SetDataWrites DEF ProcessPending, SetData
  <2>2. CommitsAhead' = CommitsAhead
    BY <1>1, <2>1 DEF CommitsAhead
  <2>3. processed + 1 \notin CommitsAhead
    BY <2>1 DEF CommitsAhead, Current
  <2> QED
    BY <1>1, <1>2, <2>1, <2>2, <2>3 DEF CommitInv, OneCommit, Underway, Held
<1>9. CASE ProcessCommit
  <2>1. /\ SettlesRows(Current.commitmentPending, Current.commitmentSettled)
        /\ UNCHANGED <<processed, isTransforming>>
    BY <1>9, ProcessCommitWrites DEF ProcessCommit
  <2>2. ASSUME NEW k \in Pending(storage')
        PROVE  k \in Pending(storage)
    BY <2>1 DEF SettlesRows, Pending
  <2> QED
    BY <1>5, <2>1, <2>2
<1>10. CASE \E s \in Level2 : UpdateStore(s)
  <2>1. PICK s \in Level2 : UpdateStore(s)
    BY <1>10
  <2>2. /\ RevaluesRow(s, StoredKeyring(storage, s)) /\ Exists(storage, s)
        /\ UNCHANGED <<processed, isTransforming>>
    BY <2>1, UpdateStoreWrites DEF UpdateStore
  <2>3. Pending(storage') \subseteq Pending(storage)
    BY <2>2 DEF RevaluesRow, Pending, Exists
  <2> QED
    BY <1>5, <2>2, <2>3
<1>11. CASE UpdateManager
  <2>1. /\ RevaluesRow(MANAGER, StoredManager(storage))
        /\ UNCHANGED <<processed, isTransforming>>
        /\ Exists(storage, MANAGER)
    <3>1. processed >= 1
      BY <1>1, <1>11, UpdateManagerWrites, CurrentFacts
    <3> QED
      BY <1>1, <1>11, <3>1, UpdateManagerWrites
      DEF UpdateManager, IndexerInv, IndexerReady
  <2>2. Pending(storage') \subseteq Pending(storage)
    BY <2>1 DEF RevaluesRow, Pending, Exists
  <2> QED
    BY <1>5, <2>1, <2>2
<1> QED
  BY <1>3, <1>4, <1>6, <1>7, <1>8, <1>9, <1>10, <1>11 DEF IndexerStep

\* The prover reads rows only when no commit is under way.
LEMMA CommitProver ==
    ASSUME TypeInv, CommitInv, ProverStep, UNCHANGED indexerVars
    PROVE  CommitInv'
<1>1. /\ archive' = archive /\ UNCHANGED <<storage, recorded, processed>>
      /\ ChainInv /\ DbInv /\ ProverTypeOK
  <2>1. UNCHANGED <<storage, recorded, processed>>
    BY DEF ProverStep, SetTransforming, dbVars
  <2>2. archive' = archive
    BY DEF ProverStep, Send, SendFails, CommitPendingXforms, chainVars
  <2> QED
    BY <2>1, <2>2 DEF TypeInv
<1>2. CommitsAhead' = CommitsAhead /\ Pending(storage') = Pending(storage)
  BY <1>1 DEF CommitsAhead
<1>3. CASE Send
  <2>1. /\ pvPc = "send" /\ pvPc' = "setTransforming"
        /\ CommitTxns = {} /\ CommitsAhead = {}
    BY <1>3 DEF Send, CommitInv, OneCommit, Underway
  <2> DEFINE e == EventStorageCommit(pvPending, pvSettled)
             t == [origin |-> "prover", serial |-> commits + 1,
                   pre |-> commitment, post |-> pvSettled, events |-> <<e>>]
  <2>2. mempool' = mempool \cup {t}
    BY <1>3 DEF Send, CommitPendingXforms
  <2>3. e.type = "storage:commit"
    BY DEF EventStorageCommit
  <2> HIDE DEF e
  <2>4. /\ t.origin = "prover" /\ Len(t.events) = 1
        /\ t.events[1].type = "storage:commit"
    BY <2>3
  <2> HIDE DEF t
  <2>5. TxnKinds'
    BY <2>2, <2>4 DEF CommitInv, TxnKinds
  <2>6. CommitTxns' = {t}
    BY <2>1, <2>2, <2>4 DEF CommitTxns
  <2> QED
    BY <1>2, <2>1, <2>5, <2>6 DEF CommitInv, OneCommit, Underway, Held
<1>4. CASE ~Send
  <2>1. UNCHANGED chainVars
    BY <1>4 DEF ProverStep, SendFails
  <2>2. CommitTxns' = CommitTxns /\ TxnKinds'
    BY <2>1, TxnKindsKept DEF chainVars, CommitTxns, CommitInv
  <2>3. CASE Query /\ UNCHANGED dbVars
    <3>1. ~isTransforming /\ Pending(storage) # {} /\ pvPc = "query"
          /\ pvPc' = "restoreStores" /\ isTransforming' = isTransforming
      BY <2>3 DEF Query, dbVars
    <3>2. ~Underway
      BY <3>1 DEF CommitInv, OneCommit, Underway, Held
    <3> QED
      BY <1>2, <2>2, <3>2 DEF CommitInv, OneCommit, Underway
  <2>4. CASE UNCHANGED dbVars /\ ~Query /\ ~SetTransforming
    <3>1. /\ pvPc # "setTransforming"
          /\ pvPc' \in {"restoreStores", "send"} =>
                pvPc \in {"restoreStores", "send"}
      <4>1. CASE \E s \in Level2 : RestoreStore(s)
        BY <4>1 DEF RestoreStore
      <4>2. CASE ProverRestoreManager
        BY <4>2 DEF ProverRestoreManager
      <4>3. CASE Waited
        BY <4>3 DEF Waited, Rest
      <4>4. CASE SendFails
        BY <4>4 DEF SendFails, Rest
      <4> QED
        BY <1>4, <2>4, <4>1, <4>2, <4>3, <4>4 DEF ProverStep
    <3>2. isTransforming' = isTransforming
      BY <2>4 DEF dbVars
    <3> QED
      BY <1>1, <1>2, <2>2, <3>1, <3>2
      DEF CommitInv, OneCommit, Underway, Held
  <2>5. CASE SetTransforming
    <3>1. isTransforming' = TRUE /\ pvPc' = "wait"
      BY <2>5 DEF SetTransforming
    <3> QED
      BY <1>2, <2>2, <3>1 DEF CommitInv, OneCommit, Underway, Held
  <2> QED
    BY <1>4, <2>3, <2>4, <2>5 DEF ProverStep
<1> QED
  BY <1>3, <1>4

\* Every step of a system whose prover does not crash.
LEMMA CommitInvStep ==
    ASSUME MaxProverCrashes = 0
    PROVE  TypeInv /\ PendingInv /\ CommitInv /\ [Next]_vars => CommitInv'
<1> SUFFICES ASSUME TypeInv, PendingInv, CommitInv, [Next]_vars
             PROVE  CommitInv'
  OBVIOUS
<1>1. CASE Users
  BY <1>1, CommitUsers
<1>2. CASE Network
  <2>1. UNCHANGED <<dbVars, proverVars>>
    BY <1>2 DEF Network, IncludeTxn
  <2>2. ASSUME NEW t \in mempool, Include(t)
        PROVE  CommitInv'
    <3>1. t.origin \in {"user", "prover"}
      BY DEF TypeInv, ChainInv, ChainTypeOK, Transactions
    <3> QED
      BY <2>1, <2>2, <3>1, CommitIncludeUser, CommitIncludeProver
      DEF CommitTxns
  <2>3. ASSUME NEW t \in mempool, Reject(t) \/ Drop(t)
        PROVE  CommitInv'
    <3>1. mempool' = mempool \ {t} /\ archive' = archive
      BY <2>3 DEF Reject, Drop
    <3>2. /\ CommitTxns' \subseteq CommitTxns /\ TxnKinds'
      BY <3>1, TxnKindsKept DEF CommitTxns, CommitInv
    <3>3. CommitsAhead' = CommitsAhead /\ Pending(storage') = Pending(storage)
          /\ isTransforming' = isTransforming /\ pvPc' = pvPc
          /\ processed' = processed
      BY <2>1, <3>1 DEF CommitsAhead, dbVars, proverVars
    <3> QED
      BY <3>2, <3>3 DEF CommitInv, OneCommit, Underway, Held
  <2> QED
    BY <1>2, <2>2, <2>3 DEF Network, IncludeTxn
<1>3. CASE Indexing
  BY <1>3, CommitIndexer DEF Indexing
<1>4. CASE Proving
  BY <1>4, CommitProver DEF Proving
<1>5. CASE Crash
  <2>1. crashes.prover \in 0 .. 0
    BY DEF TypeInv, CrashesOK
  <2>2. IndexerCrash /\ UNCHANGED proverVars
    BY <1>5, <2>1 DEF Crash
  <2>3. UNCHANGED chainVars
    BY <1>5, Zenon DEF Crash
  <2> QED
    BY <2>2, <2>3, CommitIndexer
<1>6. CASE UNCHANGED vars
  BY <1>6
  DEF vars, chainVars, dbVars, proverVars, CommitInv, TxnKinds, OneCommit,
      Underway, Held, CommitTxns, CommitsAhead
<1> QED
  BY <1>1, <1>2, <1>3, <1>4, <1>5, <1>6 DEF Next

LEMMA CommitInvInit == Init => CommitInv
<1> SUFFICES ASSUME Init PROVE CommitInv
  OBVIOUS
<1> DEFINE e == EventStorageCreate(MANAGER, NoIdentities)
<1>1. e.type = "storage:create"
  BY DEF EventStorageCreate
<1>2. /\ archive = <<e>> /\ mempool = {} /\ processed = 0 /\ pvPc = "query"
  BY DEF Init, ChainInit, DbInit, ProverInit
<1> HIDE DEF e
<1>3. CommitTxns = {} /\ CommitsAhead = {}
  BY <1>1, <1>2 DEF CommitTxns, CommitsAhead
<1> QED
  BY <1>2, <1>3 DEF CommitInv, TxnKinds, OneCommit, Underway

\* A prover that does not crash never has two transactions under way, whatever
\* the network drops, whenever the indexer stops, and however late the flag is
\* set: the second would settle the same rows once more.
THEOREM NeverTwoCommits ==
    ASSUME MaxProverCrashes = 0
    PROVE  Spec => []NoDuplicateCommit
<1>1. CommitInv => NoDuplicateCommit
  BY DEF CommitInv, OneCommit, NoDuplicateCommit
<1>2. TypeInv /\ PendingInv /\ CommitInv /\ [Next]_vars => CommitInv'
  BY CommitInvStep
<1> QED
  BY <1>1, <1>2, TypeInvariant, PendingInvariant, CommitInvInit, PTL DEF Spec

-----------------------------------------------------------------------------
(***************************************************************************)
(* Rows and their stores.  Rows are found by key alone, so a row is where  *)
(* its request wanted it only if no two owners use the same secret; and    *)
(* only the methods the web app calls emit events whose meta fields are    *)
(* empty exactly when they hold no data.                                   *)
(***************************************************************************)
Owned(i) == {OpKey[i]} \cup Enrols[i]

OwnSecretsOnly == \A i, j \in Ids : i # j => Owned(i) \cap Owned(j) = {}

WebMethodsOnly == Methods \subseteq {"addIdentity", "addAuthNFactor"}

\* What the web app's methods emit.
IdentityRequest(e) ==
    /\ e.id = MANAGER
    /\ e.key \in Ids
    /\ e.value = FirstKeyring(e.key)
    /\ e.meta[1] = FirstKeyring(e.key)
    /\ e.meta[2] = OpKey[e.key]
    /\ e.meta[3] = PRESENT

FactorRequest(e) ==
    /\ e.id \in Ids
    /\ e.key \in Enrols[e.id]
    /\ e.value = PRESENT
    /\ e.meta[1] = PROTOCOL

WebEvent(e) ==
    e.type = "storage:pending" => IdentityRequest(e) \/ FactorRequest(e)

WebInv ==
    /\ \A u \in Clients : client[u].pc # "idle" => client[u].method \in Methods
    /\ \A n \in 1 .. Len(archive) : WebEvent(archive[n])
    /\ \A t \in mempool : \A n \in 1 .. Len(t.events) : WebEvent(t.events[n])

\* The rows are those of the manager, of identities and of factors, and a
\* factor is in the store of an owner of it.
RowsOwned ==
    /\ \A k \in Keys : Exists(storage, k) => k \in Level2 \cup {MANAGER}
    /\ \A f \in Factors : Exists(storage, f) =>
          /\ storage[f].storageKey \in Ids
          /\ f \in Owned(storage[f].storageKey)
          /\ storage[f].value = PRESENT
    /\ ixStores \subseteq Ids

\* What has been processed has its rows.
RowsFor(st, e) ==
    e.type = "storage:pending" =>
        /\ Exists(st, e.key)
        /\ HasData(e) => Exists(st, e.meta[2])

RowsKept ==
    /\ \A n \in 1 .. processed : RowsFor(storage, archive[n])
    /\ ixPc = "markProcessed" => RowsFor(storage, Current)

OwnedInv == WebInv /\ RowsOwned /\ RowsKept

\* The two kinds of requests of the web app.
LEMMA RequestKinds ==
    ASSUME NEW e, IdentityRequest(e) \/ FactorRequest(e)
    PROVE  /\ e.id = MANAGER => IdentityRequest(e) /\ e.key \notin Factors
           /\ e.id # MANAGER => FactorRequest(e) /\ e.key \in Factors
           /\ HasData(e) <=> e.id = MANAGER
           /\ IdentityRequest(e) => OpKey[e.key] \in Factors
BY KeysAssumption, FieldAssumption
DEF IdentityRequest, FactorRequest, HasData

\* The web app's methods emit such events.
LEMMA MethodEvents ==
    ASSUME ClientInv, NEW u \in Clients, client[u].pc = "prove",
           client[u].method \in {"addIdentity", "addAuthNFactor"},
           NEW n \in 1 .. Len(Emits(client[u]))
    PROVE  WebEvent(Emits(client[u])[n])
<1> DEFINE p == client[u]
<1>1. p.id \in Ids /\ (p.method = "addAuthNFactor" => p.factor \in Enrols[p.id])
  BY DEF ClientInv, ClientTypeOK, ClientReady, Preparing, Idle
<1> HIDE DEF p
<1>2. CASE p.method = "addIdentity"
  <2> DEFINE e == EventStoragePending(commitment, MANAGER, p.id,
                     FirstKeyring(p.id), <<FirstKeyring(p.id), OpKey[p.id], PRESENT>>)
  <2>1. Emits(p) = <<e>>
    BY <1>2 DEF Emits, AddIdentityEvents
  <2>2. WebEvent(e)
    BY <1>1 DEF WebEvent, IdentityRequest, EventStoragePending
  <2> HIDE DEF e
  <2> QED
    BY <2>1, <2>2 DEF p
<1>3. CASE p.method = "addAuthNFactor"
  <2> DEFINE e == EventStoragePending(commitment, p.id, p.factor, PRESENT,
                                      <<PROTOCOL, PROTOCOL, EMPTY>>)
  <2>1. Emits(p) = <<e>>
    BY <1>3 DEF Emits, AddAuthNFactorEvents
  <2>2. WebEvent(e)
    BY <1>1, <1>3 DEF WebEvent, FactorRequest, EventStoragePending
  <2> HIDE DEF e
  <2> QED
    BY <2>1, <2>2 DEF p
<1> QED
  BY <1>2, <1>3 DEF p

\* Every step of the system emits such events only.
LEMMA WebInvStep ==
    ASSUME WebMethodsOnly
    PROVE  TypeInv /\ WebInv /\ [Next]_vars => WebInv'
<1> SUFFICES ASSUME TypeInv, WebInv, [Next]_vars PROVE WebInv'
  OBVIOUS
<1>1. CASE Users
  <2>1. PICK u \in Clients : ClientStep(u)
    BY <1>1 DEF Users
  <2>2. client \in [Clients -> {Idle} \cup Preparing] /\ ClientInv
    BY DEF TypeInv, ClientInv, ClientTypeOK
  <2>3. UNCHANGED archive
    BY <2>1 DEF ClientStep, Prove, ProveFails, SendUser, chainVars
  <2>4. \A v \in Clients : client'[v].pc # "idle" => client'[v].method \in Methods
    <3>1. ASSUME NEW i \in Ids, NEW m \in Methods,
                 \/ BeginIdentity(u, m, i)
                 \/ \E f \in Enrols[i] : BeginFactor(u, m, i, f)
          PROVE  \A v \in Clients :
                    client'[v].pc # "idle" => client'[v].method \in Methods
      BY <2>2, <3>1 DEF BeginIdentity, BeginFactor, WebInv
    <3>2. CASE RestoreManager(u)
      <4>1. client[u] \in Preparing
        BY <2>2, <3>2 DEF RestoreManager, Idle
      <4> QED
        BY <2>2, <3>2, <4>1 DEF RestoreManager, WebInv, Preparing
    <3>3. CASE client' = [client EXCEPT ![u] = Idle]
      BY <2>2, <3>3 DEF WebInv, Idle
    <3> QED
      BY <2>1, <3>1, <3>2, <3>3 DEF ClientStep, Prove, ProveFails
  <2>5. \A t \in mempool' : \A n \in 1 .. Len(t.events) : WebEvent(t.events[n])
    <3>1. CASE Prove(u)
      <4>1. client[u].method \in {"addIdentity", "addAuthNFactor"}
        BY <3>1 DEF Prove, WebInv, WebMethodsOnly
      <4>2. \A n \in 1 .. Len(Emits(client[u])) : WebEvent(Emits(client[u])[n])
        BY <2>2, <3>1, <4>1, MethodEvents DEF Prove
      <4> DEFINE t == [origin |-> "user", serial |-> sends + 1,
                       pre |-> commitment, post |-> commitment,
                       events |-> Emits(client[u])]
      <4>3. mempool' = mempool \cup {t}
        BY <3>1 DEF Prove, SendUser
      <4>4. \A n \in 1 .. Len(t.events) : WebEvent(t.events[n])
        BY <4>2
      <4> HIDE DEF t
      <4> QED
        BY <4>3, <4>4 DEF WebInv
    <3>2. CASE UNCHANGED chainVars
      BY <3>2 DEF chainVars, WebInv
    <3> QED
      BY <2>1, <3>1, <3>2 DEF ClientStep, ProveFails
  <2> QED
    BY <2>3, <2>4, <2>5 DEF WebInv
<1>2. CASE Network
  <2>1. client' = client /\ mempool' \subseteq mempool
    BY <1>2 DEF Network, IncludeTxn, Include, Reject, Drop, clientVars
  <2>2. ASSUME NEW t \in mempool, Include(t), NEW n \in 1 .. Len(archive')
        PROVE  WebEvent(archive'[n])
    <3>1. /\ archive \in Seq(Events) /\ t.events \in Seq(Events)
          /\ archive' = archive \o t.events
      BY <2>2 DEF TypeInv, ChainInv, ChainTypeOK, Transactions, Include
    <3>2. /\ Len(archive) \in Nat /\ Len(t.events) \in Nat
          /\ Len(archive') = Len(archive) + Len(t.events)
          /\ n <= Len(archive) => archive'[n] = archive[n]
          /\ n > Len(archive) => /\ n - Len(archive) \in 1 .. Len(t.events)
                                 /\ archive'[n] = t.events[n - Len(archive)]
      BY <3>1, ConcatFacts
    <3> QED
      BY <3>2 DEF WebInv
  <2>3. \/ \E t \in mempool : Include(t)
        \/ UNCHANGED archive
    BY <1>2 DEF Network, IncludeTxn, Reject, Drop
  <2> QED
    BY <2>1, <2>2, <2>3 DEF WebInv
<1>3. CASE Proving
  <2>1. client' = client /\ archive' = archive
    BY <1>3
    DEF Proving, ProverStep, Send, SendFails, CommitPendingXforms, chainVars,
        clientVars
  <2>2. CASE Send
    <3> DEFINE e == EventStorageCommit(pvPending, pvSettled)
               t == [origin |-> "prover", serial |-> commits + 1,
                     pre |-> commitment, post |-> pvSettled, events |-> <<e>>]
    <3>1. mempool' = mempool \cup {t}
      BY <2>2 DEF Send, CommitPendingXforms
    <3>2. WebEvent(e)
      BY DEF EventStorageCommit, WebEvent
    <3> HIDE DEF e
    <3>3. \A n \in 1 .. Len(t.events) : WebEvent(t.events[n])
      BY <3>2
    <3> HIDE DEF t
    <3> QED
      BY <2>1, <3>1, <3>3 DEF WebInv
  <2>3. CASE UNCHANGED chainVars
    BY <2>1, <2>3 DEF chainVars, WebInv
  <2> QED
    BY <1>3, <2>2, <2>3 DEF Proving, ProverStep, SendFails
<1>4. CASE Indexing \/ Crash \/ UNCHANGED vars
  <2>1. UNCHANGED <<chainVars, client>>
    <3>1. CASE Indexing
      BY <3>1 DEF Indexing, clientVars
    <3>2. CASE Crash
      BY <3>2, Zenon DEF Crash, clientVars
    <3>3. CASE UNCHANGED vars
      BY <3>3 DEF vars, clientVars
    <3> QED
      BY <1>4, <3>1, <3>2, <3>3
  <2> QED
    BY <2>1 DEF WebInv, chainVars
<1> QED
  BY <1>1, <1>2, <1>3, <1>4 DEF Next

\* The step of the deployment's event creates the manager's row.
LEMMA ProcessCreateWrites ==
    ASSUME TypeInv, ProcessCreate
    PROVE  /\ processed = 0
           /\ \A k \in Keys \ {MANAGER} : storage'[k] = storage[k]
           /\ ~Exists(storage, MANAGER) /\ Exists(storage', MANAGER)
<1>1. /\ ChainInv /\ DbInv /\ IndexerInv /\ DOMAIN storage = Keys
      /\ processed < recorded /\ Current.type = "storage:create"
      /\ ~Exists(storage, Current.key)
      /\ storage' = CreateRow(storage, Current.key, Current.value)
  BY DEF TypeInv, ProcessCreate, DbInv, DbTypeOK
<1>2. /\ processed = 0 /\ Current.key = MANAGER /\ Current.value \in Commitments
  BY <1>1, CurrentFacts, EventFacts
<1>3. Exists(storage', MANAGER)
  BY <1>1, <1>2, CreateRowWritten
<1> QED
  BY <1>1, <1>2, <1>3 DEF CreateRow

\* What a step of the indexer may do to the table.
TableSteps ==
    \/ UNCHANGED storage
    \/ ProcessCreate
    \/ ProcessPending
    \/ SetData
    \/ ProcessCommit
    \/ \E s \in Level2 : UpdateStore(s)
    \/ UpdateManager

LEMMA IndexerTableSteps ==
    ASSUME IndexerStep \/ IndexerCrash
    PROVE  TableSteps
BY DEF IndexerStep, IndexerCrash, IndexerThrows, Restart, Fetch, EndCycle,
       ClearTransforming, MarkProcessed, dbVars, TableSteps

\* No row is ever deleted, or moved to another store.
LEMMA RowsStay ==
    ASSUME TypeInv, TableSteps, NEW k \in Keys, Exists(storage, k)
    PROVE  Exists(storage', k) /\ storage'[k].storageKey = storage[k].storageKey
<1>1. CASE UNCHANGED storage
  BY <1>1
<1>2. CASE ProcessCreate
  BY <1>2, ProcessCreateWrites DEF Exists
<1>3. CASE ProcessPending
  BY <1>3, ProcessPendingWrites DEF SetsRow, Exists
<1>4. CASE SetData
  BY <1>4, SetDataWrites DEF SetsRow, Exists
<1>5. CASE ProcessCommit
  BY <1>5, ProcessCommitWrites DEF SettlesRows
<1>6. CASE \E s \in Level2 : UpdateStore(s)
  BY <1>6, UpdateStoreWrites DEF RevaluesRow, Exists
<1>7. CASE UpdateManager
  BY <1>7, UpdateManagerWrites DEF RevaluesRow, Exists
<1> QED
  BY <1>1, <1>2, <1>3, <1>4, <1>5, <1>6, <1>7 DEF TableSteps

\* Setting a row of a factor in its owner's store, or of an identity.
LEMMA SetOwned ==
    ASSUME RowsOwned, NEW k \in Level2, NEW v, NEW cp, NEW s,
           k \in Factors => v = PRESENT /\ s \in Ids /\ k \in Owned(s),
           SetsRow(k, v, cp, s), UNCHANGED ixStores
    PROVE  RowsOwned'
<1>1. Factors \subseteq Keys
  BY DEF Keys, Level2
<1> QED
  BY <1>1 DEF RowsOwned, SetsRow, Exists

\* The event being processed is one of the web app's.
LEMMA CurrentWeb ==
    ASSUME TypeInv, WebInv, processed < recorded,
           Current.type = "storage:pending"
    PROVE  IdentityRequest(Current) \/ FactorRequest(Current)
<1>1. processed + 1 \in 1 .. Len(archive)
  BY CurrentFacts DEF TypeInv
<1> QED
  BY <1>1 DEF WebInv, WebEvent, Current

LEMMA RowsOwnedStep ==
    TypeInv /\ WebInv /\ RowsOwned /\ [Next]_vars => RowsOwned'
<1> SUFFICES ASSUME TypeInv, WebInv, RowsOwned, [Next]_vars PROVE RowsOwned'
  OBVIOUS
<1>0. Factors \subseteq Keys /\ MANAGER \notin Factors /\ Ids \cap Factors = {}
  BY KeysAssumption DEF Keys, Level2
<1>1. ASSUME UNCHANGED storage, ixStores' \subseteq ixStores
      PROVE  RowsOwned'
  BY <1>1 DEF RowsOwned
<1>2. CASE UNCHANGED <<storage, recorded, processed, indexerVars>>
  BY <1>1, <1>2 DEF indexerVars
<1>3. CASE Fetch \/ EndCycle \/ IndexerThrows \/ IndexerCrash
             \/ ClearTransforming \/ MarkProcessed
  BY <1>1, <1>3
  DEF Fetch, EndCycle, IndexerThrows, IndexerCrash, Restart,
      ClearTransforming, MarkProcessed, dbVars
<1>4. CASE ProcessCreate
  BY <1>0, <1>4, ProcessCreateWrites DEF ProcessCreate, RowsOwned, Exists
<1>5. CASE ProcessPending
  <2>1. IdentityRequest(Current) \/ FactorRequest(Current)
    BY <1>5, CurrentWeb DEF ProcessPending
  <2> QED
    BY <1>0, <1>5, <2>1, ProcessPendingWrites, PendingEventFacts, SetOwned
    DEF ProcessPending, IdentityRequest, FactorRequest, Owned
<1>6. CASE SetData
  <2>1. IdentityRequest(Current)
    BY <1>6, SetDataWrites, CurrentWeb, RequestKinds
  <2>2. Current.meta[2] \in Factors /\ Factors \subseteq Level2
    BY <2>1, KeysAssumption DEF IdentityRequest, Level2
  <2> QED
    BY <1>6, <2>1, <2>2, SetDataWrites, SetOwned
    DEF SetData, IdentityRequest, Owned
<1>7. CASE ProcessCommit
  <2>1. SettlesRows(Current.commitmentPending, Current.commitmentSettled)
    BY <1>7, ProcessCommitWrites
  <2>2. ixStores' \subseteq Ids
    <3> SUFFICES ASSUME NEW s \in ixStores' PROVE s \in Ids
      OBVIOUS
    <3>1. /\ s # MANAGER
          /\ \E k \in Keys : /\ Exists(storage', k)
                             /\ storage'[k].storageKey = s
                             /\ storage'[k].storageKey # NULL
      BY <1>7 DEF ProcessCommit, CommittedStores
    <3>2. PICK k \in Keys : /\ Exists(storage, k)
                            /\ storage[k].storageKey = s /\ s # NULL
      BY <2>1, <3>1 DEF SettlesRows
    <3>3. storage[k].storageKey \in StoresOf(k) /\ k \in Level2 \cup {MANAGER}
      BY <3>2, RowFacts DEF TypeInv, RowsOwned
    <3> QED
      BY <1>0, <3>1, <3>2, <3>3 DEF StoresOf, Level2
  <2> QED
    BY <1>0, <2>1, <2>2 DEF RowsOwned, SettlesRows
<1>8. CASE \E s \in Level2 : UpdateStore(s)
  <2>1. PICK s \in Level2 : UpdateStore(s)
    BY <1>8
  <2>2. s \in Ids /\ ixStores' \subseteq ixStores
    BY <2>1 DEF UpdateStore, RowsOwned
  <2>3. RevaluesRow(s, StoredKeyring(storage, s)) /\ Exists(storage, s)
    BY <2>1, UpdateStoreWrites
  <2> QED
    BY <1>0, <2>2, <2>3 DEF RowsOwned, RevaluesRow, Exists
<1>9. CASE UpdateManager
  <2>1. RevaluesRow(MANAGER, StoredManager(storage)) /\ UNCHANGED ixStores
    BY <1>9, UpdateManagerWrites DEF UpdateManager
  <2> QED
    BY <1>0, <2>1 DEF RowsOwned, RevaluesRow, Exists
<1> QED
  BY <1>2, <1>3, <1>4, <1>5, <1>6, <1>7, <1>8, <1>9, StepKinds DEF IndexerStep

\* What has been processed keeps its rows.
LEMMA RowsKeptStep ==
    TypeInv /\ WebInv /\ RowsKept /\ [Next]_vars => RowsKept'
<1> SUFFICES ASSUME TypeInv, WebInv, RowsKept, [Next]_vars PROVE RowsKept'
  OBVIOUS
<1>1. /\ \A n \in 1 .. recorded : archive'[n] = archive[n]
      /\ processed \in Nat /\ recorded \in Nat /\ processed <= recorded
      /\ recorded <= Len(archive) /\ archive \in Seq(Events)
      /\ ixPc \notin {"fetch", "process"} => processed < recorded
  BY LogKept DEF TypeInv, IndexerInv, IndexerReady, ChainInv, ChainTypeOK
<1>2. ASSUME NEW e \in Events, RowsFor(storage, e)
      PROVE  RowsFor(storage', e)
  <2>1. CASE /\ IndexerStep \/ IndexerCrash
             /\ UNCHANGED <<chainVars, clientVars, proverVars>>
    <3>1. e.type = "storage:pending" =>
             /\ e.key \in Keys
             /\ HasData(e) => e.meta[2] \in Keys
      BY EventFacts, PendingEventFacts, MetaFacts
    <3> QED
      BY <1>2, <2>1, <3>1, IndexerTableSteps, RowsStay DEF RowsFor, HasData
  <2>2. CASE UNCHANGED storage
    BY <1>2, <2>2 DEF RowsFor, HasData
  <2> QED
    BY <2>1, <2>2, StepKinds
<1>3. ASSUME NEW n \in 1 .. processed
      PROVE  RowsFor(storage', archive'[n])
  <2>1. archive[n] \in Events /\ archive'[n] = archive[n]
    BY <1>1
  <2>2. RowsFor(storage, archive[n])
    BY DEF RowsKept
  <2> QED
    BY <1>2, <2>1, <2>2 DEF RowsFor, HasData
<1>4. CASE UNCHANGED <<storage, recorded, processed, indexerVars>>
  <2>1. ixPc = "markProcessed" => Current' = Current /\ Current \in Events
    BY <1>1, <1>4, LogKept DEF Current
  <2> QED
    BY <1>1, <1>2, <1>3, <1>4, <2>1 DEF RowsKept, RowsFor, indexerVars, HasData
<1>5. CASE MarkProcessed
  <2>1. processed' = processed + 1 /\ ixPc' = "process" /\ UNCHANGED storage
    BY <1>5 DEF MarkProcessed
  <2>2. /\ processed < recorded
        /\ archive'[processed + 1] = Current
        /\ RowsFor(storage, Current)
    BY <1>1, <1>5 DEF MarkProcessed, Current, RowsKept
  <2>3. ASSUME NEW n \in 1 .. processed'
        PROVE  RowsFor(storage', archive'[n])
    <3>1. n \in 1 .. processed \/ n = processed + 1
      BY <1>1, <2>1
    <3>2. RowsFor(storage', Current)
      BY <2>1, <2>2 DEF RowsFor, HasData, Current
    <3> QED
      BY <1>3, <2>1, <2>2, <3>1, <3>2 DEF RowsFor, HasData
  <2> QED
    BY <2>1, <2>3 DEF RowsKept
<1>6. ASSUME UNCHANGED processed,
             ixPc' = "markProcessed" => Current' = Current /\ RowsFor(storage', Current)
      PROVE  RowsKept'
  BY <1>3, <1>6 DEF RowsKept
<1>7. CASE /\ IndexerStep \/ IndexerCrash
           /\ UNCHANGED <<chainVars, clientVars, proverVars>>
           /\ ~MarkProcessed
  <2>1. UNCHANGED processed /\ (processed < recorded => Current' = Current)
    <3>1. UNCHANGED processed
      BY <1>7
      DEF IndexerStep, IndexerCrash, IndexerThrows, Restart, Fetch, EndCycle,
          ProcessCreate, ProcessPending, SetData, ProcessCommit, UpdateStore,
          UpdateManager, ClearTransforming, dbVars
    <3> QED
      BY <3>1, LogKept
  <2>2. CASE Fetch \/ EndCycle \/ IndexerThrows \/ IndexerCrash
    <3>1. ixPc' # "markProcessed"
      BY <2>2
      DEF Fetch, EndCycle, IndexerThrows, IndexerCrash, Restart
    <3> QED
      BY <1>6, <2>1, <3>1
  <2>3. CASE ProcessCreate \/ ProcessCommit \/ UpdateManager
             \/ ClearTransforming \/ \E s \in Level2 : UpdateStore(s)
    <3>1. processed < recorded /\ Current.type # "storage:pending"
      BY <2>3, UpdateManagerWrites, UpdateStoreWrites
      DEF ProcessCreate, ProcessCommit, ClearTransforming, TypeInv,
          IndexerInv, IndexerReady
    <3>2. RowsFor(storage', Current)
      BY <2>1, <3>1 DEF RowsFor
    <3> QED
      BY <1>6, <2>1, <3>1, <3>2
  <2>4. CASE ProcessPending
    <3>1. /\ processed < recorded
          /\ Exists(storage', Current.key)
          /\ ixPc' = "markProcessed" => ~HasData(Current)
      BY <2>4, ProcessPendingWrites DEF ProcessPending, SetsRow
    <3>2. Current' = Current
      BY <2>1, <3>1
    <3>3. ixPc' = "markProcessed" => RowsFor(storage', Current)
      BY <3>1, <3>2 DEF RowsFor, HasData
    <3> QED
      BY <1>6, <2>1, <3>2, <3>3
  <2>5. CASE SetData
    <3>1. /\ processed < recorded
          /\ Exists(storage', Current.key)
          /\ Exists(storage', Current.meta[2])
      <4>1. Current.key \in Keys
        BY <2>5, SetDataWrites, PendingEventFacts
      <4>2. TableSteps
        BY <2>5 DEF TableSteps
      <4> QED
        BY <2>5, <4>1, <4>2, SetDataWrites, RowsStay DEF SetsRow
    <3>2. RowsFor(storage', Current)
      BY <2>1, <3>1 DEF RowsFor, HasData
    <3> QED
      BY <1>6, <2>1, <3>1, <3>2
  <2> QED
    BY <1>7, <2>2, <2>3, <2>4, <2>5 DEF IndexerStep
<1> QED
  BY <1>4, <1>5, <1>7, StepKinds

LEMMA OwnedInvInit == Init => OwnedInv
<1> SUFFICES ASSUME Init PROVE OwnedInv
  OBVIOUS
<1> DEFINE e == EventStorageCreate(MANAGER, NoIdentities)
<1>1. WebEvent(e)
  BY DEF EventStorageCreate, WebEvent
<1>2. archive = <<e>> /\ mempool = {} /\ \A u \in Clients : client[u].pc = "idle"
  BY DEF Init, ChainInit, ClientInit, Idle
<1> HIDE DEF e
<1>3. WebInv
  BY <1>1, <1>2 DEF WebInv
<1>4. RowsOwned /\ RowsKept
  BY DEF Init, DbInit, IndexerInit, RowsOwned, RowsKept, Exists, Keys, Level2
<1> QED
  BY <1>3, <1>4 DEF OwnedInv

LEMMA OwnedInvariant ==
    ASSUME WebMethodsOnly
    PROVE  Spec => []OwnedInv
<1>1. TypeInv /\ OwnedInv /\ [Next]_vars => OwnedInv'
  BY WebInvStep, RowsOwnedStep, RowsKeptStep DEF OwnedInv
<1> QED
  BY <1>1, TypeInvariant, OwnedInvInit, PTL DEF Spec

\* Where owners use secrets of their own and call the methods the web app
\* calls, every request storage has processed has its row in the store it
\* named, whatever else was requested and however the indexer was stopped.
THEOREM RowAlwaysInItsStore ==
    ASSUME OwnSecretsOnly, WebMethodsOnly
    PROVE  Spec => []RowPerStore
<1>1. TypeInv /\ OwnedInv => RowPerStore
  <2> SUFFICES ASSUME TypeInv, OwnedInv, NEW n \in 1 .. processed,
                      archive[n].type = "storage:pending"
               PROVE  /\ storage[archive[n].key].storageKey = archive[n].id
                      /\ HasData(archive[n]) =>
                            storage[archive[n].meta[2]].storageKey = archive[n].key
    BY DEF RowPerStore
  <2> DEFINE e == archive[n]
  <2>1. n \in 1 .. Len(archive)
    BY DEF TypeInv, ChainInv, ChainTypeOK, DbInv, DbTypeOK, IndexerInv,
           IndexerReady
  <2>2. /\ e.type = "storage:pending"
        /\ IdentityRequest(e) \/ FactorRequest(e)
        /\ Exists(storage, e.key)
        /\ HasData(e) => Exists(storage, e.meta[2])
    BY <2>1 DEF OwnedInv, WebInv, WebEvent, RowsKept, RowsFor
  <2> HIDE DEF e
  <2>3. ASSUME NEW f \in Factors, NEW i \in Ids, Exists(storage, f),
               f \in Owned(i)
        PROVE  storage[f].storageKey = i
    BY <2>3 DEF OwnedInv, RowsOwned, OwnSecretsOnly
  <2>4. CASE IdentityRequest(e)
    <3>1. e.key \in Ids /\ e.id = MANAGER /\ e.meta[2] = OpKey[e.key]
      BY <2>4 DEF IdentityRequest
    <3>2. storage[e.key].storageKey \in StoresOf(e.key)
      BY <2>2, <3>1, RowFacts DEF TypeInv, Keys, Level2
    <3>3. storage[e.key].storageKey = MANAGER
      BY <3>1, <3>2, KeysAssumption DEF StoresOf
    <3>4. HasData(e) => storage[e.meta[2]].storageKey = e.key
      BY <2>2, <2>3, <3>1, KeysAssumption DEF Owned
    <3> QED
      BY <3>1, <3>3, <3>4 DEF e
  <2>5. CASE FactorRequest(e)
    <3>1. e.id \in Ids /\ e.key \in Factors /\ e.key \in Owned(e.id) /\ ~HasData(e)
      BY <2>5, KeysAssumption, RequestKinds DEF FactorRequest, Owned
    <3> QED
      BY <2>2, <2>3, <3>1 DEF e
  <2> QED
    BY <2>2, <2>4, <2>5
<1> QED
  BY <1>1, TypeInvariant, OwnedInvariant, PTL

-----------------------------------------------------------------------------
(***************************************************************************)
(* Storage as a function of the log.  A replay that is broken off is begun *)
(* again on what it left, so that a table in the middle of an event is     *)
(* related to the one before it: some rows are as they were, others as the *)
(* event leaves them, and to set or to revalue a row twice is to do it     *)
(* once.  (It needs the methods of the web app: if factors are deleted,    *)
(* the stores a commit revalues may be rows that others of them are        *)
(* restored from, and the order they are taken in makes a difference.)     *)
(***************************************************************************)
NoRows == [k \in Keys |-> NULL]

\* f[n] is the table after the first n of the events es, for n up to m.
IsReplay(f, es, m) ==
    f = [n \in 0 .. m |-> IF n = 0 THEN NoRows ELSE Replay(f[n - 1], es[n])]

\* A table as the web app's methods leave it.
IsTable(st) ==
    /\ st = [k \in Keys |-> st[k]]
    /\ \A k \in Keys : st[k] \in RowsOf(k) \cup {NULL}
    /\ \A k \in Keys : Exists(st, k) => k \in Level2 \cup {MANAGER}

\* ... in which the stores of rows have rows.
HasStores(st) ==
    \A k \in Keys : Exists(st, k) /\ st[k].storageKey \in Level2
                        => Exists(st, st[k].storageKey)

\* The table b once the commit event e has settled its rows, and the stores
\* that are revalued then.
SettledBy(b, e) == Commit(b, e.commitmentPending, e.commitmentSettled)
StoresOfCommit(b, e) ==
    CommittedStores(SettledBy(b, e), e.commitmentPending, e.commitmentSettled)
        \ {MANAGER}

\* ... whose rows are then valued after the rows within them, and what is left
\* to do after that.
Kept(b, e) ==
    [k \in Keys |->
        IF k \in StoresOfCommit(b, e)
        THEN [SettledBy(b, e)[k] EXCEPT
                 !.value = StoredKeyring(SettledBy(b, e), k)]
        ELSE SettledBy(b, e)[k]]

\* The rows that the request e sets in the table b.
SetFirst(b, e) == Set(b, e.key, e.value, e.commitmentPending, e.id)
SetSecond(b, e) == Set(b, e.meta[2], e.meta[3], e.commitmentPending, e.key)

\* Some rows are as e settled them in the table b, others as it leaves them.
Between(st, b, e) ==
    /\ st = [k \in Keys |-> st[k]]
    /\ \A k \in Keys : st[k] \in {SettledBy(b, e)[k], Replay(b, e)[k]}

\* What may be left of a replay of the event e on the table b.
Midway(st, b, e) ==
    \/ st = Replay(b, e)
    \/ e.type = "storage:pending" /\ st = SetFirst(b, e)
    \/ e.type = "storage:commit" /\ Between(st, b, e)

\* The table the event being processed is replayed on.
Before == Replayed[processed]

ReplayInv ==
    /\ IsTable(Before) /\ HasStores(Before)
    /\ processed >= 1 => Exists(Before, MANAGER)
    /\ \/ storage = Before
       \/ processed < recorded /\ Midway(storage, Before, Current)
    /\ ixPc = "setData" => storage \in {SetFirst(Before, Current),
                                        Replay(Before, Current)}
    /\ ixPc = "updateStores" =>
          /\ Between(storage, Before, Current)
          /\ ixStores \subseteq StoresOfCommit(Before, Current)
          /\ \A s \in StoresOfCommit(Before, Current) \ ixStores :
                storage[s] = Replay(Before, Current)[s]
    /\ ixPc \in {"clearTransforming", "markProcessed"} =>
          storage = Replay(Before, Current)

\* A replay of events exists ...
LEMMA ReplayExists ==
    ASSUME NEW es, NEW m \in Nat
    PROVE  \E f : IsReplay(f, es, m)
<1> DEFINE T == {n \in 1 .. m : ~\E f : IsReplay(f, es, n)}
<1>1. \E f : IsReplay(f, es, 0)
  <2> DEFINE f == [n \in 0 .. 0 |-> NoRows]
  <2>1. f = [n \in 0 .. 0 |-> IF n = 0 THEN NoRows ELSE Replay(f[n - 1], es[n])]
    <3> HIDE DEF NoRows
    <3> QED  OBVIOUS
  <2> QED  BY <2>1 DEF IsReplay
<1>2. CASE T = {}
  BY <1>1, <1>2
<1>3. CASE T # {}
  <2>1. PICK n \in T : \A k \in T : n <= k
    <3>1. T \in SUBSET (1 .. m)
      OBVIOUS
    <3> HIDE DEF T
    <3> QED  BY <1>3, <3>1, FirstExists
  <2>2. n \in 1 .. m /\ n - 1 \in 0 .. m /\ ~(n <= n - 1)
    BY <2>1
  <2>3. n - 1 = 0 \/ (n - 1 \in 1 .. m /\ n - 1 \notin T)
    BY <2>1, <2>2
  <2>4. PICK f : IsReplay(f, es, n - 1)
    BY <1>1, <2>3
  <2> DEFINE last == Replay(f[n - 1], es[n])
             g == [l \in 0 .. n |-> IF l = n THEN last ELSE f[l]]
  <2>5. ASSUME NEW l \in 0 .. n
        PROVE  g[l] = IF l = 0 THEN NoRows ELSE Replay(g[l - 1], es[l])
    <3>1. CASE l = n
      <4>1. l # 0 /\ l - 1 \in 0 .. n /\ l - 1 # n
        BY <2>2, <3>1
      <4>2. g[l - 1] = f[n - 1] /\ g[l] = last
        BY <3>1, <4>1
      <4> QED  BY <3>1, <4>1, <4>2
    <3>2. CASE l # n
      <4>1. l \in 0 .. n - 1 /\ g[l] = f[l]
        BY <2>2, <3>2
      <4>2. f[l] = IF l = 0 THEN NoRows ELSE Replay(f[l - 1], es[l])
        BY <2>4, <4>1 DEF IsReplay
      <4>3. l # 0 => l - 1 \in 0 .. n /\ l - 1 # n
        BY <2>2, <4>1
      <4>4. l # 0 => g[l - 1] = f[l - 1]
        BY <4>3
      <4> QED  BY <4>1, <4>2, <4>4
    <3> QED  BY <3>1, <3>2
  <2>6. g = [l \in 0 .. n |-> g[l]]
    OBVIOUS
  <2> HIDE DEF g, last
  <2>7. IsReplay(g, es, n)
    BY <2>5, <2>6 DEF IsReplay
  <2> QED  BY <2>1, <2>7
<1> QED  BY <1>2, <1>3

\* ... and depends on no event after its own.
LEMMA ReplayUnique ==
    ASSUME NEW es, NEW ds, NEW m \in Nat, NEW l \in Nat, m <= l,
           NEW f, NEW g, IsReplay(f, es, m), IsReplay(g, ds, l),
           \A n \in 1 .. m : es[n] = ds[n]
    PROVE  \A n \in 0 .. m : f[n] = g[n]
<1> DEFINE T == {n \in 1 .. m : f[n] # g[n]}
<1>1. /\ \A n \in 0 .. m : f[n] = IF n = 0 THEN NoRows ELSE Replay(f[n - 1], es[n])
      /\ \A n \in 0 .. l : g[n] = IF n = 0 THEN NoRows ELSE Replay(g[n - 1], ds[n])
  BY DEF IsReplay
<1>2. f[0] = g[0]
  BY <1>1
<1>3. SUFFICES ASSUME T # {} PROVE FALSE
  BY <1>2
<1>4. PICK n \in T : \A k \in T : n <= k
  <2>1. T \in SUBSET (1 .. m)
    OBVIOUS
  <2> HIDE DEF T
  <2> QED  BY <1>3, <2>1, FirstExists
<1>5. n \in 1 .. m /\ n \in 0 .. m /\ n \in 0 .. l /\ n # 0 /\ ~(n <= n - 1)
  BY <1>4
<1>6. n - 1 = 0 \/ (n - 1 \in 1 .. m /\ n - 1 \notin T)
  BY <1>4, <1>5
<1>7. f[n - 1] = g[n - 1]
  BY <1>2, <1>6
<1>8. f[n] = Replay(f[n - 1], es[n]) /\ g[n] = Replay(g[n - 1], ds[n])
  BY <1>1, <1>5
<1> QED  BY <1>4, <1>5, <1>7, <1>8

\* The tables of the log.
TablesOf(es) ==
    LET st[n \in 0 .. Len(es)] ==
            IF n = 0 THEN [k \in Keys |-> NULL]
                     ELSE Replay(st[n - 1], es[n])
    IN st

LEMMA TablesOfIsReplay ==
    ASSUME NEW es, Len(es) \in Nat
    PROVE  IsReplay(TablesOf(es), es, Len(es))
<1>1. \E f : IsReplay(f, es, Len(es))
  BY ReplayExists
<1>2. TablesOf(es) = CHOOSE f : IsReplay(f, es, Len(es))
  BY DEF TablesOf, IsReplay, NoRows
<1> QED  BY <1>1, <1>2, Zenon

LEMMA ReplayedFacts ==
    ASSUME Len(archive) \in Nat
    PROVE  /\ Replayed[0] = NoRows
           /\ \A n \in 1 .. Len(archive) :
                 Replayed[n] = Replay(Replayed[n - 1], archive[n])
<1>1. Replayed = TablesOf(archive)
  BY DEF Replayed, TablesOf
<1>2. \A n \in 0 .. Len(archive) :
         Replayed[n] = IF n = 0 THEN NoRows ELSE Replay(Replayed[n - 1], archive[n])
  BY <1>1, TablesOfIsReplay DEF IsReplay
<1> QED  BY <1>2

\* They stay as the log grows.
LEMMA ReplayedKept ==
    ASSUME TypeInv, [Next]_vars
    PROVE  \A n \in 0 .. Len(archive) : Replayed'[n] = Replayed[n]
<1>1. /\ Len(archive) \in Nat /\ Len(archive') \in Nat
      /\ Len(archive) <= Len(archive')
      /\ \A n \in 1 .. Len(archive) : archive[n] = archive'[n]
  BY LogOnlyGrows
<1>2. Replayed = TablesOf(archive) /\ Replayed' = TablesOf(archive')
  BY DEF Replayed, TablesOf
<1>3. /\ IsReplay(TablesOf(archive), archive, Len(archive))
      /\ IsReplay(TablesOf(archive'), archive', Len(archive'))
  BY <1>1, TablesOfIsReplay
<1>4. \A n \in 0 .. Len(archive) : TablesOf(archive)[n] = TablesOf(archive')[n]
  BY <1>1, <1>3, ReplayUnique
<1> QED  BY <1>2, <1>4

\* The row k, as storage.set leaves it.
IsSet(st, k, v, cp) ==
    /\ Exists(st, k)
    /\ st[k].value = v
    /\ st[k].isPending = TRUE
    /\ st[k].commitmentPending = cp

\* Setting a row, in any table.
LEMMA SetRow ==
    ASSUME NEW st, IsTable(st), NEW k \in Level2, NEW v \in ValuesOf(k),
           NEW cp \in Commitments, NEW s \in StoresOf(k),
           NEW set, set = Set(st, k, v, cp, s)
    PROVE  /\ IsTable(set)
           /\ IsSet(set, k, v, cp)
<1>0. k \in Keys /\ TRUE \in BOOLEAN /\ NULL \in Commitments \cup {NULL}
  BY DEF Keys
<1>1. PICK row \in RowsOf(k) :
         /\ set = [st EXCEPT ![k] = row]
         /\ row.value = v /\ row.isPending = TRUE /\ row.commitmentPending = cp
  <2>1. CASE Exists(st, k)
    <3> DEFINE row == [st[k] EXCEPT !.value = v, !.isPending = TRUE,
                                    !.commitmentPending = cp]
    <3>1. st[k] \in RowsOf(k)
      BY <1>0, <2>1 DEF IsTable, Exists
    <3>2. /\ row \in RowsOf(k)
          /\ row.value = v /\ row.isPending = TRUE /\ row.commitmentPending = cp
      BY <3>1 DEF RowsOf
    <3>3. set = [st EXCEPT ![k] = row]
      BY <1>0, <2>1 DEF Set, IsTable
    <3> HIDE DEF row
    <3> QED  BY <3>2, <3>3
  <2>2. CASE ~Exists(st, k)
    <3> DEFINE row == [value |-> v, isPending |-> TRUE, commitmentPending |-> cp,
                       commitmentSettled |-> NULL, storageKey |-> s]
    <3>1. /\ row \in RowsOf(k)
          /\ row.value = v /\ row.isPending = TRUE /\ row.commitmentPending = cp
      BY DEF RowsOf
    <3>2. set = [st EXCEPT ![k] = row]
      BY <1>0, <2>2 DEF Set, IsTable
    <3> HIDE DEF row
    <3> QED  BY <3>1, <3>2
  <2> QED  BY <2>1, <2>2
<1>2. /\ set[k] = row /\ \A j \in Keys : j # k => set[j] = st[j]
      /\ set = [j \in Keys |-> set[j]]
  BY <1>0, <1>1 DEF IsTable
<1>3. row # NULL
  BY <1>0, <1>1, RowAssumption
<1>4. IsTable(set)
  BY <1>1, <1>2, <1>3 DEF IsTable, Exists
<1>5. IsSet(set, k, v, cp)
  BY <1>1, <1>2, <1>3 DEF Exists, IsSet
<1> QED  BY <1>1, <1>2, <1>4, <1>5

\* ... leaves the others as they are.
LEMMA SetOther ==
    ASSUME NEW st, IsTable(st), NEW k \in Keys, NEW j \in Keys, j # k,
           NEW v, NEW cp, NEW s
    PROVE  Set(st, k, v, cp, s)[j] = st[j]
BY DEF Set, IsTable

\* To set a row to what it is does nothing.
LEMMA SetSame ==
    ASSUME NEW st, IsTable(st), NEW k \in Level2, NEW v, NEW cp, NEW s,
           IsSet(st, k, v, cp)
    PROVE  Set(st, k, v, cp, s) = st
<1>0. k \in Keys /\ Exists(st, k)
  BY DEF Keys, IsSet
<1>1. st[k] \in RowsOf(k)
  BY <1>0 DEF IsTable, Exists
<1>2. [st[k] EXCEPT !.value = v, !.isPending = TRUE, !.commitmentPending = cp]
        = st[k]
  BY <1>1 DEF RowsOf, IsSet
<1>3. Set(st, k, v, cp, s) = [st EXCEPT ![k] = st[k]]
  BY <1>0, <1>2 DEF Set, IsTable
<1> QED  BY <1>0, <1>3 DEF IsTable

\* A request, replayed on what is left of a replay of it.
LEMMA RequestReplay ==
    ASSUME NEW b, IsTable(b), NEW e \in IdentityEvents \cup FactorEvents,
           IdentityRequest(e) \/ FactorRequest(e)
    PROVE  /\ \A st \in {b, SetFirst(b, e), Replay(b, e)} :
                 SetFirst(st, e) \in {SetFirst(b, e), Replay(b, e)}
           /\ ~HasData(e) => Replay(b, e) = SetFirst(b, e)
           /\ HasData(e) =>
                 \A st \in {SetFirst(b, e), Replay(b, e)} :
                    SetSecond(st, e) = Replay(b, e)
<1> DEFINE cp == e.commitmentPending
           one == SetFirst(b, e)
           data(st) == SetSecond(st, e)
<1>1. /\ e.type = "storage:pending" /\ cp \in Commitments
      /\ e.key \in Level2 /\ e.value \in ValuesOf(e.key) /\ e.id \in StoresOf(e.key)
  BY PendingEventFacts DEF IdentityEvents, FactorEvents
<1>2. IsTable(one) /\ IsSet(one, e.key, e.value, cp)
  <2>1. one = Set(b, e.key, e.value, cp, e.id)
    BY DEF SetFirst
  <2> HIDE DEF cp, one
  <2> QED  BY <1>1, <2>1, SetRow, Zenon
<1>3. SetFirst(one, e) = one
  <2>1. SetFirst(one, e) = Set(one, e.key, e.value, cp, e.id)
    BY DEF SetFirst
  <2> HIDE DEF cp, one
  <2> QED  BY <1>1, <1>2, <2>1, SetSame, Zenon
<1>4. Replay(b, e) = IF HasData(e) THEN data(one) ELSE one
  BY <1>1 DEF Replay, HasData, SetFirst, SetSecond
<1>5. CASE ~HasData(e)
  BY <1>2, <1>3, <1>4, <1>5
<1>6. CASE HasData(e)
  <2>1. e.meta[2] \in Factors /\ e.key \in Ids /\ e.meta[2] # e.key
    BY <1>6, RequestKinds, KeysAssumption DEF IdentityRequest
  <2>2. /\ e.meta[2] \in Level2 /\ e.meta[3] \in ValuesOf(e.meta[2])
        /\ e.key \in StoresOf(e.meta[2]) /\ e.key \in Keys /\ e.meta[2] \in Keys
    BY <1>6, <2>1, MetaFacts DEF Level2, Keys
  <2> DEFINE two == data(one)
  <2>3. /\ IsTable(two) /\ IsSet(two, e.meta[2], e.meta[3], cp)
        /\ two[e.key] = one[e.key]
    <3>1. two = Set(one, e.meta[2], e.meta[3], cp, e.key)
      BY DEF SetSecond
    <3> HIDE DEF one, cp, two, data
    <3>2. IsTable(two) /\ IsSet(two, e.meta[2], e.meta[3], cp)
      BY <1>1, <1>2, <2>2, <3>1, SetRow, Zenon
    <3>3. two[e.key] = one[e.key]
      BY <1>2, <2>1, <2>2, <3>1, SetOther
    <3> QED  BY <3>2, <3>3
  <2>4. data(two) = two
    <3>1. data(two) = Set(two, e.meta[2], e.meta[3], cp, e.key)
      BY DEF SetSecond
    <3> HIDE DEF two, one, cp
    <3> QED  BY <2>2, <2>3, <3>1, SetSame, Zenon
  <2>5. SetFirst(two, e) = two
    <3>1. SetFirst(two, e) = Set(two, e.key, e.value, cp, e.id)
      BY DEF SetFirst
    <3> HIDE DEF two, one, cp
    <3>2. IsSet(two, e.key, e.value, cp)
      BY <1>2, <2>3 DEF Exists, IsSet
    <3> QED  BY <1>1, <2>3, <3>1, <3>2, SetSame, Zenon
  <2> QED  BY <1>3, <1>4, <1>6, <2>3, <2>4, <2>5
<1> QED  BY <1>5, <1>6

\* A commit settles its rows, and does nothing else to a table.
LEMMA CommitFacts ==
    ASSUME NEW b, IsTable(b), NEW e, e.commitmentSettled \in Commitments,
           NEW d, d = SettledBy(b, e)
    PROVE  /\ IsTable(d)
           /\ \A k \in Keys :
                 /\ Exists(d, k) <=> Exists(b, k)
                 /\ Exists(d, k) =>
                       /\ d[k].storageKey = b[k].storageKey
                       /\ ~(d[k].isPending /\ d[k].commitmentPending = e.commitmentPending)
<1> DEFINE cp == e.commitmentPending
           cs == e.commitmentSettled
<1>1. d = [k \in Keys |->
              IF k \in Pending(b) /\ b[k].commitmentPending = cp
              THEN [b[k] EXCEPT !.isPending = FALSE, !.commitmentSettled = cs]
              ELSE b[k]]
  BY DEF SettledBy, Commit
<1>2. ASSUME NEW k \in Keys
      PROVE  /\ d[k] \in RowsOf(k) \cup {NULL}
             /\ Exists(d, k) <=> Exists(b, k)
             /\ Exists(d, k) =>
                   /\ d[k].storageKey = b[k].storageKey
                   /\ ~(d[k].isPending /\ d[k].commitmentPending = cp)
  <2>1. CASE k \in Pending(b) /\ b[k].commitmentPending = cp
    <3>1. Exists(b, k) /\ b[k] \in RowsOf(k)
      BY <2>1 DEF Pending, IsTable, Exists
    <3>2. d[k] = [b[k] EXCEPT !.isPending = FALSE, !.commitmentSettled = cs]
      BY <1>1, <2>1
    <3>3. /\ d[k] \in RowsOf(k) /\ d[k].storageKey = b[k].storageKey
          /\ d[k].isPending = FALSE
      BY <3>1, <3>2 DEF RowsOf
    <3>4. d[k] # NULL
      BY <3>3, RowAssumption
    <3> QED  BY <3>1, <3>3, <3>4 DEF Exists
  <2>2. CASE ~(k \in Pending(b) /\ b[k].commitmentPending = cp)
    <3>1. d[k] = b[k]
      BY <1>1, <2>2
    <3> QED  BY <2>2, <3>1 DEF Exists, IsTable, Pending
  <2> QED  BY <2>1, <2>2
<1>3. d = [k \in Keys |-> d[k]]
  BY <1>1
<1>4. IsTable(d)
  BY <1>2, <1>3 DEF IsTable
<1> QED  BY <1>2, <1>4

\* The stores it revalues are identities, and have rows.
LEMMA StoresFacts ==
    ASSUME NEW b, IsTable(b), HasStores(b), NEW e, e.commitmentSettled \in Commitments,
           NEW d, d = SettledBy(b, e)
    PROVE  /\ StoresOfCommit(b, e) =
                 {s \in Level2 : \E k \in Keys :
                    /\ Exists(d, k)
                    /\ d[k].storageKey = s
                    /\ d[k].commitmentPending = e.commitmentPending
                    /\ d[k].commitmentSettled = e.commitmentSettled}
           /\ \A s \in StoresOfCommit(b, e) : s \in Ids /\ Exists(d, s)
<1>1. IsTable(d) /\ \A k \in Keys : Exists(d, k) =>
                       Exists(b, k) /\ d[k].storageKey = b[k].storageKey
  BY CommitFacts
<1>2. ASSUME NEW k \in Keys, Exists(d, k), d[k].storageKey \notin {NULL, MANAGER}
      PROVE  d[k].storageKey \in Ids
  <2>1. k \in Level2 \cup {MANAGER} /\ d[k] \in RowsOf(k)
    BY <1>1, <1>2 DEF IsTable, Exists
  <2>2. d[k].storageKey \in StoresOf(k)
    BY <2>1 DEF RowsOf
  <2> QED  BY <1>2, <2>1, <2>2 DEF StoresOf, Level2
<1>3. Ids \subseteq Level2 /\ Level2 \subseteq Keys /\ NULL \notin Level2 /\ MANAGER \notin Level2
  BY KeysAssumption DEF Level2, Keys
<1>4. \A s : s \in StoresOfCommit(b, e) <=>
          /\ s \notin {NULL, MANAGER}
          /\ \E k \in Keys :
                /\ Exists(d, k)
                /\ d[k].storageKey = s
                /\ d[k].commitmentPending = e.commitmentPending
                /\ d[k].commitmentSettled = e.commitmentSettled
  BY DEF StoresOfCommit, CommittedStores
<1>5. \A s \in StoresOfCommit(b, e) : s \in Ids /\ Exists(d, s)
  <2> SUFFICES ASSUME NEW s \in StoresOfCommit(b, e) PROVE s \in Ids /\ Exists(d, s)
    OBVIOUS
  <2>1. PICK k \in Keys : Exists(d, k) /\ d[k].storageKey = s
    BY <1>4
  <2>2. s \in Ids
    BY <1>2, <1>4, <2>1
  <2>3. Exists(b, s)
    BY <1>1, <1>3, <2>1, <2>2 DEF HasStores
  <2> QED  BY <1>3, <2>2, <2>3, CommitFacts
<1> QED  BY <1>3, <1>4, <1>5

\* What a commit leaves.
LEMMA CommitReplay ==
    ASSUME NEW b, IsTable(b), HasStores(b), Exists(b, MANAGER),
           NEW e, e.type = "storage:commit", e.commitmentSettled \in Commitments,
           NEW d, d = SettledBy(b, e), NEW fin, fin = Replay(b, e)
    PROVE  /\ fin = [k \in Keys |-> fin[k]]
           /\ \A k \in StoresOfCommit(b, e) :
                 fin[k] = [d[k] EXCEPT !.value = StoredKeyring(d, k)]
           /\ \A k \in Keys : k \notin StoresOfCommit(b, e) /\ k # MANAGER =>
                 fin[k] = d[k]
           /\ fin[MANAGER] = [d[MANAGER] EXCEPT !.value = StoredManager(Kept(b, e))]
<1> DEFINE S == StoresOfCommit(b, e)
           kept == Kept(b, e)
<1>1. /\ kept = [k \in Keys |-> kept[k]]
      /\ \A k \in Keys :
            kept[k] = IF k \in S THEN [d[k] EXCEPT !.value = StoredKeyring(d, k)]
                                 ELSE d[k]
  BY DEF Kept
<1>2. fin = Update(kept, MANAGER, StoredManager(kept))
  <2>1. kept = [k \in Keys |->
                  IF k \in {s \in Level2 : \E l \in Keys :
                              /\ Exists(d, l)
                              /\ d[l].storageKey = s
                              /\ d[l].commitmentPending = e.commitmentPending
                              /\ d[l].commitmentSettled = e.commitmentSettled}
                  THEN [d[k] EXCEPT !.value = StoredKeyring(d, k)]
                  ELSE d[k]]
    <3>1. S = {s \in Level2 : \E l \in Keys :
                              /\ Exists(d, l)
                              /\ d[l].storageKey = s
                              /\ d[l].commitmentPending = e.commitmentPending
                              /\ d[l].commitmentSettled = e.commitmentSettled}
      BY StoresFacts
    <3> QED  BY <3>1 DEF Kept
  <2>2. d = Commit(b, e.commitmentPending, e.commitmentSettled)
    BY DEF SettledBy
  <2> HIDE DEF kept
  <2> QED  BY <2>1, <2>2 DEF Replay
<1>3. MANAGER \in Keys /\ MANAGER \notin S /\ \A s \in S : s \in Keys
  BY StoresFacts, KeysAssumption DEF Keys, Level2
<1> HIDE DEF kept, S
<1>4. /\ fin = [k \in Keys |-> fin[k]]
      /\ \A k \in Keys : k # MANAGER => fin[k] = kept[k]
      /\ fin[MANAGER] = [kept[MANAGER] EXCEPT !.value = StoredManager(kept)]
  BY <1>1, <1>2, <1>3 DEF Update
<1> QED  BY <1>1, <1>3, <1>4 DEF S, kept

\* What a table's rows restore.
LEMMA TableMaps ==
    ASSUME NEW st, IsTable(st)
    PROVE  /\ \A s : StoredKeyring(st, s) \in Keyrings
           /\ StoredManager(st) \in Commitments
<1>0. Factors \subseteq Keys /\ Level2 \subseteq Keys
  BY DEF Keys, Level2
<1>1. ASSUME NEW k \in Level2, Settled(st, k)
      PROVE  /\ k \in Factors => st[k].value \in Leaves
             /\ st[k].storageKey = MANAGER => st[k].value \in Keyrings
  <2>1. st[k] \in RowsOf(k) /\ k # MANAGER
    BY <1>0, <1>1, KeysAssumption DEF IsTable, Settled, Exists, Level2
  <2>2. st[k].value \in ValuesOf(k) /\ st[k].storageKey \in StoresOf(k)
    BY <2>1 DEF RowsOf
  <2> QED  BY <2>1, <2>2, KeysAssumption DEF ValuesOf, StoresOf, Level2
<1>2. ASSUME NEW s
      PROVE  StoredKeyring(st, s) \in Keyrings
  BY <1>1 DEF StoredKeyring, Keyrings, Leaves, Level2
<1>3. StoredManager(st) \in Commitments
  BY <1>1 DEF StoredManager, Commitments
<1> QED  BY <1>2, <1>3

\* A row that is revalued is pending or settled as it was.
LEMMA RevaluedRow ==
    ASSUME NEW k \in Keys, NEW old \in RowsOf(k), NEW v \in ValuesOf(k),
           NEW row, row = [old EXCEPT !.value = v]
    PROVE  /\ row \in RowsOf(k) /\ row # NULL
           /\ row.value = v
           /\ row.isPending = old.isPending
           /\ row.commitmentPending = old.commitmentPending
           /\ row.commitmentSettled = old.commitmentSettled
           /\ row.storageKey = old.storageKey
<1>1. row \in RowsOf(k) /\ row.value = v
  BY DEF RowsOf
<1>2. row # NULL
  BY <1>1, RowAssumption
<1> QED  BY <1>1, <1>2 DEF RowsOf

\* What a commit leaves is a table with the same rows.
LEMMA CommitRows ==
    ASSUME NEW b, IsTable(b), HasStores(b), Exists(b, MANAGER),
           NEW e, e.type = "storage:commit", e.commitmentSettled \in Commitments,
           NEW d, d = SettledBy(b, e), NEW fin, fin = Replay(b, e),
           NEW k \in Keys
    PROVE  /\ Exists(fin, k) <=> Exists(d, k)
           /\ Exists(d, k) =>
                 /\ d[k] \in RowsOf(k)
                 /\ fin[k] \in RowsOf(k)
                 /\ fin[k].isPending = d[k].isPending
                 /\ fin[k].commitmentPending = d[k].commitmentPending
                 /\ fin[k].commitmentSettled = d[k].commitmentSettled
                 /\ fin[k].storageKey = d[k].storageKey
                 /\ \A w : [fin[k] EXCEPT !.value = w] = [d[k] EXCEPT !.value = w]
           /\ k \in Factors => fin[k] = d[k]
<1> DEFINE S == StoresOfCommit(b, e)
<1>1. /\ IsTable(d)
      /\ \A s \in S : s \in Ids /\ Exists(d, s)
      /\ Exists(d, MANAGER) /\ MANAGER \in Keys
  BY CommitFacts, StoresFacts DEF Keys
<1>6. /\ \A l \in S : fin[l] = [d[l] EXCEPT !.value = StoredKeyring(d, l)]
      /\ \A l \in Keys : l \notin S /\ l # MANAGER => fin[l] = d[l]
      /\ fin[MANAGER] = [d[MANAGER] EXCEPT !.value = StoredManager(Kept(b, e))]
  BY CommitReplay
<1> HIDE DEF S
<1>7. ASSUME NEW v \in ValuesOf(k), Exists(d, k), fin[k] = [d[k] EXCEPT !.value = v]
      PROVE  /\ Exists(fin, k)
             /\ d[k] \in RowsOf(k) /\ fin[k] \in RowsOf(k)
             /\ fin[k].isPending = d[k].isPending
             /\ fin[k].commitmentPending = d[k].commitmentPending
             /\ fin[k].commitmentSettled = d[k].commitmentSettled
             /\ fin[k].storageKey = d[k].storageKey
             /\ \A w : [fin[k] EXCEPT !.value = w] = [d[k] EXCEPT !.value = w]
  <2>1. d[k] \in RowsOf(k)
    BY <1>1, <1>7 DEF IsTable, Exists
  <2>2. /\ fin[k] \in RowsOf(k) /\ fin[k] # NULL
        /\ fin[k].isPending = d[k].isPending
        /\ fin[k].commitmentPending = d[k].commitmentPending
        /\ fin[k].commitmentSettled = d[k].commitmentSettled
        /\ fin[k].storageKey = d[k].storageKey
    BY <1>7, <2>1, RevaluedRow
  <2>3. \A w : [fin[k] EXCEPT !.value = w] = [d[k] EXCEPT !.value = w]
    BY <1>7, <2>1 DEF RowsOf
  <2> QED  BY <2>1, <2>2, <2>3 DEF Exists
<1>2. Exists(d, k) => d[k] \in RowsOf(k)
  BY <1>1 DEF IsTable, Exists
<1>3. CASE k \in S
  <2>1. fin[k] = [d[k] EXCEPT !.value = StoredKeyring(d, k)]
    BY <1>3, <1>6
  <2>2. Exists(d, k) /\ k \in Ids /\ k \notin Factors /\ StoredKeyring(d, k) \in ValuesOf(k)
    BY <1>1, <1>3, TableMaps, KeysAssumption DEF ValuesOf, Level2
  <2> QED  BY <1>7, <2>1, <2>2
<1>4. CASE k = MANAGER
  <2>1. IsTable(Kept(b, e))
    <3>1. ASSUME NEW l \in S
          PROVE  [d[l] EXCEPT !.value = StoredKeyring(d, l)] \in RowsOf(l)
      <4>1. Exists(d, l) /\ l \in Keys /\ StoredKeyring(d, l) \in ValuesOf(l)
        BY <1>1, TableMaps, KeysAssumption DEF ValuesOf, Keys, Level2
      <4>2. d[l] \in RowsOf(l)
        BY <1>1, <4>1 DEF IsTable, Exists
      <4> QED  BY <4>1, <4>2, RevaluedRow
    <3>2. \A l \in S : l \in Level2
      BY <1>1 DEF Level2
    <3>3. /\ Kept(b, e) = [l \in Keys |-> Kept(b, e)[l]]
          /\ \A l \in S : l \in Keys =>
                Kept(b, e)[l] = [d[l] EXCEPT !.value = StoredKeyring(d, l)]
          /\ \A l \in Keys : l \notin S => Kept(b, e)[l] = d[l]
      BY DEF Kept, S
    <3> QED  BY <1>1, <3>1, <3>2, <3>3 DEF IsTable, Exists
  <2>2. StoredManager(Kept(b, e)) \in ValuesOf(k)
    BY <1>4, <2>1, TableMaps DEF ValuesOf
  <2>3. fin[k] = [d[k] EXCEPT !.value = StoredManager(Kept(b, e))]
    BY <1>4, <1>6
  <2>4. Exists(d, k) /\ k \notin Factors
    BY <1>1, <1>4, KeysAssumption
  <2> QED  BY <1>7, <2>2, <2>3, <2>4
<1>5. CASE k \notin S /\ k # MANAGER
  <2>1. fin[k] = d[k]
    BY <1>5, <1>6
  <2>2. Exists(fin, k) <=> Exists(d, k)
    BY <2>1 DEF Exists
  <2> QED  BY <1>2, <2>1, <2>2
<1> QED  BY <1>3, <1>4, <1>5

\* Half-way through a commit, the rows differ in their values only, those of
\* factors not even in these: they have nothing left to settle, and what is to
\* be revalued, and with what, is as it was.
LEMMA BetweenRows ==
    ASSUME NEW b, IsTable(b), HasStores(b), Exists(b, MANAGER),
           NEW e, e.type = "storage:commit", e.commitmentSettled \in Commitments,
           NEW d, d = SettledBy(b, e),
           NEW st, Between(st, b, e)
    PROVE  /\ \A k \in Keys :
                 /\ Exists(st, k) <=> Exists(d, k)
                 /\ Exists(d, k) =>
                       /\ st[k].isPending = d[k].isPending
                       /\ st[k].commitmentPending = d[k].commitmentPending
                       /\ st[k].commitmentSettled = d[k].commitmentSettled
                       /\ st[k].storageKey = d[k].storageKey
           /\ \A k \in Factors : st[k] = d[k]
           /\ \A s : StoredKeyring(st, s) = StoredKeyring(d, s)
           /\ SettledBy(st, e) = st
           /\ StoresOfCommit(st, e) = StoresOfCommit(b, e)
<1> DEFINE fin == Replay(b, e)
           cp == e.commitmentPending
           cs == e.commitmentSettled
<1>1. /\ st = [k \in Keys |-> st[k]]
      /\ \A k \in Keys : st[k] \in {d[k], fin[k]}
  BY DEF Between
<1> HIDE DEF fin
<1>2. ASSUME NEW k \in Keys
      PROVE  /\ Exists(st, k) <=> Exists(d, k)
             /\ Exists(d, k) =>
                   /\ st[k].isPending = d[k].isPending
                   /\ st[k].commitmentPending = d[k].commitmentPending
                   /\ st[k].commitmentSettled = d[k].commitmentSettled
                   /\ st[k].storageKey = d[k].storageKey
             /\ k \in Factors => st[k] = d[k]
  <2>1. /\ Exists(fin, k) <=> Exists(d, k)
        /\ Exists(d, k) =>
              /\ fin[k].isPending = d[k].isPending
              /\ fin[k].commitmentPending = d[k].commitmentPending
              /\ fin[k].commitmentSettled = d[k].commitmentSettled
              /\ fin[k].storageKey = d[k].storageKey
        /\ k \in Factors => fin[k] = d[k]
    BY CommitRows DEF fin
  <2>2. CASE st[k] = d[k]
    BY <2>2 DEF Exists
  <2>3. CASE st[k] = fin[k]
    BY <2>1, <2>3 DEF Exists
  <2> QED  BY <1>1, <2>2, <2>3
<1>3. Factors \subseteq Keys
  BY DEF Keys, Level2
<1>4. \A k \in Factors : st[k] = d[k]
  BY <1>2, <1>3
<1>5. ASSUME NEW s
      PROVE  StoredKeyring(st, s) = StoredKeyring(d, s)
  BY <1>4 DEF StoredKeyring, Settled, Exists
<1>6. SettledBy(st, e) = st
  <2>1. \A k \in Keys : ~(k \in Pending(st) /\ st[k].commitmentPending = cp)
    BY <1>2, CommitFacts DEF Pending
  <2>2. SettledBy(st, e) = [k \in Keys |-> st[k]]
    BY <2>1 DEF SettledBy, Commit
  <2> QED  BY <1>1, <2>2
<1>7. CommittedStores(st, cp, cs) = CommittedStores(d, cp, cs)
  BY <1>2 DEF CommittedStores
<1>8. StoresOfCommit(st, e) = StoresOfCommit(b, e)
  BY <1>6, <1>7 DEF StoresOfCommit
<1> QED  BY <1>2, <1>4, <1>5, <1>6, <1>8

\* To revalue a store's row half-way through a commit leaves it done.
LEMMA RevalueStore ==
    ASSUME NEW b, IsTable(b), HasStores(b), Exists(b, MANAGER),
           NEW e, e.type = "storage:commit", e.commitmentSettled \in Commitments,
           NEW st, Between(st, b, e),
           NEW s \in StoresOfCommit(b, e),
           NEW next, next = Update(st, s, StoredKeyring(st, s))
    PROVE  /\ Between(next, b, e)
           /\ next[s] = Replay(b, e)[s]
           /\ \A k \in Keys : k # s => next[k] = st[k]
<1> DEFINE fin == Replay(b, e)
           d == SettledBy(b, e)
           S == StoresOfCommit(b, e)
<1>1. /\ st = [k \in Keys |-> st[k]]
      /\ \A k \in Keys : st[k] \in {d[k], fin[k]}
  BY DEF Between
<1>0. s \in S
  OBVIOUS
<1> HIDE DEF fin, d, S
<1>2. s \in Ids /\ Exists(d, s) /\ s \in Keys
  BY StoresFacts DEF d, Keys, Level2
<1>3. fin[s] = [d[s] EXCEPT !.value = StoredKeyring(d, s)]
  <2>1. /\ fin = [k \in Keys |-> fin[k]]
        /\ \A k \in S : fin[k] = [d[k] EXCEPT !.value = StoredKeyring(d, k)]
        /\ \A k \in Keys : k \notin S /\ k # MANAGER => fin[k] = d[k]
        /\ fin[MANAGER] = [d[MANAGER] EXCEPT !.value = StoredManager(Kept(b, e))]
    BY CommitReplay DEF d, fin, S
  <2> QED  BY <1>0, <2>1
<1>4. \A w : [fin[s] EXCEPT !.value = w] = [d[s] EXCEPT !.value = w]
  BY <1>2, CommitRows DEF d, fin
<1>5. StoredKeyring(st, s) = StoredKeyring(d, s)
  BY BetweenRows DEF d
<1>6. [st[s] EXCEPT !.value = StoredKeyring(d, s)] = fin[s]
  BY <1>1, <1>2, <1>3, <1>4
<1>7. /\ next = [k \in Keys |-> next[k]]
      /\ next[s] = fin[s]
      /\ \A k \in Keys : k # s => next[k] = st[k]
  BY <1>1, <1>2, <1>5, <1>6 DEF Update
<1>8. \A k \in Keys : next[k] \in {d[k], fin[k]}
  BY <1>1, <1>7
<1>9. Between(next, b, e)
  BY <1>7, <1>8 DEF Between, d, fin
<1> QED  BY <1>7, <1>9 DEF fin

\* Then to revalue the manager's row leaves it all done.
LEMMA RevalueManager ==
    ASSUME NEW b, IsTable(b), HasStores(b), Exists(b, MANAGER),
           NEW e, e.type = "storage:commit", e.commitmentSettled \in Commitments,
           NEW st, Between(st, b, e),
           \A s \in StoresOfCommit(b, e) : st[s] = Replay(b, e)[s]
    PROVE  Update(st, MANAGER, StoredManager(st)) = Replay(b, e)
<1> DEFINE fin == Replay(b, e)
           d == SettledBy(b, e)
           kept == Kept(b, e)
           S == StoresOfCommit(b, e)
<1>1. /\ st = [k \in Keys |-> st[k]]
      /\ \A k \in Keys : st[k] \in {d[k], fin[k]}
      /\ \A s \in S : st[s] = fin[s]
  BY DEF Between
<1>2. \A k \in Keys :
         kept[k] = IF k \in S THEN [d[k] EXCEPT !.value = StoredKeyring(d, k)]
                              ELSE d[k]
  BY DEF Kept
<1> HIDE DEF fin, d, kept, S
<1>3. /\ fin = [k \in Keys |-> fin[k]]
      /\ \A k \in S : fin[k] = [d[k] EXCEPT !.value = StoredKeyring(d, k)]
      /\ \A k \in Keys : k \notin S /\ k # MANAGER => fin[k] = d[k]
      /\ fin[MANAGER] = [d[MANAGER] EXCEPT !.value = StoredManager(kept)]
  BY CommitReplay DEF d, fin, kept, S
<1>4. MANAGER \in Keys /\ MANAGER \notin Level2 /\ Level2 \subseteq Keys
  BY KeysAssumption DEF Keys, Level2
<1>5. \A k \in Level2 : st[k] = kept[k] /\ st[k] = fin[k]
  BY <1>1, <1>2, <1>3, <1>4
<1>6. StoredManager(st) = StoredManager(kept)
  BY <1>5 DEF StoredManager, Settled, Exists
<1>7. \A w : [fin[MANAGER] EXCEPT !.value = w] = [d[MANAGER] EXCEPT !.value = w]
  <2>1. Exists(d, MANAGER)
    BY <1>4, CommitFacts DEF d
  <2> QED  BY <1>4, <2>1, CommitRows DEF d, fin
<1>8. [st[MANAGER] EXCEPT !.value = StoredManager(kept)] = fin[MANAGER]
  BY <1>1, <1>3, <1>4, <1>7
<1>9. \A k \in Keys : k # MANAGER => st[k] = fin[k]
  BY <1>1, <1>3
<1>10. Update(st, MANAGER, StoredManager(st)) = [k \in Keys |-> fin[k]]
  BY <1>1, <1>4, <1>6, <1>8, <1>9 DEF Update
<1> QED  BY <1>3, <1>10 DEF fin

\* A commit begun again takes up where it was broken off.
LEMMA CommitAgain ==
    ASSUME NEW b, IsTable(b), HasStores(b), Exists(b, MANAGER),
           NEW e, e.type = "storage:commit", e.commitmentSettled \in Commitments,
           NEW st, st = b \/ Midway(st, b, e)
    PROVE  /\ Between(SettledBy(st, e), b, e)
           /\ StoresOfCommit(st, e) = StoresOfCommit(b, e)
<1>1. CASE st = b
  <2>1. SettledBy(b, e) = [k \in Keys |-> SettledBy(b, e)[k]]
    BY DEF SettledBy, Commit
  <2> QED  BY <1>1, <2>1 DEF Between
<1>2. CASE Midway(st, b, e)
  <2>1. Between(st, b, e)
    <3> DEFINE fin == Replay(b, e)
               d == SettledBy(b, e)
               S == StoresOfCommit(b, e)
    <3> HIDE DEF fin, d, S
    <3>1. /\ fin = [k \in Keys |-> fin[k]]
          /\ \A k \in S : fin[k] = [d[k] EXCEPT !.value = StoredKeyring(d, k)]
          /\ \A k \in Keys : k \notin S /\ k # MANAGER => fin[k] = d[k]
          /\ fin[MANAGER] = [d[MANAGER] EXCEPT !.value = StoredManager(Kept(b, e))]
      BY CommitReplay DEF d, fin, S
    <3> QED  BY <1>2, <3>1 DEF Midway, Between, fin
  <2>2. SettledBy(st, e) = st /\ StoresOfCommit(st, e) = StoresOfCommit(b, e)
    BY <2>1, BetweenRows
  <2> QED  BY <2>1, <2>2
<1> QED  BY <1>1, <1>2

\* What is processed, and the event being processed, have their tables.
LEMMA BeforeFacts ==
    ASSUME TypeInv, OwnedInv, processed < recorded
    PROVE  /\ Current \in Events
           /\ Current.type = "storage:create" =>
                 /\ processed = 0
                 /\ Current.key = MANAGER /\ Current.value \in Commitments
           /\ Current.type = "storage:pending" =>
                 /\ Current \in IdentityEvents \cup FactorEvents
                 /\ IdentityRequest(Current) \/ FactorRequest(Current)
           /\ Current.type = "storage:commit" =>
                 processed >= 1 /\ Current.commitmentSettled \in Commitments
           /\ Replayed[processed + 1] = Replay(Before, Current)
<1>1. /\ Current \in Events
      /\ Current.type = "storage:create" <=> processed = 0
      /\ processed \in Nat
      /\ processed + 1 \in 1 .. Len(archive)
      /\ Len(archive) \in Nat
  BY CurrentFacts DEF TypeInv, ChainInv, ChainTypeOK
<1>2. /\ Current.type = "storage:create" =>
             Current.key = MANAGER /\ Current.value \in Commitments
      /\ Current.type = "storage:pending" =>
             Current \in IdentityEvents \cup FactorEvents
      /\ Current.type = "storage:commit" =>
             Current.commitmentSettled \in Commitments
  BY <1>1, EventFacts
<1>3. Current.type = "storage:pending" =>
         IdentityRequest(Current) \/ FactorRequest(Current)
  BY CurrentWeb DEF OwnedInv
<1>4. (processed + 1) - 1 = processed
  BY <1>1
<1>5. Replayed[processed + 1] = Replay(Before, Current)
  BY <1>1, <1>4, ReplayedFacts DEF Before, Current
<1> QED  BY <1>1, <1>2, <1>3, <1>5

\* Steps that leave the table alone.
LEMMA ReplayFrame ==
    ASSUME TypeInv, ReplayInv, [Next]_vars,
           UNCHANGED <<storage, processed>>, recorded' \in recorded .. Len(archive),
           \/ UNCHANGED indexerVars
           \/ ixPc' \in {"fetch", "process"}
           \/ ixPc = "clearTransforming" /\ ixPc' = "markProcessed"
    PROVE  ReplayInv'
<1>1. /\ processed \in Nat /\ recorded \in Nat /\ recorded' \in Nat
      /\ recorded' >= recorded
      /\ processed \in 0 .. Len(archive)
      /\ ixPc \notin {"fetch", "process"} => processed < recorded
  BY DEF TypeInv, DbInv, DbTypeOK, ChainInv, ChainTypeOK, IndexerInv, IndexerReady
<1>2. Before' = Before
  BY <1>1, ReplayedKept DEF Before
<1>3. processed < recorded => Current' = Current
  BY LogKept
<1>4. processed < recorded => processed' < recorded'
  BY <1>1
<1>5. /\ IsTable(Before') /\ HasStores(Before')
      /\ processed' >= 1 => Exists(Before', MANAGER)
      /\ \/ storage' = Before'
         \/ processed' < recorded' /\ Midway(storage', Before', Current')
  BY <1>2, <1>3, <1>4 DEF ReplayInv
<1>6. CASE UNCHANGED indexerVars
  BY <1>1, <1>2, <1>3, <1>5, <1>6 DEF ReplayInv, indexerVars
<1>7. CASE ixPc' \in {"fetch", "process"}
  BY <1>5, <1>7 DEF ReplayInv
<1>8. CASE ixPc = "clearTransforming" /\ ixPc' = "markProcessed"
  BY <1>1, <1>2, <1>3, <1>5, <1>8 DEF ReplayInv
<1> QED  BY <1>6, <1>7, <1>8

\* Steps within an event.
LEMMA ReplayWrite ==
    ASSUME TypeInv, ReplayInv, [Next]_vars,
           UNCHANGED <<recorded, processed>>, processed < recorded,
           ixPc' \in {"setData", "updateStores", "clearTransforming", "markProcessed"},
           ixPc' = "setData" =>
              /\ Current.type = "storage:pending"
              /\ storage' \in {SetFirst(Before, Current), Replay(Before, Current)},
           ixPc' = "updateStores" =>
              /\ Current.type = "storage:commit"
              /\ Between(storage', Before, Current)
              /\ ixStores' \subseteq StoresOfCommit(Before, Current)
              /\ \A s \in StoresOfCommit(Before, Current) \ ixStores' :
                    storage'[s] = Replay(Before, Current)[s],
           ixPc' \in {"clearTransforming", "markProcessed"} =>
              storage' = Replay(Before, Current)
    PROVE  ReplayInv'
<1>1. processed \in 0 .. Len(archive) /\ Current' = Current
  BY LogKept
  DEF TypeInv, DbInv, DbTypeOK, ChainInv, ChainTypeOK, IndexerInv, IndexerReady
<1>2. Before' = Before
  BY <1>1, ReplayedKept DEF Before
<1>3. Midway(storage', Before, Current)
  BY DEF Midway
<1>4. /\ IsTable(Before') /\ HasStores(Before')
      /\ processed' >= 1 => Exists(Before', MANAGER)
  BY <1>2 DEF ReplayInv
<1> QED  BY <1>1, <1>2, <1>3, <1>4 DEF ReplayInv

\* A replay leaves a table.
LEMMA ReplayIsTable ==
    ASSUME NEW b, IsTable(b), HasStores(b), NEW e,
           e.type \in {"storage:create", "storage:pending", "storage:commit"},
           e.type = "storage:commit" =>
              Exists(b, MANAGER) /\ e.commitmentSettled \in Commitments,
           NEW st, st = Replay(b, e)
    PROVE  st = [k \in Keys |-> st[k]]
<1>0. b = [k \in Keys |-> b[k]]
  BY DEF IsTable
<1>1. CASE e.type = "storage:create"
  BY <1>0, <1>1 DEF Replay, CreateRow
<1>2. CASE e.type = "storage:pending"
  <2>1. ASSUME NEW t, t = [k \in Keys |-> t[k]], NEW k, NEW v, NEW cp, NEW s
        PROVE  Set(t, k, v, cp, s) = [j \in Keys |-> Set(t, k, v, cp, s)[j]]
    BY <2>1 DEF Set
  <2>2. st = SetFirst(b, e) \/ st = SetSecond(SetFirst(b, e), e)
    BY <1>2 DEF Replay, SetFirst, SetSecond
  <2>3. SetFirst(b, e) = [k \in Keys |-> SetFirst(b, e)[k]]
    BY <1>0, <2>1 DEF SetFirst
  <2>4. SetSecond(SetFirst(b, e), e) = [k \in Keys |-> SetSecond(SetFirst(b, e), e)[k]]
    BY <2>1, <2>3 DEF SetSecond
  <2> QED  BY <2>2, <2>3, <2>4
<1>3. CASE e.type = "storage:commit"
  <2> DEFINE d == SettledBy(b, e)
             S == StoresOfCommit(b, e)
  <2> HIDE DEF d, S
  <2>1. /\ st = [k \in Keys |-> st[k]]
        /\ \A k \in S : st[k] = [d[k] EXCEPT !.value = StoredKeyring(d, k)]
        /\ \A k \in Keys : k \notin S /\ k # MANAGER => st[k] = d[k]
        /\ st[MANAGER] = [d[MANAGER] EXCEPT !.value = StoredManager(Kept(b, e))]
    BY <1>3, CommitReplay DEF d, S
  <2> QED  BY <2>1
<1> QED  BY <1>1, <1>2, <1>3

\* An event is processed, and the next one is replayed on the table it left.
LEMMA ReplayMark ==
    ASSUME TypeInv, OwnedInv, ReplayInv, [Next]_vars, MarkProcessed,
           processed < recorded
    PROVE  ReplayInv'
<1>1. /\ processed + 1 \in 0 .. Len(archive)
      /\ storage' = storage /\ processed' = processed + 1 /\ ixPc' = "process"
      /\ ixPc = "markProcessed"
  BY DEF MarkProcessed, TypeInv, DbInv, DbTypeOK, ChainInv, ChainTypeOK,
         IndexerInv, IndexerReady
<1>2. Replayed[processed + 1] = storage
  BY <1>1, BeforeFacts DEF ReplayInv
<1>3. Before' = storage
  BY <1>1, <1>2, ReplayedKept DEF Before
<1>6. storage = [k \in Keys |-> storage[k]]
  <2> DEFINE b == Before
             e == Current
  <2>1. storage = Replay(b, e) /\ IsTable(b) /\ HasStores(b)
    BY <1>1 DEF ReplayInv
  <2>3. e.type = "storage:commit" =>
           Exists(b, MANAGER) /\ e.commitmentSettled \in Commitments
    BY BeforeFacts DEF ReplayInv
  <2>2. e.type \in {"storage:create", "storage:pending", "storage:commit"}
    BY BeforeFacts, EventFacts
  <2> HIDE DEF b, e
  <2> QED  BY <2>1, <2>2, <2>3, ReplayIsTable
<1>4. IsTable(storage) /\ HasStores(storage)
  BY <1>6 DEF TypeInv, DbInv, DbTypeOK, StoresExist, HasStores, OwnedInv, RowsOwned, IsTable
<1>5. Exists(storage, MANAGER)
  BY <1>1 DEF TypeInv, IndexerInv, IndexerReady
<1> QED  BY <1>1, <1>3, <1>4, <1>5 DEF ReplayInv

\* A request.
LEMMA ReplayRequest ==
    ASSUME TypeInv, OwnedInv, ReplayInv, [Next]_vars, ProcessPending \/ SetData,
           UNCHANGED <<recorded, processed>>, processed < recorded
    PROVE  ReplayInv'
<1> DEFINE b == Before
           e == Current
<1>1. ProcessPending => e.type = "storage:pending"
  BY DEF ProcessPending
<1>2. SetData => e.type = "storage:pending" /\ HasData(e)
  BY DEF SetData, TypeInv, IndexerInv, IndexerReady
<1>3. /\ e \in IdentityEvents \cup FactorEvents
      /\ IdentityRequest(e) \/ FactorRequest(e)
  BY <1>1, <1>2, BeforeFacts
<1>4. IsTable(b)
  BY DEF ReplayInv
<1>5. /\ \A st \in {b, SetFirst(b, e), Replay(b, e)} :
            SetFirst(st, e) \in {SetFirst(b, e), Replay(b, e)}
      /\ ~HasData(e) => Replay(b, e) = SetFirst(b, e)
      /\ HasData(e) =>
            \A st \in {SetFirst(b, e), Replay(b, e)} : SetSecond(st, e) = Replay(b, e)
  <2> HIDE DEF b, e
  <2> QED  BY <1>3, <1>4, RequestReplay
<1>6. CASE ProcessPending
  <2>1. storage \in {b, SetFirst(b, e), Replay(b, e)}
    BY <1>1, <1>6 DEF ReplayInv, Midway
  <2>2. storage' \in {SetFirst(b, e), Replay(b, e)}
    BY <1>5, <1>6, <2>1 DEF ProcessPending, SetFirst
  <2>3. ixPc' = IF HasData(e) THEN "setData" ELSE "markProcessed"
    BY <1>6 DEF ProcessPending
  <2>4. ~HasData(e) => storage' = Replay(b, e)
    BY <1>5, <2>2
  <2> QED  BY <1>1, <1>6, <2>2, <2>3, <2>4, ReplayWrite
<1>7. CASE SetData
  <2>1. storage \in {SetFirst(b, e), Replay(b, e)} /\ ixPc' = "markProcessed"
    BY <1>7 DEF SetData, ReplayInv
  <2>2. storage' = SetSecond(storage, e)
    BY <1>7 DEF SetData, SetSecond
  <2>3. storage' = Replay(b, e)
    BY <1>2, <1>5, <1>7, <2>1, <2>2
  <2> QED  BY <2>1, <2>3, ReplayWrite
<1> QED  BY <1>6, <1>7

\* A commit.
LEMMA ReplayCommit ==
    ASSUME TypeInv, OwnedInv, ReplayInv, [Next]_vars,
           ProcessCommit \/ (\E s \in Level2 : UpdateStore(s)) \/ UpdateManager,
           UNCHANGED <<recorded, processed>>, processed < recorded
    PROVE  ReplayInv'
<1> DEFINE b == Before
           e == Current
<1>1. e.type = "storage:commit"
  BY DEF ProcessCommit, UpdateStore, UpdateManager, TypeInv, IndexerInv, IndexerReady
<1>2. /\ e.commitmentSettled \in Commitments
      /\ IsTable(b) /\ HasStores(b) /\ Exists(b, MANAGER)
  BY <1>1, BeforeFacts DEF ReplayInv
<1>3. CASE ProcessCommit
  <2>1. storage = b \/ Midway(storage, b, e)
    BY DEF ReplayInv
  <2>2. /\ storage' = SettledBy(storage, e)
        /\ ixStores' = StoresOfCommit(storage, e)
        /\ ixPc' = "updateStores"
    BY <1>3 DEF ProcessCommit, SettledBy, StoresOfCommit
  <2>3. Between(storage', b, e) /\ ixStores' = StoresOfCommit(b, e)
    <3> HIDE DEF b, e
    <3> QED  BY <1>1, <1>2, <2>1, <2>2, CommitAgain
  <2> QED  BY <1>1, <2>2, <2>3, ReplayWrite
<1>4. CASE \E s \in Level2 : UpdateStore(s)
  <2>1. PICK s \in Level2 : UpdateStore(s)
    BY <1>4
  <2>2. /\ s \in ixStores /\ ixStores' = ixStores \ {s}
        /\ ixPc = "updateStores" /\ ixPc' = "updateStores"
        /\ storage' = Update(storage, s, StoredKeyring(storage, s))
    BY <2>1 DEF UpdateStore
  <2>3. /\ Between(storage, b, e)
        /\ ixStores \subseteq StoresOfCommit(b, e)
        /\ \A r \in StoresOfCommit(b, e) \ ixStores : storage[r] = Replay(b, e)[r]
    BY <2>2 DEF ReplayInv
  <2>4. /\ Between(storage', b, e)
        /\ storage'[s] = Replay(b, e)[s]
        /\ \A k \in Keys : k # s => storage'[k] = storage[k]
    <3> HIDE DEF b, e
    <3> QED  BY <1>1, <1>2, <2>2, <2>3, RevalueStore
  <2>5. \A r \in StoresOfCommit(b, e) : r \in Keys
    <3> HIDE DEF b, e
    <3>1. \A r \in StoresOfCommit(b, e) : r \in Ids
      BY <1>2, StoresFacts
    <3> QED  BY <3>1 DEF Keys, Level2
  <2>6. \A r \in StoresOfCommit(b, e) \ ixStores' : storage'[r] = Replay(b, e)[r]
    BY <2>2, <2>3, <2>4, <2>5
  <2> QED  BY <1>1, <2>2, <2>3, <2>4, <2>6, ReplayWrite
<1>5. CASE UpdateManager
  <2>1. /\ ixStores = {} /\ ixPc = "updateStores" /\ ixPc' = "clearTransforming"
        /\ storage' = Update(storage, MANAGER, StoredManager(storage))
    BY <1>5 DEF UpdateManager
  <2>2. /\ Between(storage, b, e)
        /\ \A r \in StoresOfCommit(b, e) : storage[r] = Replay(b, e)[r]
    BY <2>1 DEF ReplayInv
  <2>3. storage' = Replay(b, e)
    <3> HIDE DEF b, e
    <3> QED  BY <1>1, <1>2, <2>1, <2>2, RevalueManager
  <2> QED  BY <2>1, <2>3, ReplayWrite
<1> QED  BY <1>3, <1>4, <1>5

\* The deployment's event.
LEMMA ReplayCreate ==
    ASSUME TypeInv, OwnedInv, ReplayInv, [Next]_vars, ProcessCreate
    PROVE  ReplayInv'
<1>1. /\ processed < recorded /\ UNCHANGED <<recorded, processed>>
      /\ Current.type = "storage:create" /\ ~Exists(storage, Current.key)
      /\ storage' = CreateRow(storage, Current.key, Current.value)
      /\ ixPc' = "markProcessed"
  BY DEF ProcessCreate
<1>2. Current.key = MANAGER /\ Current.value \in Commitments /\ MANAGER \in Keys
  BY <1>1, BeforeFacts DEF Keys
<1>3. storage = Before
  <2>1. SUFFICES ASSUME storage = Replay(Before, Current) PROVE FALSE
    BY <1>1 DEF ReplayInv, Midway
  <2>2. Before = [k \in Keys |-> Before[k]]
    BY DEF ReplayInv, IsTable
  <2> DEFINE row == [value |-> Current.value, isPending |-> FALSE,
                     commitmentPending |-> NULL,
                     commitmentSettled |-> Current.value, storageKey |-> NULL]
  <2>3. row \in RowsOf(MANAGER)
    BY <1>2 DEF RowsOf, ValuesOf, StoresOf
  <2>4. row # NULL
    BY <1>2, <2>3, RowAssumption
  <2>5. storage[MANAGER] = row
    BY <1>1, <1>2, <2>1, <2>2 DEF Replay, CreateRow
  <2> QED  BY <1>1, <1>2, <2>4, <2>5 DEF Exists
<1>4. storage' = Replay(Before, Current)
  BY <1>1, <1>3 DEF Replay
<1> QED  BY <1>1, <1>4, ReplayWrite

LEMMA ReplayInvStep ==
    TypeInv /\ OwnedInv /\ ReplayInv /\ [Next]_vars => ReplayInv'
<1> SUFFICES ASSUME TypeInv, OwnedInv, ReplayInv, [Next]_vars PROVE ReplayInv'
  OBVIOUS
<1>1. /\ recorded \in Nat /\ recorded \in recorded .. Len(archive)
      /\ ixPc \notin {"fetch", "process"} => processed < recorded
  BY DEF TypeInv, DbInv, DbTypeOK, ChainInv, ChainTypeOK, IndexerInv, IndexerReady
<1>2. CASE UNCHANGED <<storage, recorded, processed, indexerVars>>
  BY <1>1, <1>2, ReplayFrame
<1>3. CASE Fetch \/ EndCycle \/ IndexerThrows \/ IndexerCrash
  BY <1>1, <1>3, ReplayFrame
  DEF Fetch, EndCycle, IndexerThrows, IndexerCrash, Restart, dbVars
<1>4. CASE ClearTransforming
  BY <1>1, <1>4, ReplayFrame DEF ClearTransforming
<1>5. CASE ProcessCreate
  BY <1>5, ReplayCreate
<1>6. CASE ProcessPending \/ SetData
  BY <1>1, <1>6, ReplayRequest DEF ProcessPending, SetData
<1>7. CASE ProcessCommit \/ (\E s \in Level2 : UpdateStore(s)) \/ UpdateManager
  <2>1. UNCHANGED <<recorded, processed>> /\ processed < recorded
    BY <1>1, <1>7 DEF ProcessCommit, UpdateStore, UpdateManager
  <2> QED  BY <1>7, <2>1, ReplayCommit
<1>8. CASE MarkProcessed
  BY <1>1, <1>8, ReplayMark DEF MarkProcessed
<1> QED  BY <1>2, <1>3, <1>4, <1>5, <1>6, <1>7, <1>8, StepKinds DEF IndexerStep

LEMMA ReplayInvInit == Init => ReplayInv
<1> SUFFICES ASSUME Init PROVE ReplayInv
  OBVIOUS
<1>1. /\ storage = NoRows /\ processed = 0 /\ ixPc = "fetch"
      /\ Len(archive) \in Nat
  BY DEF Init, ChainInit, DbInit, IndexerInit, NoRows
<1>2. Before = NoRows
  BY <1>1, ReplayedFacts DEF Before
<1>3. IsTable(NoRows) /\ HasStores(NoRows)
  BY DEF IsTable, HasStores, NoRows, Exists
<1> QED  BY <1>1, <1>2, <1>3 DEF ReplayInv

\* However often the indexer is stopped in the middle of an event and starts
\* again, storage is a function of the log: an event marked as processed has
\* had the effect of one uninterrupted replay.
THEOREM AlwaysReplayedExactly ==
    ASSUME WebMethodsOnly
    PROVE  Spec => []ReplayedExactly
<1>1. TypeInv /\ OwnedInv /\ ReplayInv => ReplayedExactly
  <2> SUFFICES ASSUME TypeInv, OwnedInv, ReplayInv, ixPc = "markProcessed"
               PROVE  storage = Replayed[processed + 1]
    BY DEF ReplayedExactly
  <2>1. processed < recorded
    BY DEF TypeInv, IndexerInv, IndexerReady
  <2> QED  BY <2>1, BeforeFacts DEF ReplayInv
<1> QED
  BY <1>1, TypeInvariant, OwnedInvariant, ReplayInvInit, ReplayInvStep, PTL DEF Spec

-----------------------------------------------------------------------------
(***************************************************************************)
(* Maps of identities, and what the table "storage" has of them.           *)
(***************************************************************************)

\* Factor f is in the keyring of i in the map c.
Has(c, i, f) == c[i] # EMPTY /\ c[i][f] = PRESENT

\* No identity or factor of c is missing in d.
Grows(c, d) ==
    \A i \in Ids : c[i] # EMPTY =>
        d[i] # EMPTY /\ \A f \in Factors : Has(c, i, f) => Has(d, i, f)

\* A factor is in a keyring or not.
PlainRing(ring) == \A f \in Factors : ring[f] \in {EMPTY, PRESENT}
Plain(c) == \A i \in Ids : c[i] # EMPTY => PlainRing(c[i])

\* Factor f has a row in the store of i.
RowIn(st, i, f) == Exists(st, f) /\ st[f].storageKey = i

\* The identities and factors of c have their rows.
Covers(st, c) ==
    \A i \in Ids : c[i] # EMPTY =>
        Exists(st, i) /\ \A f \in Factors : Has(c, i, f) => RowIn(st, i, f)

\* The request e is for factor f of identity i to be there.
AsksFor(e, i, f) ==
    /\ e.type = "storage:pending"
    /\ \/ e.key = i /\ f = OpKey[i]
       \/ e.id = i /\ e.key = f

\* The commitment that the events storage has processed lead to.
Reached == After(archive[processed])

LEMMA GrowsFacts ==
    ASSUME NEW b, NEW c, NEW d
    PROVE  /\ Grows(c, c)
           /\ Grows(b, c) /\ Grows(c, d) => Grows(b, d)
BY DEF Grows, Has

\* Rows stay, and so does what they cover.
LEMMA CoversKept ==
    ASSUME NEW st, NEW st2,
           \A k \in Keys : Exists(st, k) => /\ Exists(st2, k)
                                            /\ st2[k].storageKey = st[k].storageKey
    PROVE  /\ \A i \in Ids, f \in Factors : RowIn(st, i, f) => RowIn(st2, i, f)
           /\ \A c : Covers(st, c) => Covers(st2, c)
BY DEF Covers, RowIn, Keys, Level2

\* What is in a map that grows is covered where the map it becomes is.
LEMMA CoversLess ==
    ASSUME NEW st, NEW c, NEW d, Grows(c, d), Covers(st, d)
    PROVE  Covers(st, c)
BY DEF Covers, Grows, Has

-----------------------------------------------------------------------------
(***************************************************************************)
(* The inductive invariant, by parts.                                      *)
(***************************************************************************)

\* The log only adds to the map: users' transactions keep it, and a commit
\* under way settles a larger one whose factors all have rows.
MapsGrow ==
    /\ \A m, n \in 1 .. Len(archive) :
          m <= n => Grows(After(archive[m]), After(archive[n]))
    /\ After(archive[1]) = NoIdentities
    /\ Plain(commitment) /\ Covers(storage, commitment)
    /\ \A t \in mempool :
          /\ Len(t.events) = 1
          /\ Grows(t.pre, t.post)
          /\ Plain(t.post) /\ Covers(storage, t.post)

\* The stored keyring of an identity has the factors that have rows, and the
\* operator key when the event that brings it is being processed.
KeyringsBacked ==
    \A i \in Ids : Exists(storage, i) =>
        /\ PlainRing(storage[i].value)
        /\ \A f \in Factors : storage[i].value[f] = PRESENT =>
              \/ RowIn(storage, i, f)
              \/ /\ f = OpKey[i]
                 /\ storage[i].isPending
                 /\ processed < recorded
                 /\ Current.type = "storage:pending"
                 /\ Current.key = i
                 /\ ixPc # "markProcessed"

\* A settled factor is in the stored keyring, or the commit being processed
\* has yet to put it there.
RowsStored ==
    \A i \in Ids, f \in Factors :
        RowIn(storage, i, f) /\ ~storage[f].isPending =>
            \/ storage[i].value[f] = PRESENT
            \/ /\ processed < recorded
               /\ Current.type = "storage:commit"
               /\ storage[f].commitmentPending = Current.commitmentPending
               /\ storage[f].commitmentSettled = Current.commitmentSettled
               /\ \/ ixPc \in {"fetch", "process"}
                  \/ ixPc = "updateStores" /\ i \in ixStores

\* What was committed is stored, what is pending is not committed, and rows
\* other than the operator key's are of committed identities.
CommittedStored ==
    /\ processed >= 1 =>
          \A i \in Ids :
              /\ Exists(storage, i) /\ storage[i].isPending
                    => Reached[i] = EMPTY
              /\ \A f \in Factors :
                    /\ Has(Reached, i, f) => storage[i].value[f] = PRESENT
                    /\ RowIn(storage, i, f) /\ storage[f].isPending
                          => ~Has(Reached, i, f)
    /\ \A i \in Ids, f \in Factors :
          RowIn(storage, i, f) /\ f # OpKey[i]
              => processed >= 1 /\ Reached[i] # EMPTY

\* A factor has a row only if it was asked for.
RowsAsked ==
    \A i \in Ids, f \in Factors : RowIn(storage, i, f) =>
        \E n \in 1 .. Len(archive) : AsksFor(archive[n], i, f)

RowsBacked == KeyringsBacked /\ RowsStored /\ CommittedStored /\ RowsAsked

\* What the prover has read, and what it makes of it.
ProverBacked ==
    /\ pvPc = "query" => pvMaps = NoMaps
    /\ pvPc \in {"restoreStores", "send"} =>
          processed >= 1 /\ Grows(pvPending, Reached)
    /\ \A r \in pvRows : /\ r.key \in Factors
                         /\ r.value = PRESENT
                         /\ r.storageKey \in Ids
                         /\ RowIn(storage, r.storageKey, r.key)
    /\ \A s \in Ids : pvMaps[s] # NULL =>
          /\ Exists(storage, s)
          /\ PlainRing(pvMaps[s])
          /\ \A f \in Factors :
                /\ pvMaps[s][f] = PRESENT => RowIn(storage, s, f)
                /\ pvPc = "restoreStores" /\ Has(pvPending, s, f)
                      => pvMaps[s][f] = PRESENT
    /\ pvPc = "send" =>
          /\ Grows(pvPending, pvSettled)
          /\ Plain(pvSettled)
          /\ Covers(storage, pvSettled)

-----------------------------------------------------------------------------
(***************************************************************************)
(* Rows and log from one state to the next.                                *)
(***************************************************************************)

\* No step deletes a row or moves it.
LEMMA RowsAlwaysStay ==
    ASSUME TypeInv, [Next]_vars
    PROVE  /\ \A k \in Keys : Exists(storage, k) =>
                 /\ Exists(storage', k)
                 /\ storage'[k].storageKey = storage[k].storageKey
           /\ \A i \in Ids, f \in Factors :
                 RowIn(storage, i, f) => RowIn(storage', i, f)
           /\ \A c : Covers(storage, c) => Covers(storage', c)
<1>1. ASSUME NEW k \in Keys, Exists(storage, k)
      PROVE  /\ Exists(storage', k)
             /\ storage'[k].storageKey = storage[k].storageKey
  <2>1. CASE IndexerStep \/ IndexerCrash
    BY <1>1, <2>1, IndexerTableSteps, RowsStay
  <2>2. CASE UNCHANGED storage
    BY <1>1, <2>2
  <2> QED
    BY <2>1, <2>2, StepKinds
<1> QED
  BY <1>1, CoversKept

\* Positions in the log.
LEMMA LogPositions ==
    ASSUME TypeInv
    PROVE  /\ archive \in Seq(Events)
           /\ Len(archive) \in Nat /\ Len(archive) >= 1
           /\ processed \in Nat /\ recorded \in Nat
           /\ processed <= recorded /\ recorded <= Len(archive)
           /\ processed >= 1 => processed \in 1 .. Len(archive)
           /\ processed < recorded =>
                 /\ processed + 1 \in 1 .. Len(archive)
                 /\ processed = 0 <=> Current.type = "storage:create"
<1>1. /\ archive \in Seq(Events) /\ archive # <<>>
      /\ processed \in Nat /\ recorded \in Nat
      /\ processed <= recorded /\ recorded <= Len(archive)
  BY DEF TypeInv, ChainInv, ChainTypeOK, CreatedFirst, DbInv, DbTypeOK,
         IndexerInv, IndexerReady
<1> QED
  BY <1>1, CurrentFacts DEF TypeInv

\* The commitment storage has reached stays until it has processed an event.
LEMMA ReachedKept ==
    ASSUME TypeInv, [Next]_vars, processed >= 1, UNCHANGED processed
    PROVE  Reached' = Reached
<1>1. processed \in 1 .. recorded
  BY LogPositions
<1> QED
  BY <1>1, LogKept DEF Reached

\* An event of the log was committed to by the zkApp's commitment.
LEMMA ReachedBelow ==
    ASSUME TypeInv, LogInv, MapsGrow
    PROVE  /\ \A n \in 1 .. Len(archive) : Grows(After(archive[n]), commitment)
           /\ processed >= 1 => Grows(Reached, commitment)
           /\ \A n \in 1 .. Len(archive) : Covers(storage, After(archive[n]))
<1>1. ASSUME NEW n \in 1 .. Len(archive)
      PROVE  Grows(After(archive[n]), commitment)
  <2>1. Len(archive) \in 1 .. Len(archive) /\ n <= Len(archive)
    BY LogPositions
  <2> QED
    BY <2>1 DEF MapsGrow, LogInv, LogLinked
<1>2. ASSUME NEW n \in 1 .. Len(archive)
      PROVE  Covers(storage, After(archive[n]))
  BY <1>1, CoversLess DEF MapsGrow
<1> QED
  BY <1>1, <1>2, LogPositions DEF Reached

-----------------------------------------------------------------------------
(***************************************************************************)
(* The log and the transactions under way.                                 *)
(***************************************************************************)

\* A web app's transaction has one event.
LEMMA MethodEmitsOne ==
    ASSUME NEW p, p.method \in {"addIdentity", "addAuthNFactor"}
    PROVE  Len(Emits(p)) = 1
<1>1. CASE p.method = "addIdentity"
  <2> DEFINE e == EventStoragePending(commitment, MANAGER, p.id,
                     FirstKeyring(p.id), <<FirstKeyring(p.id), OpKey[p.id], PRESENT>>)
  <2>1. Emits(p) = <<e>>
    BY <1>1 DEF Emits, AddIdentityEvents
  <2> HIDE DEF e
  <2> QED
    BY <2>1
<1>2. CASE p.method = "addAuthNFactor"
  <2> DEFINE e == EventStoragePending(commitment, p.id, p.factor, PRESENT,
                                      <<PROTOCOL, PROTOCOL, EMPTY>>)
  <2>1. Emits(p) = <<e>>
    BY <1>2 DEF Emits, AddAuthNFactorEvents
  <2> HIDE DEF e
  <2> QED
    BY <2>1
<1> QED
  BY <1>1, <1>2

\* A transaction is sent.
LEMMA MapsGrowSend ==
    ASSUME MapsGrow, NEW t, mempool' = mempool \cup {t},
           UNCHANGED <<commitment, archive>>,
           \A c : Covers(storage, c) => Covers(storage', c),
           Len(t.events) = 1, Grows(t.pre, t.post), Plain(t.post),
           Covers(storage, t.post)
    PROVE  MapsGrow'
BY DEF MapsGrow

\* A transaction is in a block.
LEMMA MapsGrowInclude ==
    ASSUME TypeInv, LogInv, MapsGrow, NEW t \in mempool, Include(t),
           \A c : Covers(storage, c) => Covers(storage', c)
    PROVE  MapsGrow'
<1>1. /\ archive \in Seq(Events) /\ t.events \in Seq(Events)
      /\ Len(archive) \in Nat /\ Len(archive) >= 1
      /\ archive' = archive \o t.events /\ Len(t.events) = 1
  BY LogPositions
  DEF Include, MapsGrow, TypeInv, ChainInv, ChainTypeOK, Transactions
<1>2. /\ Len(archive') = Len(archive) + 1
      /\ \A n \in 1 .. Len(archive) : archive'[n] = archive[n]
      /\ archive'[Len(archive) + 1] = t.events[1]
  <2>1. /\ Len(archive') = Len(archive) + Len(t.events)
        /\ \A n \in 1 .. Len(archive) : archive'[n] = archive[n]
        /\ \A n \in Len(archive) + 1 .. Len(archive') :
              archive'[n] = t.events[n - Len(archive)]
    <3> DEFINE es == archive \o t.events
    <3>1. /\ Len(es) = Len(archive) + Len(t.events)
          /\ \A n \in 1 .. Len(archive) : es[n] = archive[n]
          /\ \A n \in Len(archive) + 1 .. Len(es) :
                es[n] = t.events[n - Len(archive)]
      <4>1. archive \in Seq(Events) /\ t.events \in Seq(Events)
        BY <1>1
      <4> QED
        BY <4>1, ConcatFacts, Zenon
    <3> HIDE DEF es
    <3> QED
      BY <1>1, <3>1 DEF es
  <2>2. (Len(archive) + 1) - Len(archive) = 1
    BY <1>1
  <2> QED
    BY <1>1, <2>1, <2>2
<1>3. After(t.events[1]) = t.post /\ Grows(commitment, t.post)
  BY <1>1 DEF LogInv, TxnInv, MapsGrow, Include
<1>4. ASSUME NEW m \in 1 .. Len(archive'), NEW n \in 1 .. Len(archive'), m <= n
      PROVE  Grows(After(archive'[m]), After(archive'[n]))
  <2>1. CASE n <= Len(archive)
    <3>1. m \in 1 .. Len(archive) /\ n \in 1 .. Len(archive)
      BY <1>1, <1>2, <1>4, <2>1
    <3> QED
      BY <1>2, <1>4, <3>1 DEF MapsGrow
  <2>2. CASE m <= Len(archive) /\ n = Len(archive) + 1
    <3>1. Grows(After(archive[m]), commitment)
      BY <1>1, <2>2, ReachedBelow
    <3>2. /\ After(archive'[m]) = After(archive[m])
          /\ After(archive'[n]) = t.post
      BY <1>1, <1>2, <1>3, <2>2
    <3> QED
      BY <1>3, <3>1, <3>2, GrowsFacts
  <2>3. CASE m = n
    BY <2>3, GrowsFacts
  <2> QED
    BY <1>1, <1>2, <1>4, <2>1, <2>2, <2>3
<1>5. After(archive'[1]) = NoIdentities
  BY <1>1, <1>2 DEF MapsGrow
<1>6. /\ Plain(commitment') /\ Covers(storage', commitment')
      /\ \A s \in mempool' : /\ Len(s.events) = 1
                             /\ Grows(s.pre, s.post)
                             /\ Plain(s.post) /\ Covers(storage', s.post)
  BY DEF MapsGrow, Include
<1> QED
  BY <1>4, <1>5, <1>6 DEF MapsGrow

LEMMA MapsGrowStep ==
    ASSUME WebMethodsOnly
    PROVE  TypeInv /\ LogInv /\ WebInv /\ MapsGrow /\ ProverBacked /\ [Next]_vars
              => MapsGrow'
<1> SUFFICES ASSUME TypeInv, LogInv, WebInv, MapsGrow, ProverBacked, [Next]_vars
             PROVE  MapsGrow'
  OBVIOUS
<1>1. \A c : Covers(storage, c) => Covers(storage', c)
  BY RowsAlwaysStay
<1>2. ASSUME UNCHANGED <<commitment, archive>>, mempool' \subseteq mempool
      PROVE  MapsGrow'
  BY <1>1, <1>2 DEF MapsGrow
<1>3. CASE Users
  <2>1. PICK u \in Clients : ClientStep(u)
    BY <1>3 DEF Users
  <2>2. CASE Prove(u)
    <3>1. client[u].method \in {"addIdentity", "addAuthNFactor"}
      BY <2>2 DEF Prove, WebInv, WebMethodsOnly
    <3> DEFINE t == [origin |-> "user", serial |-> sends + 1,
                     pre |-> commitment, post |-> commitment,
                     events |-> Emits(client[u])]
    <3>2. mempool' = mempool \cup {t} /\ UNCHANGED <<commitment, archive>>
      BY <2>2 DEF Prove, SendUser
    <3>3. Len(t.events) = 1 /\ t.pre = commitment /\ t.post = commitment
      BY <3>1, MethodEmitsOne
    <3> HIDE DEF t
    <3>4. Grows(t.pre, t.post) /\ Plain(t.post) /\ Covers(storage, t.post)
      BY <3>3, GrowsFacts DEF MapsGrow
    <3> QED
      BY <1>1, <3>2, <3>3, <3>4, MapsGrowSend
  <2>3. CASE UNCHANGED chainVars
    BY <1>2, <2>3 DEF chainVars
  <2> QED
    BY <2>1, <2>2, <2>3 DEF ClientStep, ProveFails
<1>4. CASE Network
  <2>1. CASE \E t \in mempool : Include(t)
    BY <1>1, <2>1, MapsGrowInclude
  <2>2. CASE \E t \in mempool : Reject(t) \/ Drop(t)
    BY <1>2, <2>2 DEF Reject, Drop
  <2> QED
    BY <1>4, <2>1, <2>2 DEF Network, IncludeTxn
<1>5. CASE Proving
  <2>1. CASE Send
    <3> DEFINE e == EventStorageCommit(pvPending, pvSettled)
               t == [origin |-> "prover", serial |-> commits + 1,
                     pre |-> commitment, post |-> pvSettled, events |-> <<e>>]
    <3>1. /\ mempool' = mempool \cup {t} /\ UNCHANGED <<commitment, archive>>
          /\ pvPending = commitment /\ pvPc = "send"
      BY <2>1 DEF Send, CommitPendingXforms
    <3> HIDE DEF e
    <3>2. Len(t.events) = 1 /\ t.pre = pvPending /\ t.post = pvSettled
      BY <3>1
    <3> HIDE DEF t
    <3>3. Grows(t.pre, t.post) /\ Plain(t.post) /\ Covers(storage, t.post)
      BY <3>1, <3>2 DEF ProverBacked
    <3> QED
      BY <1>1, <3>1, <3>2, <3>3, MapsGrowSend
  <2>2. CASE UNCHANGED chainVars
    BY <1>2, <2>2 DEF chainVars
  <2> QED
    BY <1>5, <2>1, <2>2 DEF Proving, ProverStep, SendFails
<1>6. CASE Indexing \/ Crash \/ UNCHANGED vars
  <2>1. UNCHANGED chainVars
    <3>1. CASE Indexing
      BY <3>1 DEF Indexing
    <3>2. CASE Crash
      BY <3>2, Zenon DEF Crash
    <3>3. CASE UNCHANGED vars
      BY <3>3 DEF vars
    <3> QED
      BY <1>6, <3>1, <3>2, <3>3
  <2> QED
    BY <1>2, <2>1 DEF chainVars
<1> QED
  BY <1>3, <1>4, <1>5, <1>6 DEF Next

-----------------------------------------------------------------------------
(***************************************************************************)
(* The rows: the steps of the indexer, one by one.                         *)
(***************************************************************************)

\* What a request says of the map it was proved on.
LEMMA RequestFacts ==
    ASSUME TypeInv, LogInv, WebInv, processed < recorded,
           Current.type = "storage:pending"
    PROVE  /\ processed >= 1
           /\ Current.commitmentPending = Reached
           /\ IdentityRequest(Current) =>
                 /\ Current.key \in Ids /\ OpKey[Current.key] \in Factors
                 /\ Reached[Current.key] = EMPTY
           /\ ~IdentityRequest(Current) =>
                 /\ FactorRequest(Current)
                 /\ Current.key \in Factors /\ Current.key \notin Ids
                 /\ Current.key # OpKey[Current.id]
                 /\ Reached[Current.id] # EMPTY
                 /\ Reached[Current.id][Current.key] = EMPTY
<1>1. /\ processed >= 1
      /\ Current.commitmentPending = Reached
      /\ Justified(Current)
  BY CurrentLinked DEF Reached
<1>2. IdentityRequest(Current) \/ FactorRequest(Current)
  BY CurrentWeb
<1> QED
  BY <1>1, <1>2, KeysAssumption
  DEF IdentityRequest, FactorRequest, Justified

\* The first keyring has the operator key alone.
LEMMA FirstKeyringFacts ==
    ASSUME NEW i \in Ids
    PROVE  /\ PlainRing(FirstKeyring(i))
           /\ \A f \in Factors : FirstKeyring(i)[f] = PRESENT <=> f = OpKey[i]
BY KeysAssumption, FieldAssumption DEF FirstKeyring, EmptyMap, PlainRing

\* A request for an identity: the identity's row has its first keyring.
LEMMA BackedIdentity ==
    ASSUME TypeInv, LogInv, WebInv, RowsBacked, UNCHANGED chainVars,
           ProcessPending, IdentityRequest(Current)
    PROVE  RowsBacked'
<1> DEFINE i == Current.key
<1>1. /\ processed < recorded /\ Current.type = "storage:pending"
      /\ ixPc = "process" /\ ixPc' = "setData"
      /\ UNCHANGED <<recorded, processed, ixStores, archive>>
  <2>1. HasData(Current)
    BY RequestKinds DEF IdentityRequest
  <2> QED
    BY <2>1 DEF ProcessPending, chainVars
<1>2. i \in Ids /\ Reached[i] = EMPTY /\ processed >= 1
  BY <1>1, RequestFacts
<1>3. SetsRow(i, FirstKeyring(i), Current.commitmentPending, MANAGER)
  BY ProcessPendingWrites DEF IdentityRequest
<1>4. Current' = Current /\ Reached' = Reached
  BY <1>1 DEF Current, Reached
<1> HIDE DEF i
<1>5. /\ \A k \in Level2 \ {i} : storage'[k] = storage[k]
      /\ \A f \in Factors : storage'[f] = storage[f]
      /\ Exists(storage', i)
      /\ storage'[i].value = FirstKeyring(i)
      /\ storage'[i].isPending = TRUE
  BY <1>2, <1>3, KeysAssumption DEF SetsRow, Keys, Level2
<1>6. \A j \in Ids, f \in Factors : RowIn(storage', j, f) <=> RowIn(storage, j, f)
  BY <1>5 DEF RowIn, Exists
<1>7. KeyringsBacked'
  <2> SUFFICES ASSUME NEW j \in Ids, Exists(storage', j)
               PROVE  /\ PlainRing(storage'[j].value)
                      /\ \A f \in Factors : storage'[j].value[f] = PRESENT =>
                            \/ RowIn(storage', j, f)
                            \/ /\ f = OpKey[j]
                               /\ storage'[j].isPending
                               /\ processed < recorded
                               /\ Current.type = "storage:pending"
                               /\ Current.key = j
                               /\ ixPc' # "markProcessed"
    BY <1>1, <1>4 DEF KeyringsBacked
  <2>1. CASE j = i
    <3>1. storage'[j].value = FirstKeyring(j) /\ storage'[j].isPending
      BY <1>5, <2>1
    <3>2. Current.key = j
      BY <2>1 DEF i
    <3> QED
      BY <1>1, <3>1, <3>2, FirstKeyringFacts
  <2>2. CASE j # i
    <3>1. storage'[j] = storage[j] /\ Exists(storage, j) /\ Current.key # j
      BY <1>5, <2>2 DEF Exists, Level2, i
    <3> QED
      BY <1>6, <3>1 DEF RowsBacked, KeyringsBacked
  <2> QED
    BY <2>1, <2>2
<1>8. RowsStored'
  <2> SUFFICES ASSUME NEW j \in Ids, NEW f \in Factors, RowIn(storage', j, f),
                      ~storage'[f].isPending
               PROVE  storage'[j].value[f] = PRESENT
    BY DEF RowsStored
  <2>1. storage[j].value[f] = PRESENT /\ RowIn(storage, j, f)
    BY <1>1, <1>5, <1>6 DEF RowsBacked, RowsStored
  <2>2. CASE j = i
    <3>1. f = OpKey[j]
      BY <1>2, <2>1, <2>2 DEF RowsBacked, CommittedStored
    <3> QED
      BY <1>5, <2>2, <3>1, FirstKeyringFacts
  <2>3. CASE j # i
    BY <1>5, <2>1, <2>3 DEF Level2
  <2> QED
    BY <2>2, <2>3
<1>9. CommittedStored'
  <2>1. ASSUME NEW j \in Ids
        PROVE  /\ Exists(storage', j) /\ storage'[j].isPending
                     => Reached[j] = EMPTY
               /\ \A f \in Factors :
                     /\ Has(Reached, j, f) => storage'[j].value[f] = PRESENT
                     /\ RowIn(storage', j, f) /\ storage'[f].isPending
                           => ~Has(Reached, j, f)
    <3>1. CASE j = i
      BY <1>2, <3>1 DEF Has
    <3>2. CASE j # i
      BY <1>2, <1>5, <1>6, <3>2
      DEF RowsBacked, CommittedStored, Level2, Exists
    <3> QED
      BY <3>1, <3>2
  <2>2. \A j \in Ids, f \in Factors :
           RowIn(storage', j, f) /\ f # OpKey[j] => Reached[j] # EMPTY
    BY <1>6 DEF RowsBacked, CommittedStored
  <2> QED
    BY <1>1, <1>2, <1>4, <2>1, <2>2 DEF CommittedStored
<1>10. RowsAsked'
  BY <1>1, <1>6 DEF RowsBacked, RowsAsked
<1> QED
  BY <1>7, <1>8, <1>9, <1>10 DEF RowsBacked

\* A factor's row is set, pending, in the store of its owner i: the invariant
\* is kept if it was asked for and is not in the map reached.
LEMMA BackedFactorRow ==
    ASSUME OwnSecretsOnly, TypeInv, RowsOwned, RowsBacked, UNCHANGED archive,
           UNCHANGED <<recorded, processed>>,
           NEW i \in Ids, NEW f \in Factors, f \in Owned(i), NEW cp,
           SetsRow(f, PRESENT, cp, i),
           processed >= 1, ~Has(Reached, i, f),
           f # OpKey[i] => Reached[i] # EMPTY,
           \E n \in 1 .. Len(archive) : AsksFor(archive[n], i, f),
           Current.type = "storage:pending",
           Current.key \in Ids => Current.key = i /\ f = OpKey[i],
           ixPc' = "markProcessed"
    PROVE  RowsBacked'
<1>1. /\ \A j \in Ids : storage'[j] = storage[j]
      /\ \A g \in Factors \ {f} : storage'[g] = storage[g]
      /\ Exists(storage', f) /\ storage'[f].isPending
      /\ \A g \in Factors : g \in Keys
  BY KeysAssumption DEF SetsRow, Keys, Level2
<1>2. storage'[f].storageKey = i
  BY KeysAssumption DEF SetsRow, RowsOwned, OwnSecretsOnly
<1>3. \A j \in Ids, g \in Factors :
         RowIn(storage', j, g) <=> RowIn(storage, j, g) \/ (j = i /\ g = f)
  <2> SUFFICES ASSUME NEW j \in Ids, NEW g \in Factors
      PROVE  RowIn(storage', j, g) <=> RowIn(storage, j, g) \/ (j = i /\ g = f)
    OBVIOUS
  <2>1. CASE g = f
    <3>1. RowIn(storage, j, f) => j = i
      BY OwnSecretsOnly DEF RowIn, RowsOwned, OwnSecretsOnly
    <3> QED
      BY <1>1, <1>2, <2>1, <3>1 DEF RowIn
  <2>2. CASE g # f
    BY <1>1, <2>2 DEF RowIn, Exists
  <2> QED
    BY <2>1, <2>2
<1>4. Current' = Current /\ Reached' = Reached
  BY DEF Current, Reached
<1>5. KeyringsBacked'
  <2> SUFFICES ASSUME NEW j \in Ids, Exists(storage', j)
               PROVE  /\ PlainRing(storage'[j].value)
                      /\ \A g \in Factors : storage'[j].value[g] = PRESENT =>
                            RowIn(storage', j, g)
    BY DEF KeyringsBacked
  <2>1. storage'[j] = storage[j] /\ Exists(storage, j)
    BY <1>1 DEF Exists
  <2>2. Current.key = j => j = i /\ f = OpKey[j]
    OBVIOUS
  <2> QED
    BY <1>3, <2>1, <2>2 DEF RowsBacked, KeyringsBacked
<1>6. RowsStored'
  <2> SUFFICES ASSUME NEW j \in Ids, NEW g \in Factors, RowIn(storage', j, g),
                      ~storage'[g].isPending
               PROVE  storage'[j].value[g] = PRESENT
    BY DEF RowsStored
  <2>1. RowIn(storage, j, g) /\ ~storage[g].isPending
    BY <1>1, <1>3
  <2> QED
    BY <1>1, <2>1 DEF RowsBacked, RowsStored
<1>7. CommittedStored'
  <2>1. ASSUME NEW j \in Ids
        PROVE  /\ Exists(storage', j) /\ storage'[j].isPending
                     => Reached[j] = EMPTY
               /\ \A g \in Factors :
                     /\ Has(Reached, j, g) => storage'[j].value[g] = PRESENT
                     /\ RowIn(storage', j, g) /\ storage'[g].isPending
                           => ~Has(Reached, j, g)
    <3>1. storage'[j] = storage[j]
      BY <1>1
    <3>2. ASSUME NEW g \in Factors, RowIn(storage', j, g), storage'[g].isPending
          PROVE  ~Has(Reached, j, g)
      <4>1. CASE g = f
        BY <1>2, <3>2, <4>1 DEF RowIn
      <4>2. CASE g # f
        BY <1>1, <1>3, <3>2, <4>2 DEF RowsBacked, CommittedStored
      <4> QED
        BY <4>1, <4>2
    <3> QED
      BY <3>1, <3>2 DEF RowsBacked, CommittedStored, Exists
  <2>2. \A j \in Ids, g \in Factors :
           RowIn(storage', j, g) /\ g # OpKey[j] => Reached[j] # EMPTY
    BY <1>3 DEF RowsBacked, CommittedStored
  <2> QED
    BY <1>4, <2>1, <2>2 DEF CommittedStored
<1>8. RowsAsked'
  BY <1>3 DEF RowsBacked, RowsAsked
<1> QED
  BY <1>5, <1>6, <1>7, <1>8 DEF RowsBacked

\* A request for a factor.
LEMMA BackedFactor ==
    ASSUME OwnSecretsOnly, TypeInv, LogInv, WebInv, RowsOwned, RowsBacked,
           UNCHANGED chainVars, ProcessPending, ~IdentityRequest(Current)
    PROVE  RowsBacked'
<1> DEFINE i == Current.id
           f == Current.key
<1>1. /\ processed < recorded /\ Current.type = "storage:pending"
      /\ UNCHANGED <<recorded, processed, archive>>
  BY DEF ProcessPending, chainVars
<1>2. /\ processed >= 1
      /\ FactorRequest(Current)
      /\ f \in Factors /\ f \notin Ids /\ f # OpKey[i]
      /\ Reached[i] # EMPTY /\ ~Has(Reached, i, f)
  BY <1>1, RequestFacts, FieldAssumption DEF Has
<1>3. i \in Ids /\ f \in Owned(i) /\ ~HasData(Current)
  BY <1>2, RequestKinds, KeysAssumption DEF FactorRequest, Owned
<1>4. /\ ixPc' = "markProcessed"
      /\ SetsRow(f, PRESENT, Current.commitmentPending, i)
  BY <1>2, <1>3, ProcessPendingWrites DEF ProcessPending, FactorRequest
<1>5. \E n \in 1 .. Len(archive) : AsksFor(archive[n], i, f)
  <2>1. processed + 1 \in 1 .. Len(archive)
    BY <1>1, LogPositions
  <2>2. AsksFor(archive[processed + 1], i, f)
    BY <1>1 DEF AsksFor, Current
  <2> QED
    BY <2>1, <2>2
<1> HIDE DEF i
<1>6. f \notin Ids
  BY <1>2
<1> QED
  BY <1>1, <1>2, <1>3, <1>4, <1>5, <1>6, BackedFactorRow

\* The operator key of a new identity.
LEMMA BackedData ==
    ASSUME OwnSecretsOnly, TypeInv, LogInv, WebInv, RowsOwned, RowsBacked,
           UNCHANGED chainVars, SetData
    PROVE  RowsBacked'
<1> DEFINE i == Current.key
           f == OpKey[i]
<1>1. /\ processed < recorded /\ Current.type = "storage:pending"
      /\ UNCHANGED <<recorded, processed, archive>>
      /\ ixPc' = "markProcessed"
  BY SetDataWrites DEF SetData, chainVars
<1>2. IdentityRequest(Current)
  BY <1>1, SetDataWrites, CurrentWeb, RequestKinds
<1>3. /\ processed >= 1
      /\ i \in Ids /\ f \in Factors
      /\ ~Has(Reached, i, f)
  BY <1>1, <1>2, RequestFacts DEF Has
<1>4. SetsRow(f, PRESENT, Current.commitmentPending, i)
  BY <1>2, SetDataWrites DEF IdentityRequest
<1>5. f \in Owned(i)
  BY DEF Owned
<1>6. \E n \in 1 .. Len(archive) : AsksFor(archive[n], i, f)
  <2>1. processed + 1 \in 1 .. Len(archive)
    BY <1>1, LogPositions
  <2>2. AsksFor(archive[processed + 1], i, f)
    BY <1>1 DEF AsksFor, Current
  <2> QED
    BY <2>1, <2>2
<1>7. Current.key = i /\ f = OpKey[i]
  OBVIOUS
<1> HIDE DEF i, f
<1> QED
  BY <1>1, <1>3, <1>4, <1>5, <1>6, <1>7, BackedFactorRow

\* A commit: every pending row is settled, in stores that are updated next.
LEMMA BackedCommit ==
    ASSUME TypeInv, LogInv, PendingInv, RowsBacked, UNCHANGED chainVars,
           ProcessCommit
    PROVE  RowsBacked'
<1> DEFINE cp == Current.commitmentPending
           cs == Current.commitmentSettled
<1>1. /\ processed < recorded /\ Current.type = "storage:commit"
      /\ UNCHANGED <<recorded, processed, archive>>
      /\ ixPc = "process" /\ ixPc' = "updateStores"
      /\ storage' = Commit(storage, cp, cs)
      /\ ixStores' = CommittedStores(Commit(storage, cp, cs), cp, cs) \ {MANAGER}
  BY DEF ProcessCommit, chainVars
<1>2. processed >= 1 /\ cp = Reached
  BY <1>1, CurrentLinked DEF Reached
<1>3. SettlesRows(cp, cs)
  BY ProcessCommitWrites
<1>4. Current' = Current /\ Reached' = Reached
  BY <1>1 DEF Current, Reached
<1> HIDE DEF cp, cs
<1>5. ASSUME NEW k \in Keys, Exists(storage', k)
      PROVE  /\ Exists(storage, k)
             /\ ~storage'[k].isPending
             /\ storage'[k].value = storage[k].value
             /\ storage'[k].storageKey = storage[k].storageKey
             /\ storage'[k].commitmentPending = storage[k].commitmentPending
             /\ storage[k].isPending =>
                   /\ storage[k].commitmentPending = cp
                   /\ storage'[k].commitmentSettled = cs
             /\ ~storage[k].isPending => storage'[k] = storage[k]
  <2>1. storage[k].isPending => storage[k].commitmentPending = cp
    BY <1>2, <1>3, <1>5 DEF PendingInv, Pending, SettlesRows, Reached
  <2> QED
    BY <1>3, <1>5, <2>1 DEF SettlesRows
<1>6. /\ \A i \in Ids : i \in Keys
      /\ \A f \in Factors : f \in Keys
      /\ \A i \in Ids, f \in Factors : RowIn(storage', i, f) => RowIn(storage, i, f)
  BY <1>5 DEF Keys, Level2, RowIn
<1>7. \A k \in Keys : Exists(storage, k) => Exists(storage', k)
  BY <1>3 DEF SettlesRows
<1>8. \A i \in Ids, f \in Factors : RowIn(storage, i, f) => RowIn(storage', i, f)
  BY <1>5, <1>6, <1>7 DEF RowIn
<1>9. KeyringsBacked'
  <2> SUFFICES ASSUME NEW i \in Ids, Exists(storage', i)
               PROVE  /\ PlainRing(storage'[i].value)
                      /\ \A f \in Factors : storage'[i].value[f] = PRESENT =>
                            RowIn(storage', i, f)
    BY DEF KeyringsBacked
  <2>1. storage'[i].value = storage[i].value /\ Exists(storage, i)
    BY <1>5, <1>6
  <2> QED
    BY <1>1, <1>8, <2>1 DEF RowsBacked, KeyringsBacked
<1>10. RowsStored'
  <2> SUFFICES ASSUME NEW i \in Ids, NEW f \in Factors, RowIn(storage', i, f)
               PROVE  \/ storage'[i].value[f] = PRESENT
                      \/ /\ storage'[f].commitmentPending = cp
                         /\ storage'[f].commitmentSettled = cs
                         /\ i \in ixStores'
    BY <1>1, <1>4 DEF RowsStored, cp, cs
  <2>1. /\ f \in Keys /\ i \in Keys /\ Exists(storage', f) /\ Exists(storage, f)
        /\ RowIn(storage, i, f) /\ storage'[f].storageKey = i
    BY <1>5, <1>6 DEF RowIn
  <2>2. ASSUME storage'[f].commitmentPending = cp,
               storage'[f].commitmentSettled = cs
        PROVE  i \in ixStores'
    <3>1. i # MANAGER /\ i # NULL
      BY KeysAssumption
    <3>2. ixStores' = CommittedStores(storage', cp, cs) \ {MANAGER}
      BY <1>1
    <3> QED
      BY <2>1, <2>2, <3>1, <3>2 DEF CommittedStores
  <2>3. CASE storage[f].isPending
    BY <1>5, <2>1, <2>2, <2>3
  <2>4. CASE ~storage[f].isPending
    <3>1. storage'[f] = storage[f]
      BY <1>5, <2>1, <2>4
    <3>2. CASE storage[i].value[f] = PRESENT
      <4>1. Exists(storage', i)
        BY <1>7, <2>1, RowFacts DEF TypeInv, RowIn, Level2
      <4> QED
        BY <1>5, <2>1, <3>2, <4>1
    <3>3. CASE /\ storage[f].commitmentPending = cp
               /\ storage[f].commitmentSettled = cs
      BY <2>2, <3>1, <3>3
    <3> QED
      BY <2>1, <2>4, <3>2, <3>3 DEF RowsBacked, RowsStored, cp, cs
  <2> QED
    BY <2>3, <2>4
<1>11. CommittedStored'
  <2>1. ASSUME NEW i \in Ids
        PROVE  /\ Exists(storage', i) => ~storage'[i].isPending
               /\ \A f \in Factors :
                     /\ Has(Reached, i, f) => storage'[i].value[f] = PRESENT
                     /\ RowIn(storage', i, f) => ~storage'[f].isPending
    <3>1. ASSUME NEW f \in Factors, Has(Reached, i, f)
          PROVE  storage'[i].value[f] = PRESENT
      <4>1. storage[i].value[f] = PRESENT
        BY <1>2, <3>1 DEF RowsBacked, CommittedStored
      <4>2. storage'[i].value = storage[i].value
        <5>1. CASE Exists(storage, i)
          BY <1>5, <1>6, <1>7, <5>1
        <5>2. CASE ~Exists(storage, i)
          BY <1>1, <1>6, <5>2 DEF Commit, Pending
        <5> QED
          BY <5>1, <5>2
      <4> QED
        BY <4>1, <4>2
    <3> QED
      BY <1>5, <1>6, <3>1 DEF RowIn
  <2>2. \A i \in Ids, f \in Factors :
           RowIn(storage', i, f) /\ f # OpKey[i] => Reached[i] # EMPTY
    BY <1>6 DEF RowsBacked, CommittedStored
  <2> QED
    BY <1>1, <1>2, <1>4, <2>1, <2>2 DEF CommittedStored
<1>12. RowsAsked'
  BY <1>1, <1>6 DEF RowsBacked, RowsAsked
<1> QED
  BY <1>9, <1>10, <1>11, <1>12 DEF RowsBacked

\* A store's keyring is restored from its rows, which are all settled.
LEMMA BackedStore ==
    ASSUME TypeInv, RowsOwned, PendingInv, RowsBacked, UNCHANGED chainVars,
           NEW s \in Level2, UpdateStore(s)
    PROVE  RowsBacked'
<1>1. /\ processed < recorded /\ Current.type = "storage:commit"
      /\ Exists(storage, s) /\ RevaluesRow(s, StoredKeyring(storage, s))
      /\ UNCHANGED <<recorded, processed, archive, ixPc>>
      /\ ixPc = "updateStores" /\ ixStores' = ixStores \ {s} /\ s \in Ids
  BY UpdateStoreWrites DEF UpdateStore, chainVars, RowsOwned
<1>2. /\ Current' = Current /\ Reached' = Reached
      /\ Pending(storage) = {}
      /\ processed >= 1
  BY <1>1, CurrentFacts DEF Current, Reached, PendingInv, TypeInv
<1>3. /\ \A i \in Ids \ {s} : storage'[i] = storage[i]
      /\ \A f \in Factors : storage'[f] = storage[f]
      /\ Exists(storage', s) /\ Exists(storage, s)
      /\ storage'[s].value = StoredKeyring(storage, s)
      /\ storage'[s].isPending = storage[s].isPending
  BY <1>1, KeysAssumption DEF RevaluesRow, Keys, Level2
<1>4. \A i \in Ids, f \in Factors : RowIn(storage', i, f) <=> RowIn(storage, i, f)
  BY <1>3 DEF RowIn, Exists
<1>5. ASSUME NEW f \in Factors
      PROVE  /\ RowIn(storage, s, f) => storage'[s].value[f] = PRESENT
             /\ ~RowIn(storage, s, f) => storage'[s].value[f] = EMPTY
  <2>1. Exists(storage, f) => ~storage[f].isPending /\ storage[f].value = PRESENT
    BY <1>2 DEF Pending, Keys, Level2, RowsOwned
  <2> QED
    BY <1>3, <2>1 DEF StoredKeyring, Settled, RowIn
<1>6. KeyringsBacked'
  <2> SUFFICES ASSUME NEW i \in Ids, Exists(storage', i)
               PROVE  /\ PlainRing(storage'[i].value)
                      /\ \A f \in Factors : storage'[i].value[f] = PRESENT =>
                            RowIn(storage', i, f)
    BY DEF KeyringsBacked
  <2>1. CASE i = s
    BY <1>4, <1>5, <2>1, FieldAssumption DEF PlainRing
  <2>2. CASE i # s
    BY <1>1, <1>3, <1>4, <2>2 DEF RowsBacked, KeyringsBacked, Exists
  <2> QED
    BY <2>1, <2>2
<1>7. RowsStored'
  <2> SUFFICES ASSUME NEW i \in Ids, NEW f \in Factors, RowIn(storage', i, f),
                      ~storage'[f].isPending
               PROVE  \/ storage'[i].value[f] = PRESENT
                      \/ /\ storage'[f].commitmentPending = Current.commitmentPending
                         /\ storage'[f].commitmentSettled = Current.commitmentSettled
                         /\ i \in ixStores'
    BY <1>1, <1>2 DEF RowsStored
  <2>1. CASE i = s
    BY <1>4, <1>5, <2>1
  <2>2. CASE i # s
    <3>1. storage'[i] = storage[i] /\ storage'[f] = storage[f]
      BY <1>3, <2>2
    <3> QED
      BY <1>1, <1>4, <2>2, <3>1 DEF RowsBacked, RowsStored
  <2> QED
    BY <2>1, <2>2
<1>8. CommittedStored'
  <2>1. ASSUME NEW i \in Ids
        PROVE  /\ Exists(storage', i) /\ storage'[i].isPending
                     => Reached[i] = EMPTY
               /\ \A f \in Factors :
                     /\ Has(Reached, i, f) => storage'[i].value[f] = PRESENT
                     /\ RowIn(storage', i, f) /\ storage'[f].isPending
                           => ~Has(Reached, i, f)
    <3>1. CASE i = s
      <4>1. ASSUME NEW f \in Factors, Has(Reached, s, f)
            PROVE  RowIn(storage, s, f)
        BY <1>1, <1>2, <1>3, <4>1 DEF RowsBacked, CommittedStored, KeyringsBacked
      <4> QED
        BY <1>2, <1>3, <1>4, <1>5, <3>1, <4>1 DEF RowsBacked, CommittedStored
    <3>2. CASE i # s
      <4>1. storage'[i] = storage[i]
        BY <1>3, <3>2
      <4> QED
        BY <1>2, <1>3, <1>4, <4>1 DEF RowsBacked, CommittedStored, Exists
    <3> QED
      BY <3>1, <3>2
  <2>2. \A i \in Ids, f \in Factors :
           RowIn(storage', i, f) /\ f # OpKey[i] => Reached[i] # EMPTY
    BY <1>4 DEF RowsBacked, CommittedStored
  <2> QED
    BY <1>1, <1>2, <2>1, <2>2 DEF CommittedStored
<1>9. RowsAsked'
  BY <1>1, <1>4 DEF RowsBacked, RowsAsked
<1> QED
  BY <1>6, <1>7, <1>8, <1>9 DEF RowsBacked

\* Steps that leave the rows of identities and factors as they are, and the
\* indexer where it still has to do what it had to.
LEMMA BackedFrame ==
    ASSUME TypeInv, [Next]_vars, RowsBacked,
           \A k \in Level2 : storage'[k] = storage[k],
           UNCHANGED processed, recorded' \in Nat, recorded <= recorded',
           processed < recorded /\ Current.type = "storage:pending"
              /\ ixPc' = "markProcessed" => ixPc = "markProcessed",
           processed < recorded /\ Current.type = "storage:commit" =>
              \/ UNCHANGED <<ixPc, ixStores>>
              \/ ixPc' \in {"fetch", "process"}
              \/ /\ ixPc \notin {"fetch", "process"}
                 /\ ixPc = "updateStores" => ixStores = {}
    PROVE  RowsBacked'
<1>1. /\ processed \in Nat /\ recorded \in Nat
      /\ processed < recorded => Current' = Current /\ processed < recorded'
      /\ processed >= 1 => Reached' = Reached
      /\ \A n \in 1 .. Len(archive) : archive'[n] = archive[n]
      /\ \A n \in 1 .. Len(archive) : n \in 1 .. Len(archive')
  <2>1. /\ Len(archive) \in Nat /\ Len(archive') \in Nat
        /\ Len(archive) <= Len(archive')
        /\ \A n \in 1 .. Len(archive) : archive'[n] = archive[n]
    BY LogOnlyGrows
  <2> QED
    BY <2>1, LogPositions, LogKept, ReachedKept
<1>2. /\ \A i \in Ids : storage'[i] = storage[i]
      /\ \A f \in Factors : storage'[f] = storage[f]
  BY DEF Level2
<1>3. \A i \in Ids, f \in Factors : RowIn(storage', i, f) <=> RowIn(storage, i, f)
  BY <1>2 DEF RowIn, Exists
<1>4. KeyringsBacked'
  BY <1>1, <1>2, <1>3 DEF RowsBacked, KeyringsBacked, Exists
<1>5. RowsStored'
  <2> SUFFICES ASSUME NEW i \in Ids, NEW f \in Factors, RowIn(storage', i, f),
                      ~storage'[f].isPending, storage'[i].value[f] # PRESENT
               PROVE  /\ processed < recorded
                      /\ Current.type = "storage:commit"
                      /\ storage[f].commitmentPending = Current.commitmentPending
                      /\ storage[f].commitmentSettled = Current.commitmentSettled
                      /\ \/ ixPc' \in {"fetch", "process"}
                         \/ ixPc' = "updateStores" /\ i \in ixStores'
    BY <1>1, <1>2 DEF RowsStored
  <2>1. /\ processed < recorded
        /\ Current.type = "storage:commit"
        /\ storage[f].commitmentPending = Current.commitmentPending
        /\ storage[f].commitmentSettled = Current.commitmentSettled
        /\ \/ ixPc \in {"fetch", "process"}
           \/ ixPc = "updateStores" /\ i \in ixStores
    BY <1>2, <1>3 DEF RowsBacked, RowsStored
  <2> QED
    BY <2>1
<1>6. CommittedStored'
  BY <1>1, <1>2, <1>3 DEF RowsBacked, CommittedStored, Exists
<1>7. RowsAsked'
  BY <1>1, <1>3 DEF RowsBacked, RowsAsked
<1> QED
  BY <1>4, <1>5, <1>6, <1>7 DEF RowsBacked

\* An event is done with.
LEMMA BackedMark ==
    ASSUME TypeInv, LogInv, PendingInv, MapsGrow, RowsBacked,
           UNCHANGED chainVars, MarkProcessed
    PROVE  RowsBacked'
<1>1. /\ processed < recorded /\ processed' = processed + 1
      /\ UNCHANGED <<storage, recorded, archive>>
      /\ ixPc = "markProcessed" /\ ixPc' = "process"
      /\ processed \in Nat /\ processed + 1 \in 1 .. Len(archive)
      /\ archive[processed + 1] = Current
  BY LogPositions
  DEF MarkProcessed, chainVars, TypeInv, IndexerInv, IndexerReady, Current
<1>2. Reached' = After(Current)
  BY <1>1 DEF Reached
<1>3. \A i \in Ids, f \in Factors :
         RowIn(storage, i, f) /\ ~storage[f].isPending
            => storage[i].value[f] = PRESENT
  BY <1>1 DEF RowsBacked, RowsStored
<1>4. ASSUME NEW i \in Ids, Exists(storage, i)
      PROVE  /\ PlainRing(storage[i].value)
             /\ \A f \in Factors : storage[i].value[f] = PRESENT
                                      => RowIn(storage, i, f)
  BY <1>1, <1>4 DEF RowsBacked, KeyringsBacked
<1>5. KeyringsBacked' /\ RowsStored' /\ RowsAsked'
  BY <1>1, <1>3, <1>4
  DEF KeyringsBacked, RowsStored, RowsAsked, RowsBacked
<1>6. CASE processed = 0
  <2>1. Reached' = NoIdentities
    BY <1>1, <1>2, <1>6 DEF MapsGrow
  <2>2. \A i \in Ids : Reached'[i] = EMPTY
    BY <2>1 DEF NoIdentities, Level2
  <2>3. CommittedStored'
    BY <1>1, <1>6, <2>2 DEF CommittedStored, RowsBacked, Has
  <2> QED
    BY <1>5, <2>3 DEF RowsBacked
<1>7. CASE processed # 0 /\ Current.type = "storage:pending"
  <2>1. Reached' = Reached /\ processed >= 1 /\ processed' >= 1
    BY <1>1, <1>2, <1>7, CurrentLinked, AfterFacts DEF Reached
  <2>2. CommittedStored'
    BY <1>1, <2>1 DEF CommittedStored, RowsBacked
  <2> QED
    BY <1>5, <2>2 DEF RowsBacked
<1>8. CASE processed # 0 /\ Current.type # "storage:pending"
  <2>1. Pending(storage) = {} /\ processed >= 1 /\ processed' >= 1
    BY <1>1, <1>8 DEF PendingInv
  <2>2. Grows(Reached, Reached') /\ Covers(storage, Reached')
    <3>1. processed \in 1 .. Len(archive) /\ processed <= processed + 1
      BY <1>1, <2>1, LogPositions
    <3>2. Grows(After(archive[processed]), After(archive[processed + 1]))
      BY <1>1, <3>1 DEF MapsGrow
    <3>3. Covers(storage, After(archive[processed + 1]))
      BY <1>1, ReachedBelow
    <3> QED
      BY <1>1, <1>2, <3>2, <3>3 DEF Reached
  <2>3. ASSUME NEW k \in Level2, Exists(storage, k)
        PROVE  ~storage[k].isPending
    BY <2>1, <2>3 DEF Pending, Keys
  <2>4. ASSUME NEW i \in Ids, NEW f \in Factors, Has(Reached', i, f)
        PROVE  storage[i].value[f] = PRESENT
    <3>1. RowIn(storage, i, f)
      BY <2>2, <2>4 DEF Covers, Has
    <3> QED
      BY <1>3, <2>3, <3>1 DEF RowIn, Level2
  <2>5. ASSUME NEW i \in Ids, NEW f \in Factors, RowIn(storage, i, f), f # OpKey[i]
        PROVE  Reached'[i] # EMPTY
    BY <2>2, <2>5 DEF Grows, RowsBacked, CommittedStored
  <2>6. CommittedStored'
    BY <1>1, <2>1, <2>3, <2>4, <2>5 DEF CommittedStored, RowIn, Level2
  <2> QED
    BY <1>5, <2>6 DEF RowsBacked
<1> QED
  BY <1>6, <1>7, <1>8

\* Every step of the system.
LEMMA RowsBackedStep ==
    ASSUME OwnSecretsOnly
    PROVE  TypeInv /\ LogInv /\ PendingInv /\ OwnedInv /\ MapsGrow /\ RowsBacked
              /\ [Next]_vars => RowsBacked'
<1> SUFFICES ASSUME TypeInv, LogInv, PendingInv, OwnedInv, MapsGrow, RowsBacked,
                    [Next]_vars
             PROVE  RowsBacked'
  OBVIOUS
<1>1. /\ recorded \in Nat /\ processed \in Nat /\ Len(archive) \in Nat
      /\ recorded <= Len(archive)
      /\ WebInv /\ RowsOwned
      /\ MANAGER \notin Level2
  BY LogPositions, KeysAssumption DEF OwnedInv, Level2
<1>2. CASE UNCHANGED <<storage, recorded, processed, indexerVars>>
  BY <1>1, <1>2, BackedFrame DEF indexerVars
<1>3. CASE /\ IndexerStep \/ IndexerCrash
           /\ UNCHANGED <<chainVars, clientVars, proverVars>>
  <2>1. CASE Fetch
    <3>1. recorded' \in Nat /\ recorded <= recorded'
      BY <1>1, <2>1 DEF Fetch
    <3> QED
      BY <2>1, <3>1, BackedFrame DEF Fetch
  <2>2. CASE EndCycle \/ IndexerThrows \/ IndexerCrash
    BY <1>1, <2>2, BackedFrame
    DEF EndCycle, IndexerThrows, IndexerCrash, Restart, dbVars
  <2>3. CASE ProcessCreate
    <3>1. \A k \in Level2 : storage'[k] = storage[k]
      BY <1>1, <2>3, ProcessCreateWrites DEF Keys
    <3> QED
      BY <1>1, <2>3, <3>1, BackedFrame DEF ProcessCreate
  <2>4. CASE ProcessPending
    BY <1>1, <1>3, <2>4, BackedIdentity, BackedFactor
  <2>5. CASE SetData
    BY <1>1, <1>3, <2>5, BackedData
  <2>6. CASE ProcessCommit
    BY <1>3, <2>6, BackedCommit
  <2>7. CASE \E s \in Level2 : UpdateStore(s)
    BY <1>1, <1>3, <2>7, BackedStore
  <2>8. CASE UpdateManager
    <3>1. \A k \in Level2 : storage'[k] = storage[k]
      BY <1>1, <2>8, UpdateManagerWrites DEF Keys, RevaluesRow
    <3> QED
      BY <1>1, <2>8, <3>1, BackedFrame DEF UpdateManager
  <2>9. CASE ClearTransforming
    BY <1>1, <2>9, BackedFrame, CurrentFacts
    DEF ClearTransforming, TypeInv, IndexerInv, IndexerReady
  <2>10. CASE MarkProcessed
    BY <1>3, <2>10, BackedMark
  <2> QED
    BY <1>3, <2>1, <2>2, <2>3, <2>4, <2>5, <2>6, <2>7, <2>8, <2>9, <2>10
    DEF IndexerStep
<1> QED
  BY <1>2, <1>3, StepKinds

-----------------------------------------------------------------------------
(***************************************************************************)
(* The prover.                                                             *)
(***************************************************************************)

\* The prover is where it was; rows stay, and the map reached grows.
LEMMA ProverBackedFrame ==
    ASSUME TypeInv, MapsGrow, ProverBacked, UNCHANGED proverVars,
           \A k \in Keys : Exists(storage, k) => Exists(storage', k),
           \A i \in Ids, f \in Factors :
              RowIn(storage, i, f) => RowIn(storage', i, f),
           \A c : Covers(storage, c) => Covers(storage', c),
           processed >= 1 => processed' >= 1 /\ Grows(Reached, Reached')
    PROVE  ProverBacked'
<1>1. /\ pvPc' = pvPc /\ pvRows' = pvRows /\ pvMaps' = pvMaps
      /\ pvPending' = pvPending /\ pvSettled' = pvSettled
  BY DEF proverVars
<1>2. pvPc' \in {"restoreStores", "send"} =>
         processed' >= 1 /\ Grows(pvPending', Reached')
  BY <1>1, GrowsFacts DEF ProverBacked
<1>3. \A s \in Ids : Exists(storage, s) => Exists(storage', s)
  BY DEF Keys, Level2
<1> QED
  BY <1>1, <1>2, <1>3 DEF ProverBacked

\* A fresh start has read nothing.
LEMMA ProverBackedRest ==
    ASSUME Rest
    PROVE  ProverBacked'
BY DEF Rest, ProverBacked, NoMaps, Level2

\* The map of a store has what was committed, and what the prover read.
LEMMA StoreRestored ==
    ASSUME TypeInv, RowsOwned, RowsBacked, ProverBacked,
           pvPc = "restoreStores", NEW s \in Ids,
           \E r \in pvRows : r.storageKey = s,
           NEW ring, ring = Updated(StoredKeyring(storage, s), s)
    PROVE  /\ Exists(storage, s)
           /\ PlainRing(ring)
           /\ \A f \in Factors :
                 /\ ring[f] = PRESENT => RowIn(storage, s, f)
                 /\ Has(pvPending, s, f) => ring[f] = PRESENT
<1>1. PICK r0 \in pvRows : r0.storageKey = s
  OBVIOUS
<1>2. Exists(storage, s)
  <2>1. /\ r0.key \in Factors /\ RowIn(storage, s, r0.key)
        /\ r0.key \in Keys /\ s \in Level2
    BY <1>1 DEF ProverBacked, Keys, Level2
  <2> QED
    BY <2>1, RowFacts DEF TypeInv, RowIn
<1>3. ASSUME NEW f \in Factors
      PROVE  /\ ring[f] \in {EMPTY, PRESENT}
             /\ ring[f] = PRESENT => RowIn(storage, s, f)
             /\ Has(pvPending, s, f) => ring[f] = PRESENT
  <2>1. CASE \E r \in pvRows : r.storageKey = s /\ r.key = f
    <3> DEFINE r == CHOOSE x \in pvRows : x.storageKey = s /\ x.key = f
    <3>1. r \in pvRows /\ r.storageKey = s /\ r.key = f
      BY <2>1
    <3>2. ring[f] = r.value
      BY <2>1 DEF Updated
    <3> HIDE DEF r
    <3> QED
      BY <3>1, <3>2 DEF ProverBacked
  <2>2. CASE ~ \E r \in pvRows : r.storageKey = s /\ r.key = f
    <3>1. ring[f] = IF RowIn(storage, s, f) /\ ~storage[f].isPending
                    THEN storage[f].value ELSE EMPTY
      BY <2>2 DEF Updated, StoredKeyring, Settled, RowIn
    <3>2. RowIn(storage, s, f) => storage[f].value = PRESENT
      BY DEF RowIn, RowsOwned
    <3>3. ASSUME Has(pvPending, s, f)
          PROVE  RowIn(storage, s, f) /\ ~storage[f].isPending
      <4>1. processed >= 1 /\ Has(Reached, s, f)
        BY <3>3 DEF ProverBacked, Grows, Has
      <4>2. /\ storage[s].value[f] = PRESENT
            /\ ~storage[s].isPending
            /\ RowIn(storage, s, f) => ~storage[f].isPending
        BY <1>2, <4>1 DEF RowsBacked, CommittedStored, Has
      <4> QED
        BY <1>2, <4>2 DEF RowsBacked, KeyringsBacked
    <3> QED
      BY <3>1, <3>2, <3>3, FieldAssumption
  <2> QED
    BY <2>1, <2>2
<1> QED
  BY <1>2, <1>3 DEF PlainRing

\* The manager's map has what was committed, and is covered.
LEMMA ManagerRestored ==
    ASSUME TypeInv, LogInv, MapsGrow, RowsBacked, processed >= 1,
           NEW i \in Ids, NEW ring, ring = StoredManager(storage)[i]
    PROVE  /\ Reached[i] # EMPTY => ring # EMPTY
           /\ \A f \in Factors : Has(Reached, i, f) => ring[f] = PRESENT
           /\ ring # EMPTY =>
                 /\ Exists(storage, i)
                 /\ PlainRing(ring)
                 /\ \A f \in Factors : ring[f] = PRESENT => RowIn(storage, i, f)
<1>1. i \in Keys /\ i \in Level2 /\ i # MANAGER /\ EMPTY \notin Keyrings
  BY KeysAssumption, FieldAssumption DEF Keys, Level2
<1>2. Exists(storage, i) =>
         storage[i].storageKey = MANAGER /\ storage[i].value \in Keyrings
  BY <1>1, RowFacts DEF TypeInv, StoresOf, RowsOf, ValuesOf
<1>3. ring = IF Exists(storage, i) /\ ~storage[i].isPending
             THEN storage[i].value ELSE EMPTY
  BY <1>1, <1>2 DEF StoredManager, Settled
<1>4. ASSUME Reached[i] # EMPTY
      PROVE  Exists(storage, i) /\ ~storage[i].isPending
  <2>1. Covers(storage, Reached)
    BY ReachedBelow, LogPositions DEF Reached
  <2>2. Exists(storage, i)
    BY <1>4, <2>1 DEF Covers
  <2> QED
    BY <1>4, <2>2 DEF RowsBacked, CommittedStored
<1>5. ASSUME NEW f \in Factors, Has(Reached, i, f)
      PROVE  ring[f] = PRESENT
  BY <1>3, <1>4, <1>5 DEF RowsBacked, CommittedStored, Has
<1>6. ASSUME ring # EMPTY
      PROVE  /\ Exists(storage, i)
             /\ PlainRing(ring)
             /\ \A f \in Factors : ring[f] = PRESENT => RowIn(storage, i, f)
  BY <1>3, <1>6 DEF RowsBacked, KeyringsBacked
<1> QED
  BY <1>1, <1>2, <1>3, <1>4, <1>5, <1>6

\* What the prover settles.
LEMMA SettledBacked ==
    ASSUME TypeInv, LogInv, MapsGrow, RowsBacked, ProverBacked,
           pvPc = "restoreStores",
           NEW cs, cs = [s \in Level2 |-> IF pvMaps[s] = NULL
                                          THEN StoredManager(storage)[s]
                                          ELSE pvMaps[s]]
    PROVE  Grows(pvPending, cs) /\ Plain(cs) /\ Covers(storage, cs)
<1>1. processed >= 1 /\ Grows(pvPending, Reached)
  BY DEF ProverBacked
<1>2. ASSUME NEW i \in Ids
      PROVE  /\ pvPending[i] # EMPTY => cs[i] # EMPTY
             /\ \A f \in Factors : Has(pvPending, i, f) => Has(cs, i, f)
             /\ cs[i] # EMPTY =>
                   /\ Exists(storage, i)
                   /\ PlainRing(cs[i])
                   /\ \A f \in Factors : Has(cs, i, f) => RowIn(storage, i, f)
  <2>1. CASE pvMaps[i] = NULL
    <3>1. cs[i] = StoredManager(storage)[i]
      BY <2>1 DEF Level2
    <3>2. /\ pvPending[i] # EMPTY => Reached[i] # EMPTY
          /\ \A f \in Factors : Has(pvPending, i, f) => Has(Reached, i, f)
      BY <1>1 DEF Grows, Has
    <3> QED
      BY <1>1, <3>1, <3>2, ManagerRestored DEF Has
  <2>2. CASE pvMaps[i] # NULL
    <3>1. cs[i] = pvMaps[i] /\ pvMaps[i] \in Keyrings
      BY <2>2 DEF Level2, TypeInv, ProverTypeOK
    <3>2. cs[i] # EMPTY
      BY <3>1, FieldAssumption
    <3> QED
      BY <2>2, <3>1, <3>2 DEF ProverBacked, Has
  <2> QED
    BY <2>1, <2>2
<1> QED
  BY <1>2 DEF Grows, Plain, Covers

\* Every step of the prover.
LEMMA ProverBackedSteps ==
    ASSUME TypeInv, LogInv, PendingInv, RowsOwned, MapsGrow, RowsBacked,
           ProverBacked, ProverStep, UNCHANGED <<storage, processed>>,
           UNCHANGED archive
    PROVE  ProverBacked'
<1>0. Reached' = Reached
  BY DEF Reached
<1>1. CASE Query
  <2>1. /\ pvPc = "query" /\ pvPc' = "restoreStores" /\ pvMaps' = NoMaps
        /\ pvRows' = Level3Reads(storage)
        /\ \E k \in Pending(storage) : pvPending' = storage[k].commitmentPending
    BY <1>1 DEF Query, ProverBacked
  <2>2. processed >= 1 /\ Grows(pvPending', Reached)
    BY <2>1, GrowsFacts DEF PendingInv, Reached
  <2>3. ASSUME NEW r \in pvRows'
        PROVE  /\ r.key \in Factors /\ r.value = PRESENT /\ r.storageKey \in Ids
               /\ RowIn(storage, r.storageKey, r.key)
    <3>1. PICK k \in Pending(storage) :
             /\ storage[k].storageKey \in Level2
             /\ r = [key |-> k, value |-> storage[k].value,
                     storageKey |-> storage[k].storageKey]
      BY <2>1 DEF Level3Reads
    <3>2. /\ k \in Keys /\ Exists(storage, k) /\ k \in Level2 \cup {MANAGER}
          /\ storage[k].storageKey \in StoresOf(k)
      BY RowFacts DEF Pending, TypeInv, RowsOwned
    <3>3. k \in Factors
      <4>1. NULL \notin Level2 /\ MANAGER \notin Level2
        BY KeysAssumption DEF Level2
      <4> QED
        BY <3>1, <3>2, <4>1 DEF StoresOf, Level2
    <3> QED
      BY <3>1, <3>2, <3>3 DEF RowsOwned, RowIn
  <2>4. \A s \in Ids : pvMaps'[s] = NULL
    BY <2>1 DEF NoMaps, Level2
  <2> QED
    BY <1>0, <2>1, <2>2, <2>3, <2>4 DEF ProverBacked
<1>2. CASE \E s \in Level2 : RestoreStore(s)
  <2>1. PICK s \in Level2 : RestoreStore(s)
    BY <1>2
  <2>2. /\ pvPc = "restoreStores" /\ \E r \in pvRows : r.storageKey = s
        /\ UNCHANGED <<pvPc, pvRows, pvPending, pvSettled>>
        /\ s \in Ids
    BY <2>1 DEF RestoreStore, ProverBacked
  <2> DEFINE ring == Updated(StoredKeyring(storage, s), s)
  <2>3. /\ pvMaps'[s] = ring
        /\ \A j \in Ids \ {s} : pvMaps'[j] = pvMaps[j]
    BY <2>1 DEF RestoreStore, TypeInv, ProverTypeOK, Level2
  <2> HIDE DEF ring
  <2>4. /\ Exists(storage, s)
        /\ PlainRing(ring)
        /\ \A f \in Factors :
              /\ ring[f] = PRESENT => RowIn(storage, s, f)
              /\ Has(pvPending, s, f) => ring[f] = PRESENT
    BY <2>2, StoreRestored DEF ring
  <2>5. ASSUME NEW j \in Ids, pvMaps'[j] # NULL
        PROVE  /\ Exists(storage, j)
               /\ PlainRing(pvMaps'[j])
               /\ \A f \in Factors :
                     /\ pvMaps'[j][f] = PRESENT => RowIn(storage, j, f)
                     /\ Has(pvPending, j, f) => pvMaps'[j][f] = PRESENT
    <3>1. CASE j = s
      BY <2>3, <2>4, <3>1
    <3>2. CASE j # s
      BY <2>2, <2>3, <2>5, <3>2 DEF ProverBacked
    <3> QED
      BY <3>1, <3>2
  <2> QED
    BY <1>0, <2>2, <2>5 DEF ProverBacked
<1>3. CASE ProverRestoreManager
  <2> DEFINE cs == [s \in Level2 |-> IF pvMaps[s] = NULL
                                     THEN StoredManager(storage)[s]
                                     ELSE pvMaps[s]]
  <2>1. /\ pvPc = "restoreStores" /\ pvPc' = "send" /\ pvSettled' = cs
        /\ UNCHANGED <<pvRows, pvMaps, pvPending>>
    BY <1>3 DEF ProverRestoreManager
  <2> HIDE DEF cs
  <2>2. Grows(pvPending, cs) /\ Plain(cs) /\ Covers(storage, cs)
    BY <2>1, SettledBacked DEF cs
  <2> QED
    BY <1>0, <2>1, <2>2 DEF ProverBacked
<1>4. CASE Waited \/ SendFails
  BY <1>4, ProverBackedRest DEF Waited, SendFails
<1>5. CASE Send \/ SetTransforming
  <2>1. /\ pvPc' \notin {"query", "restoreStores", "send"}
        /\ UNCHANGED <<pvRows, pvMaps, pvPending, pvSettled>>
    BY <1>5 DEF Send, SetTransforming
  <2> QED
    BY <1>0, <2>1 DEF ProverBacked
<1> QED
  BY <1>1, <1>2, <1>3, <1>4, <1>5 DEF ProverStep

LEMMA ProverBackedStep ==
    TypeInv /\ LogInv /\ PendingInv /\ RowsOwned /\ MapsGrow /\ RowsBacked
       /\ ProverBacked /\ [Next]_vars => ProverBacked'
<1> SUFFICES ASSUME TypeInv, LogInv, PendingInv, RowsOwned, MapsGrow, RowsBacked,
                    ProverBacked, [Next]_vars
             PROVE  ProverBacked'
  OBVIOUS
<1>1. processed >= 1 => processed' >= 1 /\ Grows(Reached, Reached')
  <2> SUFFICES ASSUME processed >= 1
               PROVE  processed' >= 1 /\ Grows(Reached, Reached')
    OBVIOUS
  <2>1. CASE UNCHANGED processed
    BY <2>1, ReachedKept, GrowsFacts
  <2>2. CASE MarkProcessed /\ UNCHANGED chainVars
    <3>1. /\ processed < recorded /\ processed' = processed + 1
          /\ archive' = archive /\ processed \in Nat
          /\ processed \in 1 .. Len(archive)
          /\ processed + 1 \in 1 .. Len(archive)
      BY <2>2, LogPositions
      DEF MarkProcessed, chainVars, TypeInv, IndexerInv, IndexerReady
    <3>2. Grows(After(archive[processed]), After(archive[processed + 1]))
      BY <3>1 DEF MapsGrow
    <3> QED
      BY <3>1, <3>2 DEF Reached
  <2>3. CASE /\ IndexerStep \/ IndexerCrash
             /\ UNCHANGED <<chainVars, clientVars, proverVars>>
             /\ ~MarkProcessed
    <3>1. UNCHANGED processed
      BY <2>3
      DEF IndexerStep, IndexerCrash, IndexerThrows, Restart, Fetch, EndCycle,
          ProcessCreate, ProcessPending, SetData, ProcessCommit, UpdateStore,
          UpdateManager, ClearTransforming, dbVars
    <3> QED
      BY <2>1, <3>1
  <2> QED
    BY <2>1, <2>2, <2>3, StepKinds
<1>2. CASE UNCHANGED proverVars
  BY <1>1, <1>2, RowsAlwaysStay, ProverBackedFrame
<1>3. CASE Proving
  <2>1. UNCHANGED <<storage, processed, archive>> /\ ProverStep
    BY <1>3
    DEF Proving, ProverStep, Send, SendFails, SetTransforming, dbVars,
        CommitPendingXforms, chainVars
  <2> QED
    BY <2>1, ProverBackedSteps
<1>4. CASE Crash
  <2>1. CASE ProverCrash
    BY <2>1, ProverBackedRest DEF ProverCrash
  <2> QED
    BY <1>2, <1>4, <2>1 DEF Crash
<1>5. CASE Users \/ Network \/ Indexing \/ UNCHANGED vars
  BY <1>2, <1>5 DEF Users, Network, IncludeTxn, Indexing, vars
<1> QED
  BY <1>3, <1>4, <1>5 DEF Next

-----------------------------------------------------------------------------
(***************************************************************************)
(* The invariant.                                                          *)
(***************************************************************************)
BackedInv == MapsGrow /\ RowsBacked /\ ProverBacked

LEMMA BackedInvInit == Init => BackedInv
<1> SUFFICES ASSUME Init PROVE BackedInv
  OBVIOUS
<1> DEFINE e == EventStorageCreate(MANAGER, NoIdentities)
<1>1. After(e) = NoIdentities
  BY AfterFacts DEF EventStorageCreate
<1>2. archive = <<e>> /\ mempool = {} /\ commitment = NoIdentities
  BY DEF Init, ChainInit
<1> HIDE DEF e
<1>3. MapsGrow
  <2>1. Plain(NoIdentities) /\ Covers(storage, NoIdentities)
    BY DEF Plain, Covers, NoIdentities, Level2
  <2> QED
    BY <1>1, <1>2, <2>1, GrowsFacts DEF MapsGrow
<1>4. \A k \in Level2 : ~Exists(storage, k)
  BY DEF Init, DbInit, Exists, Keys
<1>5. RowsBacked
  BY <1>4
  DEF RowsBacked, KeyringsBacked, RowsStored, CommittedStored, RowsAsked, RowIn,
      Level2, Init, DbInit
<1>6. ProverBacked
  BY DEF Init, ProverInit, ProverBacked, NoMaps, Level2
<1> QED
  BY <1>3, <1>5, <1>6 DEF BackedInv

LEMMA BackedInvariant ==
    ASSUME OwnSecretsOnly, WebMethodsOnly
    PROVE  Spec => []BackedInv
<1>1. TypeInv /\ LogInv /\ PendingInv /\ OwnedInv /\ BackedInv /\ [Next]_vars
         => BackedInv'
  BY MapsGrowStep, RowsBackedStep, ProverBackedStep DEF BackedInv, OwnedInv
<1> QED
  BY <1>1, TypeInvariant, LogInvariant, PendingInvariant, OwnedInvariant,
     BackedInvInit, PTL
  DEF Spec

\* Of the positions of some events in the log, one is the last.
LogHasLast ==
    \A S \in SUBSET (1 .. Len(archive)) :
        S # {} => \E n \in S : \A m \in S : m <= n

LEMMA LogHasLastStep ==
    TypeInv /\ MapsGrow /\ LogHasLast /\ [Next]_vars => LogHasLast'
<1> SUFFICES ASSUME TypeInv, MapsGrow, LogHasLast, [Next]_vars
             PROVE  LogHasLast'
  OBVIOUS
<1>1. Len(archive) \in Nat
  BY LogPositions
<1>2. CASE Len(archive') = Len(archive)
  BY <1>2 DEF LogHasLast
<1>3. CASE Len(archive') = Len(archive) + 1
  <2> SUFFICES ASSUME NEW S \in SUBSET (1 .. Len(archive) + 1), S # {}
               PROVE  \E n \in S : \A m \in S : m <= n
    BY <1>3 DEF LogHasLast
  <2>1. CASE Len(archive) + 1 \in S
    BY <1>1, <2>1
  <2>2. CASE Len(archive) + 1 \notin S
    <3>1. S \in SUBSET (1 .. Len(archive))
      BY <1>1, <2>2
    <3> QED
      BY <3>1 DEF LogHasLast
  <2> QED
    BY <2>1, <2>2
<1>4. Len(archive') \in {Len(archive), Len(archive) + 1}
  <2>1. CASE Users
    BY <2>1 DEF Users, ClientStep, Prove, ProveFails, SendUser, chainVars
  <2>2. CASE Network
    <3>1. ASSUME NEW t \in mempool, Include(t)
          PROVE  Len(archive') = Len(archive) + 1
      <4>1. /\ archive \in Seq(Events) /\ t.events \in Seq(Events)
            /\ archive' = archive \o t.events /\ Len(t.events) = 1
        BY <3>1
        DEF Include, MapsGrow, TypeInv, ChainInv, ChainTypeOK, Transactions
      <4>2. archive \in Seq(Events) /\ t.events \in Seq(Events)
        BY <4>1
      <4>3. Len(archive \o t.events) = Len(archive) + Len(t.events)
        BY <4>2, ConcatFacts, Zenon
      <4> QED
        BY <4>1, <4>3
    <3> QED
      BY <2>2, <3>1 DEF Network, IncludeTxn, Reject, Drop
  <2>3. CASE Proving
    BY <2>3 DEF Proving, ProverStep, Send, SendFails, SetTransforming,
                CommitPendingXforms, chainVars
  <2>4. CASE Indexing \/ UNCHANGED vars
    BY <2>4 DEF Indexing, vars, chainVars
  <2>5. CASE Crash
    <3>1. UNCHANGED chainVars
      BY <2>5, Zenon DEF Crash
    <3> QED
      BY <3>1 DEF chainVars
  <2> QED
    BY <2>1, <2>2, <2>3, <2>4, <2>5 DEF Next
<1> QED
  BY <1>2, <1>3, <1>4

LEMMA LogHasLastInvariant ==
    ASSUME OwnSecretsOnly, WebMethodsOnly
    PROVE  Spec => []LogHasLast
<1>1. Init => LogHasLast
  <2> SUFFICES ASSUME Init PROVE LogHasLast
    OBVIOUS
  <2>1. Len(archive) = 1
    BY DEF Init, ChainInit
  <2> SUFFICES ASSUME NEW S \in SUBSET (1 .. 1), S # {}
               PROVE  \E n \in S : \A m \in S : m <= n
    BY <2>1 DEF LogHasLast
  <2>2. PICK n \in S : TRUE
    OBVIOUS
  <2>3. n = 1 /\ \A m \in S : m = 1
    OBVIOUS
  <2> QED
    BY <2>2, <2>3
<1>2. TypeInv /\ BackedInv /\ LogHasLast /\ [Next]_vars => LogHasLast'
  BY LogHasLastStep DEF BackedInv
<1> QED
  BY <1>1, <1>2, TypeInvariant, BackedInvariant, PTL DEF Spec

\* The last request in the log for a factor that has a row asks for it to be
\* there: a later one for the whole keyring would have been for an identity
\* that is committed already.
LEMMA RowsLastRequested ==
    ASSUME TypeInv, LogInv, WebInv, MapsGrow, RowsAsked, LogHasLast,
           NEW i \in Ids, NEW f \in Factors, RowIn(storage, i, f)
    PROVE  LastRequested(i, f) = PRESENT
<1> DEFINE asking == {n \in 1 .. Len(archive) :
                         /\ archive[n].type = "storage:pending"
                         /\ Settling!Asks(archive[n], i, f)}
           last   == CHOOSE n \in asking : \A m \in asking : m <= n
<1>1. PICK a \in 1 .. Len(archive) : AsksFor(archive[a], i, f)
  BY DEF RowsAsked
<1>2. a \in asking
  BY <1>1 DEF AsksFor, Settling!Asks
<1>3. asking \in SUBSET (1 .. Len(archive))
  OBVIOUS
<1>4. \E n \in asking : \A m \in asking : m <= n
  <2> HIDE DEF asking
  <2> QED
    BY <1>2, <1>3 DEF LogHasLast
<1>5. last \in asking /\ a <= last
  <2> HIDE DEF asking
  <2> QED
    BY <1>2, <1>4
<1>6. LastRequested(i, f) = Settling!Asked(archive[last], f)
  BY <1>2 DEF LastRequested
<1>7. /\ last \in 1 .. Len(archive)
      /\ archive[last].type = "storage:pending"
      /\ Settling!Asks(archive[last], i, f)
  BY <1>5
<1> HIDE DEF asking, last
<1> DEFINE e == archive[last]
<1>8. /\ IdentityRequest(e) \/ FactorRequest(e)
      /\ Justified(e) /\ e.commitmentPending = After(e)
  BY <1>7, AfterFacts DEF WebInv, WebEvent, LogInv, RequestsJustified
<1>9. CASE FactorRequest(e)
  BY <1>6, <1>9, KeysAssumption DEF FactorRequest, Settling!Asked
<1>10. CASE IdentityRequest(e)
  <2>1. /\ e.key = i /\ e.id = MANAGER /\ e.value = FirstKeyring(i)
        /\ After(e)[i] = EMPTY
    BY <1>7, <1>8, <1>10, KeysAssumption
    DEF IdentityRequest, Settling!Asks, Justified
  <2>2. CASE f = OpKey[i]
    BY <1>6, <2>1, <2>2, FirstKeyringFacts DEF Settling!Asked
  <2>3. CASE f # OpKey[i]
    <3>1. /\ archive[a].type = "storage:pending"
          /\ archive[a].id = i /\ archive[a].key = f
          /\ IdentityRequest(archive[a]) \/ FactorRequest(archive[a])
          /\ Justified(archive[a])
          /\ archive[a].commitmentPending = After(archive[a])
      BY <1>1, <2>3, AfterFacts
      DEF AsksFor, WebInv, WebEvent, LogInv, RequestsJustified
    <3>2. After(archive[a])[i] # EMPTY
      BY <3>1, KeysAssumption DEF IdentityRequest, FactorRequest, Justified
    <3>3. Grows(After(archive[a]), After(e))
      BY <1>1, <1>5, <1>7 DEF MapsGrow
    <3> QED
      BY <2>1, <3>2, <3>3 DEF Grows
  <2> QED
    BY <2>2, <2>3
<1> QED
  BY <1>8, <1>9, <1>10

\* Whatever rows the prover read, and when, and wherever it and the indexer
\* were stopped: the leaf of a factor in the zkApp's commitment only changes
\* to what its owner last asked for, so that nobody's factor is dropped and
\* none is invented.
THEOREM OnlyRequestedEverChanges ==
    ASSUME OwnSecretsOnly, WebMethodsOnly
    PROVE  Spec => OnlyRequestedChanges
<1>1. TypeInv /\ LogInv /\ OwnedInv /\ BackedInv /\ LogHasLast /\ [Next]_vars
         => [\A i \in Ids, f \in Factors :
               Settling!Leaf(commitment', i, f) # Settling!Leaf(commitment, i, f)
                 => Settling!Leaf(commitment', i, f) = LastRequested(i, f)]_commitment
  <2> SUFFICES ASSUME TypeInv, LogInv, OwnedInv, BackedInv, LogHasLast,
                      [Next]_vars, commitment' # commitment,
                      NEW i \in Ids, NEW f \in Factors,
                      Settling!Leaf(commitment', i, f)
                         # Settling!Leaf(commitment, i, f)
               PROVE  Settling!Leaf(commitment', i, f) = LastRequested(i, f)
    OBVIOUS
  <2>1. PICK t \in mempool : Include(t)
    <3>1. CASE Users
      BY <3>1 DEF Users, ClientStep, Prove, ProveFails, SendUser, chainVars
    <3>2. CASE Network
      BY <3>2 DEF Network, IncludeTxn, Reject, Drop
    <3>3. CASE Proving
      BY <3>3 DEF Proving, ProverStep, Send, SendFails, SetTransforming,
                  CommitPendingXforms, chainVars
    <3>4. CASE Indexing \/ UNCHANGED vars
      BY <3>4 DEF Indexing, vars, chainVars
    <3>5. CASE Crash
      <4>1. UNCHANGED chainVars
        BY <3>5, Zenon DEF Crash
      <4> QED
        BY <4>1 DEF chainVars
    <3> QED
      BY <3>1, <3>2, <3>3, <3>4, <3>5 DEF Next
  <2>2. /\ commitment' = t.post /\ t.pre = commitment
        /\ Grows(commitment, t.post) /\ Plain(commitment) /\ Plain(t.post)
        /\ Covers(storage, t.post)
    BY <2>1 DEF Include, BackedInv, MapsGrow
  <2>3. Settling!Leaf(t.post, i, f) = PRESENT /\ Has(t.post, i, f)
    BY <2>2, FieldAssumption
    DEF Settling!Leaf, Grows, Has, Plain, PlainRing
  <2>4. RowIn(storage, i, f)
    BY <2>2, <2>3 DEF Covers, Has
  <2>5. LastRequested(i, f) = PRESENT
    BY <2>4, RowsLastRequested DEF BackedInv, RowsBacked, OwnedInv
  <2> QED
    BY <2>2, <2>3, <2>5
<1> QED
  BY <1>1, TypeInvariant, LogInvariant, OwnedInvariant, BackedInvariant,
     LogHasLastInvariant, PTL
  DEF Spec, OnlyRequestedChanges

-----------------------------------------------------------------------------
(***************************************************************************)
(* Maps, and the requests they are made of.                                *)
(***************************************************************************)

\* The request e is for identity i to be there.
AsksForId(e, i) == e.type = "storage:pending" /\ e.key = i

\* What the first n events of the log es request.
IdAsked(es, i, n) == \E m \in 1 .. n : AsksForId(es[m], i)
FactorAsked(es, i, f, n) == \E m \in 1 .. n : AsksFor(es[m], i, f)

\* The map c has what the first n events of es request, and nothing else.
IsAllAsked(es, c, n) ==
    \A i \in Ids :
        /\ c[i] # EMPTY <=> IdAsked(es, i, n)
        /\ \A f \in Factors : Has(c, i, f) <=> FactorAsked(es, i, f, n)

\* The map c has what has a row in the table st, and nothing else.
IsAllRows(st, c) ==
    \A i \in Ids :
        /\ c[i] # EMPTY <=> Exists(st, i)
        /\ \A f \in Factors : Has(c, i, f) <=> RowIn(st, i, f)

\* The map c has nothing under keys that are no identities.
Tidy(c) == Plain(c) /\ \A f \in Factors : c[f] = EMPTY

\* Maps with the same identities and factors are the same.
LEMMA SameMaps ==
    ASSUME NEW c \in Commitments, NEW d \in Commitments, Tidy(c), Tidy(d),
           \A i \in Ids : /\ c[i] # EMPTY <=> d[i] # EMPTY
                          /\ \A f \in Factors : Has(c, i, f) <=> Has(d, i, f)
    PROVE  c = d
<1> SUFFICES ASSUME NEW s \in Level2 PROVE c[s] = d[s]
  BY DEF Commitments
<1>1. CASE s \in Factors
  BY <1>1 DEF Tidy
<1>2. CASE s \in Ids
  <2>1. CASE c[s] = EMPTY
    BY <1>2, <2>1
  <2>2. CASE c[s] # EMPTY
    <3>1. d[s] # EMPTY
      BY <1>2, <2>2
    <3>2. c[s] \in Keyrings /\ d[s] \in Keyrings
      BY <2>2, <3>1 DEF Commitments
    <3>3. PlainRing(c[s]) /\ PlainRing(d[s])
      BY <1>2, <2>2, <3>1 DEF Tidy, Plain
    <3>4. \A f \in Factors : c[s][f] = d[s][f]
      BY <1>2, <2>2, <3>1, <3>3 DEF PlainRing, Has
    <3> QED
      BY <3>2, <3>4 DEF Keyrings
  <2> QED
    BY <2>1, <2>2
<1> QED
  BY <1>1, <1>2 DEF Level2

\* A map that grows never becomes what it was.
LEMMA GrowsBack ==
    ASSUME NEW c \in Commitments, NEW d \in Commitments, Tidy(c), Tidy(d),
           Grows(c, d), Grows(d, c)
    PROVE  c = d
<1>1. \A i \in Ids : /\ c[i] # EMPTY <=> d[i] # EMPTY
                     /\ \A f \in Factors : Has(c, i, f) <=> Has(d, i, f)
  BY DEF Grows, Has
<1> QED
  BY <1>1, SameMaps

\* What is requested in the part that two logs have in common.
LEMMA AskedKept ==
    ASSUME NEW es, NEW fs, NEW n, \A m \in 1 .. n : fs[m] = es[m]
    PROVE  /\ \A i : IdAsked(fs, i, n) <=> IdAsked(es, i, n)
           /\ \A i, f : FactorAsked(fs, i, f, n) <=> FactorAsked(es, i, f, n)
           /\ \A c : IsAllAsked(fs, c, n) <=> IsAllAsked(es, c, n)
<1>1. /\ \A i : IdAsked(fs, i, n) <=> IdAsked(es, i, n)
      /\ \A i, f : FactorAsked(fs, i, f, n) <=> FactorAsked(es, i, f, n)
  BY DEF IdAsked, FactorAsked
<1> QED
  BY <1>1 DEF IsAllAsked

\* One event more.
LEMMA AskedMore ==
    ASSUME NEW es, NEW n \in Nat
    PROVE  /\ \A i : IdAsked(es, i, n + 1)
                        <=> IdAsked(es, i, n) \/ AsksForId(es[n + 1], i)
           /\ \A i, f : FactorAsked(es, i, f, n + 1)
                           <=> \/ FactorAsked(es, i, f, n)
                               \/ AsksFor(es[n + 1], i, f)
BY DEF IdAsked, FactorAsked

-----------------------------------------------------------------------------
(***************************************************************************)
(* The inductive invariant, by parts.                                      *)
(***************************************************************************)

\* A user's transaction requests and keeps the map, the prover's commits one.
SentKinds ==
    \A t \in mempool :
        \/ /\ t.origin = "user" /\ t.post = t.pre
           /\ t.events[1].type = "storage:pending"
        \/ t.origin = "prover" /\ t.events[1].type = "storage:commit"

\* An event that is no request leaves the map of all those before it, and the
\* last one leaves the commitment.
LogSettles ==
    /\ \A n \in 1 .. Len(archive) :
          /\ Tidy(After(archive[n]))
          /\ archive[n].type # "storage:pending"
                => IsAllAsked(archive, After(archive[n]), n - 1)
    /\ \E l \in 1 .. Len(archive) :
          /\ archive[l].type # "storage:pending"
          /\ \A m \in l + 1 .. Len(archive) : archive[m].type = "storage:pending"
          /\ After(archive[l]) = commitment

\* A commit under way changes the map; if it can be included it settles every
\* request in the log.
TxnsSettle ==
    \A t \in CommitTxns :
        /\ t.post # t.pre
        /\ Tidy(t.post)
        /\ Tidy(t.pre)
        /\ Grows(t.pre, commitment)
        /\ t.pre = commitment => IsAllAsked(archive, t.post, Len(archive))

\* What has a row was requested in what storage has processed, or in the event
\* it is processing.
RowsOfAsked ==
    \A i \in Ids :
        /\ Exists(storage, i) =>
              \/ IdAsked(archive, i, processed)
              \/ processed < recorded /\ AsksForId(Current, i)
        /\ \A f \in Factors : RowIn(storage, i, f) =>
              \/ FactorAsked(archive, i, f, processed)
              \/ processed < recorded /\ AsksFor(Current, i, f)

Committing == processed < recorded /\ Current.type = "storage:commit"

\* What is settled is in the map it was settled within, and in the one reached
\* or being committed.
SettledIn ==
    /\ Exists(storage, MANAGER) => ~storage[MANAGER].isPending
    /\ \A i \in Ids :
          /\ Settled(storage, i) =>
                /\ processed >= 1
                /\ storage[i].commitmentSettled[i] # EMPTY
                /\ Reached[i] # EMPTY \/ (Committing /\ After(Current)[i] # EMPTY)
                /\ \A f \in Factors :
                      RowIn(storage, i, f) /\ storage[i].value[f] = PRESENT
                         => ~storage[f].isPending
          /\ \A f \in Factors : RowIn(storage, i, f) /\ ~storage[f].isPending =>
                /\ processed >= 1
                /\ Has(storage[f].commitmentSettled, i, f)
                /\ \/ Has(Reached, i, f)
                   \/ Committing /\ Has(After(Current), i, f)

\* The manager's row has the map reached, or the one the event being processed
\* leads to.
ManagerStored ==
    /\ Exists(storage, MANAGER) =>
          \/ processed >= 1 /\ storage[MANAGER].value = Reached
          \/ /\ processed < recorded /\ Current.type # "storage:pending"
             /\ storage[MANAGER].value = After(Current)
    /\ ixPc \in {"clearTransforming", "markProcessed"}
          /\ Current.type # "storage:pending"
          => storage[MANAGER].value = After(Current)

\* A prover whose transaction could be included has read a table that has
\* caught up: it settles every row.
ProverSettles ==
    pvPc \in {"restoreStores", "send"} /\ pvPending = commitment =>
        /\ CaughtUp
        /\ Pending(storage) # {}
        /\ pvRows = Level3Reads(storage)
        /\ \A f \in Factors : pvMaps[f] = NULL
        /\ \A i \in Ids : pvMaps[i] # NULL =>
              \A f \in Factors : pvMaps[i][f] = PRESENT <=> RowIn(storage, i, f)
        /\ pvPc = "send" => IsAllRows(storage, pvSettled) /\ Tidy(pvSettled)

-----------------------------------------------------------------------------
(***************************************************************************)
(* The log and the transactions under way.                                 *)
(***************************************************************************)

\* What a step does to the zkApp and its network.
LEMMA ChainSteps ==
    ASSUME [Next]_vars
    PROVE  \/ UNCHANGED <<commitment, archive>> /\ mempool' \subseteq mempool
           \/ /\ \E u \in Clients : Prove(u)
              /\ UNCHANGED <<dbVars, indexerVars, proverVars>>
           \/ /\ \E t \in mempool : Include(t) /\ MayInclude(t)
              /\ UNCHANGED <<dbVars, indexerVars, proverVars>>
           \/ Send /\ UNCHANGED <<dbVars, indexerVars>>
<1>1. CASE Users
  BY <1>1 DEF Users, ClientStep, ProveFails, chainVars
<1>2. CASE Network
  BY <1>2 DEF Network, IncludeTxn, Reject, Drop
<1>3. CASE Proving
  BY <1>3 DEF Proving, ProverStep, SendFails, chainVars
<1>4. CASE Indexing \/ UNCHANGED vars
  BY <1>4 DEF Indexing, vars, chainVars
<1>5. CASE Crash
  <2>1. UNCHANGED chainVars
    BY <1>5, Zenon DEF Crash
  <2> QED
    BY <2>1 DEF chainVars
<1> QED
  BY <1>1, <1>2, <1>3, <1>4, <1>5 DEF Next

\* The log with one transaction more.
LEMMA IncludeOne ==
    ASSUME TypeInv, LogInv, MapsGrow, NEW t \in mempool, Include(t)
    PROVE  /\ archive \in Seq(Events) /\ Len(archive) \in Nat
           /\ Len(archive) >= 1
           /\ archive' \in Seq(Events) /\ Len(archive') = Len(archive) + 1
           /\ \A n \in 1 .. Len(archive) : archive'[n] = archive[n]
           /\ archive'[Len(archive) + 1] = t.events[1]
           /\ t.events[1].commitmentPending = commitment
           /\ After(t.events[1]) = commitment'
           /\ commitment = t.pre /\ commitment' = t.post
           /\ mempool' = mempool \ {t}
<1>1. /\ archive \in Seq(Events) /\ t.events \in Seq(Events)
      /\ Len(archive) \in Nat /\ Len(archive) >= 1
      /\ archive' = archive \o t.events /\ Len(t.events) = 1
  BY LogPositions
  DEF Include, MapsGrow, TypeInv, ChainInv, ChainTypeOK, Transactions
<1> DEFINE es == archive \o t.events
<1>2. /\ es \in Seq(Events)
      /\ Len(es) = Len(archive) + Len(t.events)
      /\ \A n \in 1 .. Len(archive) : es[n] = archive[n]
      /\ \A n \in Len(archive) + 1 .. Len(es) :
            es[n] = t.events[n - Len(archive)]
  <2>1. archive \in Seq(Events) /\ t.events \in Seq(Events)
    BY <1>1
  <2> QED
    BY <2>1, ConcatFacts, Zenon
<1>3. archive' = es
  BY <1>1
<1> HIDE DEF es
<1>4. (Len(archive) + 1) - Len(archive) = 1
  BY <1>1
<1>5. /\ t.events[1].commitmentPending = t.pre
      /\ After(t.events[1]) = t.post
  BY <1>1 DEF LogInv, TxnInv
<1>6. /\ commitment' = t.post /\ t.pre = commitment
      /\ mempool' = mempool \ {t}
  BY DEF Include
<1> QED
  BY <1>1, <1>2, <1>3, <1>4, <1>5, <1>6

\* Who sends what.
LEMMA SentKindsStep ==
    TypeInv /\ SentKinds /\ [Next]_vars => SentKinds'
<1> SUFFICES ASSUME TypeInv, SentKinds, [Next]_vars
             PROVE  SentKinds'
  OBVIOUS
<1>1. CASE mempool' \subseteq mempool
  BY <1>1 DEF SentKinds
<1>2. CASE \E u \in Clients : Prove(u)
  <2>1. PICK u \in Clients : Prove(u)
    BY <1>2
  <2>2. client[u].method \in {"addAuthNFactor", "delAuthNFactor"}
            => client[u].factor \in Enrols[client[u].id]
    BY <2>1 DEF Prove, TypeInv, ClientInv, ClientReady
  <2>3. Requests(Emits(client[u]), commitment) /\ Emits(client[u]) \in Seq(Events)
    BY <2>1, <2>2, MethodRequests
    DEF Prove, TypeInv, ClientInv, ChainInv, ChainTypeOK
  <2> DEFINE t == [origin |-> "user", serial |-> sends + 1,
                   pre |-> commitment, post |-> commitment,
                   events |-> Emits(client[u])]
  <2>4. mempool' = mempool \cup {t}
    BY <2>1 DEF Prove, SendUser
  <2>5. /\ t.origin = "user" /\ t.post = t.pre
        /\ t.events[1].type = "storage:pending"
    BY <2>3 DEF Requests
  <2> HIDE DEF t
  <2> QED
    BY <2>4, <2>5 DEF SentKinds
<1>3. CASE Send
  <2> DEFINE e == EventStorageCommit(pvPending, pvSettled)
             t == [origin |-> "prover", serial |-> commits + 1,
                   pre |-> commitment, post |-> pvSettled, events |-> <<e>>]
  <2>1. mempool' = mempool \cup {t}
    BY <1>3 DEF Send, CommitPendingXforms
  <2>2. e.type = "storage:commit"
    BY DEF EventStorageCommit
  <2> HIDE DEF e
  <2>3. t.origin = "prover" /\ t.events[1].type = "storage:commit"
    BY <2>2
  <2> HIDE DEF t
  <2> QED
    BY <2>1, <2>3 DEF SentKinds
<1>4. CASE \E t \in mempool : Include(t)
  BY <1>1, <1>4 DEF Include
<1> QED
  BY <1>1, <1>2, <1>3, <1>4, ChainSteps

\* Every commit under way can be included after nothing but requests, so that
\* the log stays as it says.
LEMMA LogSettlesStep ==
    TypeInv /\ LogInv /\ MapsGrow /\ SentKinds /\ LogSettles /\ TxnsSettle
       /\ [Next]_vars => LogSettles'
<1> SUFFICES ASSUME TypeInv, LogInv, MapsGrow, SentKinds, LogSettles, TxnsSettle,
                    [Next]_vars
             PROVE  LogSettles'
  OBVIOUS
<1>1. CASE UNCHANGED <<commitment, archive>>
  BY <1>1 DEF LogSettles
<1>2. CASE \E t \in mempool : Include(t)
  <2>1. PICK t \in mempool : Include(t)
    BY <1>2
  <2> DEFINE n0 == Len(archive) + 1
             e == t.events[1]
  <2>2. /\ Len(archive) \in Nat /\ Len(archive) >= 1
        /\ Len(archive') = n0
        /\ \A n \in 1 .. Len(archive) : archive'[n] = archive[n]
        /\ archive'[n0] = e
        /\ After(e) = commitment' /\ commitment = t.pre /\ commitment' = t.post
    BY <2>1, IncludeOne
  <2>3. \/ /\ t.origin = "user" /\ t.post = t.pre
           /\ e.type = "storage:pending"
        \/ t \in CommitTxns /\ e.type = "storage:commit"
    BY DEF SentKinds, CommitTxns
  <2> HIDE DEF e
  <2>4. ASSUME NEW n \in 1 .. Len(archive)
        PROVE  /\ Tidy(After(archive'[n]))
               /\ archive'[n].type # "storage:pending"
                     => IsAllAsked(archive', After(archive'[n]), n - 1)
    <3>1. \A m \in 1 .. n - 1 : archive'[m] = archive[m]
      BY <2>2
    <3>2. \A c : IsAllAsked(archive', c, n - 1) <=> IsAllAsked(archive, c, n - 1)
      BY <3>1, AskedKept
    <3> QED
      BY <2>2, <3>2 DEF LogSettles
  <2>5. PICK l \in 1 .. Len(archive) :
           /\ archive[l].type # "storage:pending"
           /\ \A m \in l + 1 .. Len(archive) : archive[m].type = "storage:pending"
           /\ After(archive[l]) = commitment
    BY DEF LogSettles
  <2>6. CASE e.type = "storage:pending" /\ t.post = t.pre
    <3>1. Tidy(After(archive'[n0]))
      BY <2>2, <2>5, <2>6 DEF LogSettles
    <3>2. /\ l \in 1 .. Len(archive')
          /\ archive'[l].type # "storage:pending"
          /\ After(archive'[l]) = commitment'
          /\ \A m \in l + 1 .. Len(archive') :
                archive'[m].type = "storage:pending"
      BY <2>2, <2>5, <2>6
    <3> QED
      BY <2>2, <2>4, <2>6, <3>1, <3>2 DEF LogSettles
  <2>7. CASE e.type = "storage:commit" /\ t \in CommitTxns
    <3>1. Tidy(t.post) /\ IsAllAsked(archive, t.post, Len(archive))
      BY <2>2, <2>7 DEF TxnsSettle
    <3>2. IsAllAsked(archive', t.post, Len(archive))
      BY <2>2, <3>1, AskedKept
    <3>3. /\ Tidy(After(archive'[n0]))
          /\ IsAllAsked(archive', After(archive'[n0]), n0 - 1)
      BY <2>2, <3>1, <3>2
    <3>4. /\ n0 \in 1 .. Len(archive')
          /\ archive'[n0].type # "storage:pending"
          /\ After(archive'[n0]) = commitment'
          /\ \A m \in n0 + 1 .. Len(archive') :
                archive'[m].type = "storage:pending"
      BY <2>2, <2>7
    <3>5. \A n \in 1 .. Len(archive') : n = n0 \/ n \in 1 .. Len(archive)
      BY <2>2
    <3> HIDE DEF n0
    <3> QED
      BY <2>4, <3>3, <3>4, <3>5 DEF LogSettles
  <2> QED
    BY <2>3, <2>6, <2>7
<1>3. CASE Send \/ \E u \in Clients : Prove(u)
  BY <1>1, <1>3 DEF Send, CommitPendingXforms, Prove, SendUser
<1> QED
  BY <1>1, <1>2, <1>3, ChainSteps

\* What was requested in what storage has processed has its row.
LEMMA AskedRows ==
    ASSUME OwnSecretsOnly, TypeInv, OwnedInv, NEW i \in Ids
    PROVE  /\ IdAsked(archive, i, processed) => Exists(storage, i)
           /\ \A f \in Factors :
                 FactorAsked(archive, i, f, processed) => RowIn(storage, i, f)
<1>1. ASSUME NEW m \in 1 .. processed, archive[m].type = "storage:pending"
      PROVE  /\ IdentityRequest(archive[m]) \/ FactorRequest(archive[m])
             /\ Exists(storage, archive[m].key)
             /\ HasData(archive[m]) => Exists(storage, archive[m].meta[2])
  <2>1. m \in 1 .. Len(archive)
    BY LogPositions
  <2> QED
    BY <1>1, <2>1 DEF OwnedInv, WebInv, WebEvent, RowsKept, RowsFor
<1>2. IdAsked(archive, i, processed) => Exists(storage, i)
  BY <1>1 DEF IdAsked, AsksForId
<1>3. ASSUME NEW f \in Factors, FactorAsked(archive, i, f, processed)
      PROVE  RowIn(storage, i, f)
  <2>1. PICK m \in 1 .. processed : AsksFor(archive[m], i, f)
    BY <1>3 DEF FactorAsked
  <2> DEFINE e == archive[m]
  <2>2. /\ archive[m].type = "storage:pending"
        /\ \/ e.key = i /\ f = OpKey[i]
           \/ e.id = i /\ e.key = f
    BY <2>1 DEF AsksFor
  <2>3. /\ IdentityRequest(e) \/ FactorRequest(e)
        /\ Exists(storage, e.key)
        /\ HasData(e) => Exists(storage, e.meta[2])
    BY <1>1, <2>2
  <2> HIDE DEF e
  <2>4. Exists(storage, f) /\ f \in Owned(i)
    <3>1. CASE IdentityRequest(e)
      <4>1. e.key = i /\ f = OpKey[i] /\ HasData(e) /\ e.meta[2] = OpKey[i]
        BY <2>2, <3>1, RequestKinds, KeysAssumption DEF IdentityRequest
      <4> QED
        BY <2>3, <4>1 DEF Owned
    <3>2. CASE FactorRequest(e)
      <4>1. e.key = f /\ e.id = i
        BY <2>2, <3>2, KeysAssumption DEF FactorRequest
      <4> QED
        BY <2>3, <3>2, <4>1 DEF FactorRequest, Owned
    <3> QED
      BY <2>3, <3>1, <3>2
  <2>5. storage[f].storageKey = i
    BY <2>4 DEF OwnedInv, RowsOwned, OwnSecretsOnly
  <2> QED
    BY <2>4, <2>5 DEF RowIn
<1> QED
  BY <1>2, <1>3

\* Storage that has caught up has reached the commitment.
LEMMA CaughtUpFacts ==
    ASSUME TypeInv, LogInv, CaughtUp
    PROVE  /\ processed = recorded /\ processed >= 1
           /\ processed = Len(archive)
           /\ Reached = commitment
<1>1. /\ Len(archive) >= 1 /\ processed = Len(archive)
      /\ processed <= recorded /\ recorded <= Len(archive)
      /\ Len(archive) \in Nat /\ recorded \in Nat
  BY LogPositions DEF CaughtUp
<1> QED
  BY <1>1 DEF LogInv, LogLinked, Reached

\* A map of all its rows is all that was requested.
LEMMA AllRowsAsked ==
    ASSUME OwnSecretsOnly, TypeInv, LogInv, OwnedInv, RowsOfAsked, CaughtUp,
           NEW c, IsAllRows(storage, c)
    PROVE  IsAllAsked(archive, c, Len(archive))
<1>1. processed = Len(archive) /\ ~(processed < recorded)
  BY CaughtUpFacts, LogPositions
<1>2. ASSUME NEW i \in Ids
      PROVE  /\ Exists(storage, i) <=> IdAsked(archive, i, processed)
             /\ \A f \in Factors :
                   RowIn(storage, i, f) <=> FactorAsked(archive, i, f, processed)
  BY <1>1, AskedRows DEF RowsOfAsked
<1> QED
  BY <1>1, <1>2 DEF IsAllAsked, IsAllRows

\* A row that is pending is not in the commitment.
LEMMA AllRowsNew ==
    ASSUME TypeInv, LogInv, OwnedInv, RowsBacked, SettledIn, CaughtUp,
           Pending(storage) # {}, NEW c, IsAllRows(storage, c)
    PROVE  c # commitment
<1>1. PICK k \in Keys : Exists(storage, k) /\ storage[k].isPending
  BY DEF Pending
<1>2. k \in Ids \/ k \in Factors
  BY <1>1 DEF OwnedInv, RowsOwned, SettledIn, Level2
<1>3. processed >= 1 /\ Reached = commitment
  BY CaughtUpFacts
<1>4. CASE k \in Ids
  BY <1>1, <1>3, <1>4 DEF RowsBacked, CommittedStored, IsAllRows
<1>5. CASE k \in Factors
  <2> DEFINE i == storage[k].storageKey
  <2>1. i \in Ids
    BY <1>1, <1>5 DEF OwnedInv, RowsOwned
  <2>2. RowIn(storage, i, k)
    BY <1>1 DEF RowIn
  <2>3. ~Has(commitment, i, k)
    BY <1>1, <1>3, <1>5, <2>1, <2>2 DEF RowsBacked, CommittedStored
  <2>4. Has(c, i, k)
    BY <1>5, <2>1, <2>2 DEF IsAllRows
  <2> QED
    BY <2>3, <2>4
<1> QED
  BY <1>2, <1>4, <1>5

\* The commitment is the map an event of the log left.
LEMMA CommitmentTidy ==
    ASSUME TypeInv, LogInv, LogSettles
    PROVE  Tidy(commitment) /\ commitment \in Commitments
<1>1. Len(archive) \in 1 .. Len(archive)
  BY LogPositions
<1> QED
  BY <1>1 DEF LogSettles, LogInv, LogLinked, TypeInv, ChainInv, ChainTypeOK

\* Commits and requests take turns: what a commit settles is settled when it
\* is included, and what it was made of stays as it is until then.
LEMMA TxnsSettleStep ==
    ASSUME Serialized = TRUE, OwnSecretsOnly
    PROVE  TypeInv /\ LogInv /\ OwnedInv /\ BackedInv /\ SentKinds /\ LogSettles
              /\ TxnsSettle /\ RowsOfAsked /\ SettledIn /\ ProverSettles
              /\ [Next]_vars => TxnsSettle'
<1> SUFFICES ASSUME TypeInv, LogInv, OwnedInv, BackedInv, SentKinds, LogSettles,
                    TxnsSettle, RowsOfAsked, SettledIn, ProverSettles,
                    [Next]_vars
             PROVE  TxnsSettle'
  OBVIOUS
<1>0. MapsGrow /\ RowsBacked /\ Tidy(commitment)
  BY CommitmentTidy DEF BackedInv
<1>1. ASSUME UNCHANGED <<commitment, archive>>, CommitTxns' \subseteq CommitTxns
      PROVE  TxnsSettle'
  <2> SUFFICES ASSUME NEW t \in CommitTxns'
               PROVE  /\ t.post # t.pre
                      /\ Tidy(t.post)
                      /\ Tidy(t.pre)
                      /\ Grows(t.pre, commitment')
                      /\ t.pre = commitment'
                            => IsAllAsked(archive', t.post, Len(archive'))
    BY DEF TxnsSettle
  <2> QED
    BY <1>1 DEF TxnsSettle
<1>2. CASE UNCHANGED <<commitment, archive>> /\ mempool' \subseteq mempool
  BY <1>1, <1>2 DEF CommitTxns
<1>3. CASE \E u \in Clients : Prove(u)
  <2>1. PICK u \in Clients : Prove(u)
    BY <1>3
  <2> DEFINE t == [origin |-> "user", serial |-> sends + 1,
                   pre |-> commitment, post |-> commitment,
                   events |-> Emits(client[u])]
  <2>2. mempool' = mempool \cup {t} /\ UNCHANGED <<commitment, archive>>
    BY <2>1 DEF Prove, SendUser
  <2>3. t.origin = "user"
    OBVIOUS
  <2> HIDE DEF t
  <2> QED
    BY <1>1, <2>2, <2>3 DEF CommitTxns
<1>4. CASE Send
  <2> DEFINE e == EventStorageCommit(pvPending, pvSettled)
             t == [origin |-> "prover", serial |-> commits + 1,
                   pre |-> commitment, post |-> pvSettled, events |-> <<e>>]
  <2>1. /\ mempool' = mempool \cup {t} /\ UNCHANGED <<commitment, archive>>
        /\ pvPc = "send" /\ pvPending = commitment
    BY <1>4 DEF Send, CommitPendingXforms
  <2> HIDE DEF e
  <2>2. t.pre = commitment /\ t.post = pvSettled
    OBVIOUS
  <2> HIDE DEF t
  <2>3. /\ CaughtUp /\ Pending(storage) # {}
        /\ IsAllRows(storage, pvSettled) /\ Tidy(pvSettled)
    BY <2>1 DEF ProverSettles
  <2>4. /\ pvSettled # commitment
        /\ IsAllAsked(archive, pvSettled, Len(archive))
    BY <1>0, <2>3, AllRowsNew, AllRowsAsked
  <2>5. Grows(commitment, commitment)
    BY GrowsFacts
  <2> SUFFICES ASSUME NEW s \in CommitTxns'
               PROVE  /\ s.post # s.pre
                      /\ Tidy(s.post)
                      /\ Tidy(s.pre)
                      /\ Grows(s.pre, commitment')
                      /\ s.pre = commitment'
                            => IsAllAsked(archive', s.post, Len(archive'))
    BY DEF TxnsSettle
  <2>6. CASE s = t
    BY <1>0, <2>1, <2>2, <2>3, <2>4, <2>5, <2>6
  <2>7. CASE s # t
    BY <2>1, <2>7 DEF TxnsSettle, CommitTxns
  <2> QED
    BY <2>6, <2>7
<1>5. CASE \E t \in mempool : Include(t) /\ MayInclude(t)
  <2>1. PICK t \in mempool : Include(t) /\ MayInclude(t)
    BY <1>5
  <2>2. /\ commitment' = t.post /\ commitment = t.pre
        /\ mempool' = mempool \ {t}
    BY <2>1 DEF Include
  <2>3. CASE t.origin = "user"
    <3>1. CommitTxns = {}
      BY <2>1, <2>3 DEF MayInclude, ProverQuiet
    <3>2. CommitTxns' = {}
      BY <2>2, <3>1 DEF CommitTxns
    <3> QED
      BY <3>2 DEF TxnsSettle
  <2>4. CASE t \in CommitTxns
    <3>1. /\ Grows(t.pre, t.post)
          /\ t.pre \in Commitments /\ t.post \in Commitments
          /\ t.post # t.pre /\ Tidy(t.pre) /\ Tidy(t.post)
      BY <1>0, <2>4
      DEF MapsGrow, TxnsSettle, TypeInv, ChainInv, ChainTypeOK, Transactions
    <3> SUFFICES ASSUME NEW s \in CommitTxns'
                 PROVE  /\ s.post # s.pre
                        /\ Tidy(s.post)
                        /\ Tidy(s.pre)
                        /\ Grows(s.pre, commitment')
                        /\ s.pre # commitment'
      BY DEF TxnsSettle
    <3>2. s \in CommitTxns
      BY <2>2 DEF CommitTxns
    <3>3. Grows(s.pre, commitment)
      BY <3>2 DEF TxnsSettle
    <3>4. Grows(s.pre, commitment')
      BY <2>2, <3>1, <3>3, GrowsFacts
    <3>5. s.pre # commitment'
      BY <2>2, <3>1, <3>3, GrowsBack
    <3> QED
      BY <3>2, <3>4, <3>5 DEF TxnsSettle
  <2> QED
    BY <2>3, <2>4 DEF SentKinds, CommitTxns
<1> QED
  BY <1>2, <1>3, <1>4, <1>5, ChainSteps

-----------------------------------------------------------------------------
(***************************************************************************)
(* The prover.                                                             *)
(***************************************************************************)

\* Where nothing is to be processed the table stays as it is.
LEMMA CaughtUpKept ==
    ASSUME TypeInv, CaughtUp, [Next]_vars, UNCHANGED archive
    PROVE  CaughtUp' /\ UNCHANGED storage
<1>1. /\ processed = Len(archive) /\ ixPc \in {"fetch", "process"}
      /\ processed = recorded /\ processed \in Nat
  BY LogPositions DEF CaughtUp
<1>2. CASE UNCHANGED <<storage, recorded, processed, indexerVars>>
  BY <1>1, <1>2 DEF CaughtUp, indexerVars
<1>3. CASE IndexerStep \/ IndexerCrash
  <2>1. Fetch \/ EndCycle \/ IndexerCrash
    <3>1. ~(processed < recorded)
      BY <1>1
    <3> QED
      BY <1>1, <1>3, <3>1
      DEF IndexerStep, ProcessCreate, ProcessPending, SetData, ProcessCommit,
          UpdateStore, UpdateManager, ClearTransforming, MarkProcessed,
          IndexerThrows
  <2> QED
    BY <1>1, <2>1 DEF Fetch, EndCycle, IndexerCrash, Restart, dbVars, CaughtUp
<1> QED
  BY <1>2, <1>3, StepKinds

\* A prover that stays where it is, while the zkApp does too.
LEMMA ProverSettlesKept ==
    ASSUME TypeInv, ProverSettles, [Next]_vars, UNCHANGED proverVars,
           UNCHANGED <<commitment, archive>>
    PROVE  ProverSettles'
<1> SUFFICES ASSUME pvPc' \in {"restoreStores", "send"}, pvPending' = commitment'
             PROVE  /\ CaughtUp'
                    /\ Pending(storage') # {}
                    /\ pvRows' = Level3Reads(storage')
                    /\ \A f \in Factors : pvMaps'[f] = NULL
                    /\ \A i \in Ids : pvMaps'[i] # NULL =>
                          \A f \in Factors :
                             pvMaps'[i][f] = PRESENT <=> RowIn(storage', i, f)
                    /\ pvPc' = "send" =>
                          IsAllRows(storage', pvSettled') /\ Tidy(pvSettled')
  BY DEF ProverSettles
<1>1. /\ pvPc' = pvPc /\ pvRows' = pvRows /\ pvMaps' = pvMaps
      /\ pvPending' = pvPending /\ pvSettled' = pvSettled
  BY DEF proverVars
<1>2. pvPc \in {"restoreStores", "send"} /\ pvPending = commitment
  BY <1>1
<1>3. CaughtUp' /\ storage' = storage
  BY <1>2, CaughtUpKept DEF ProverSettles
<1> QED
  BY <1>1, <1>2, <1>3 DEF ProverSettles

\* The map of a store has all its rows: those that are pending were read.
LEMMA StoreSettles ==
    ASSUME TypeInv, RowsOwned, ProverBacked, pvRows = Level3Reads(storage),
           NEW s \in Ids, NEW ring, ring = Updated(StoredKeyring(storage, s), s),
           NEW f \in Factors
    PROVE  ring[f] = PRESENT <=> RowIn(storage, s, f)
<1>1. CASE \E r \in pvRows : r.storageKey = s /\ r.key = f
  <2> DEFINE r == CHOOSE x \in pvRows : x.storageKey = s /\ x.key = f
  <2>1. r \in pvRows /\ r.storageKey = s /\ r.key = f
    BY <1>1
  <2>2. ring[f] = r.value
    BY <1>1 DEF Updated
  <2> HIDE DEF r
  <2> QED
    BY <2>1, <2>2 DEF ProverBacked
<1>2. CASE ~ \E r \in pvRows : r.storageKey = s /\ r.key = f
  <2>1. ring[f] = IF RowIn(storage, s, f) /\ ~storage[f].isPending
                  THEN storage[f].value ELSE EMPTY
    BY <1>2 DEF Updated, StoredKeyring, Settled, RowIn
  <2>2. RowIn(storage, s, f) => storage[f].value = PRESENT
    BY DEF RowIn, RowsOwned
  <2>3. RowIn(storage, s, f) => ~storage[f].isPending
    <3> SUFFICES ASSUME RowIn(storage, s, f), storage[f].isPending
                 PROVE  FALSE
      OBVIOUS
    <3> DEFINE r == [key |-> f, value |-> storage[f].value,
                     storageKey |-> storage[f].storageKey]
    <3>1. f \in Pending(storage) /\ storage[f].storageKey \in Level2
      BY DEF RowIn, Pending, Keys, Level2
    <3>2. r \in pvRows
      BY <3>1 DEF Level3Reads
    <3>3. r.storageKey = s /\ r.key = f
      BY DEF RowIn
    <3> HIDE DEF r
    <3> QED
      BY <1>2, <3>2, <3>3
  <2> QED
    BY <2>1, <2>2, <2>3, FieldAssumption
<1> QED
  BY <1>1, <1>2

\* A store the prover has not restored has nothing pending, and neither has its
\* own row, for which there would be an operator key to settle.
LEMMA RestSettled ==
    ASSUME OwnSecretsOnly, TypeInv, LogInv, OwnedInv, BackedInv, RowsOfAsked,
           SettledIn, CaughtUp, pvRows = Level3Reads(storage),
           NEW i \in Ids, \A r \in pvRows : r.storageKey # i
    PROVE  /\ \A f \in Factors : RowIn(storage, i, f) => ~storage[f].isPending
           /\ Exists(storage, i) => ~storage[i].isPending
<1>1. ASSUME NEW f \in Factors, RowIn(storage, i, f), storage[f].isPending
      PROVE  FALSE
  <2> DEFINE r == [key |-> f, value |-> storage[f].value,
                   storageKey |-> storage[f].storageKey]
  <2>1. f \in Pending(storage) /\ storage[f].storageKey \in Level2
    BY <1>1 DEF RowIn, Pending, Keys, Level2
  <2>2. r \in pvRows
    BY <2>1 DEF Level3Reads
  <2>3. r.storageKey = i
    BY <1>1 DEF RowIn
  <2> HIDE DEF r
  <2> QED
    BY <2>2, <2>3
<1>2. ASSUME Exists(storage, i), storage[i].isPending
      PROVE  FALSE
  <2>1. processed >= 1 /\ ~(processed < recorded)
    BY CaughtUpFacts, LogPositions
  <2>2. Reached[i] = EMPTY
    BY <1>2, <2>1 DEF BackedInv, RowsBacked, CommittedStored
  <2>3. PICK m \in 1 .. processed : AsksForId(archive[m], i)
    BY <1>2, <2>1 DEF RowsOfAsked, IdAsked
  <2>4. FactorAsked(archive, i, OpKey[i], processed)
    BY <2>3 DEF FactorAsked, AsksFor, AsksForId
  <2>5. OpKey[i] \in Factors
    BY KeysAssumption
  <2>6. RowIn(storage, i, OpKey[i])
    BY <2>4, <2>5, AskedRows
  <2>7. Has(Reached, i, OpKey[i])
    BY <1>1, <2>1, <2>5, <2>6 DEF SettledIn, Committing
  <2> QED
    BY <2>2, <2>7 DEF Has
<1> QED
  BY <1>1, <1>2

\* What the prover settles is every row.
LEMMA SettlesAllRows ==
    ASSUME OwnSecretsOnly, TypeInv, LogInv, OwnedInv, BackedInv, RowsOfAsked,
           SettledIn, ProverSettles, pvPc = "restoreStores",
           pvPending = commitment,
           \A r \in pvRows : pvMaps[r.storageKey] # NULL,
           NEW cs, cs = [s \in Level2 |-> IF pvMaps[s] = NULL
                                          THEN StoredManager(storage)[s]
                                          ELSE pvMaps[s]]
    PROVE  IsAllRows(storage, cs) /\ Tidy(cs)
<1>1. /\ CaughtUp
      /\ pvRows = Level3Reads(storage)
      /\ \A f \in Factors : pvMaps[f] = NULL
      /\ \A i \in Ids : pvMaps[i] # NULL =>
            \A f \in Factors : pvMaps[i][f] = PRESENT <=> RowIn(storage, i, f)
  BY DEF ProverSettles
<1>2. processed >= 1 /\ ~(processed < recorded)
  BY <1>1, CaughtUpFacts, LogPositions
<1>3. Grows(pvPending, cs) /\ Plain(cs) /\ Covers(storage, cs)
  BY SettledBacked DEF BackedInv
<1>4. ASSUME NEW i \in Ids
      PROVE  /\ cs[i] # EMPTY <=> Exists(storage, i)
             /\ \A f \in Factors : Has(cs, i, f) <=> RowIn(storage, i, f)
  <2>0. i \in Level2 /\ i \in Keys /\ EMPTY \notin Keyrings
    BY FieldAssumption DEF Level2, Keys
  <2>1. CASE pvMaps[i] # NULL
    <3>1. cs[i] = pvMaps[i] /\ pvMaps[i] \in Keyrings
      BY <2>0, <2>1 DEF TypeInv, ProverTypeOK
    <3>2. Exists(storage, i) /\ cs[i] # EMPTY
      BY <2>0, <2>1, <3>1 DEF BackedInv, ProverBacked
    <3> QED
      BY <1>1, <2>1, <3>1, <3>2 DEF Has
  <2>2. CASE pvMaps[i] = NULL
    <3>1. /\ \A f \in Factors : RowIn(storage, i, f) => ~storage[f].isPending
          /\ Exists(storage, i) => ~storage[i].isPending
      BY <1>1, <2>2, RestSettled
    <3>2. Exists(storage, i) =>
             storage[i].storageKey = MANAGER /\ storage[i].value \in Keyrings
      BY <2>0, RowFacts, KeysAssumption DEF TypeInv, StoresOf, RowsOf, ValuesOf
    <3>3. cs[i] = IF Exists(storage, i) THEN storage[i].value ELSE EMPTY
      BY <2>0, <2>2, <3>1, <3>2 DEF StoredManager, Settled
    <3>4. ASSUME NEW f \in Factors
          PROVE  Has(cs, i, f) <=> RowIn(storage, i, f)
      <4>1. ASSUME RowIn(storage, i, f)
            PROVE  Exists(storage, i) /\ storage[i].value[f] = PRESENT
        <5>1. Exists(storage, i)
          BY <2>0, <4>1, RowFacts DEF TypeInv, RowIn, Keys, Level2
        <5> QED
          BY <1>2, <3>1, <4>1, <5>1 DEF BackedInv, RowsBacked, RowsStored
      <4>2. ASSUME Exists(storage, i), storage[i].value[f] = PRESENT
            PROVE  RowIn(storage, i, f)
        BY <1>2, <4>2 DEF BackedInv, RowsBacked, KeyringsBacked
      <4> QED
        BY <2>0, <3>2, <3>3, <4>1, <4>2 DEF Has
    <3> QED
      BY <2>0, <3>2, <3>3, <3>4
  <2> QED
    BY <2>1, <2>2
<1>5. ASSUME NEW f \in Factors
      PROVE  cs[f] = EMPTY
  <2>1. f \in Level2 /\ pvMaps[f] = NULL
    BY <1>1 DEF Level2
  <2>2. cs[f] = StoredManager(storage)[f]
    BY <2>1
  <2>3. Exists(storage, f) => storage[f].storageKey # MANAGER
    BY KeysAssumption DEF OwnedInv, RowsOwned
  <2> QED
    BY <2>1, <2>2, <2>3 DEF StoredManager, Settled
<1> QED
  BY <1>3, <1>4, <1>5 DEF IsAllRows, Tidy

\* Every step of the prover.
LEMMA ProverSettlesSteps ==
    ASSUME OwnSecretsOnly, TypeInv, LogInv, PendingInv, OwnedInv, BackedInv,
           RowsOfAsked, SettledIn, ProverSettles, ProverStep,
           pvPc = "query" => CaughtUp,
           UNCHANGED <<storage, processed, ixPc, archive>>
    PROVE  ProverSettles'
<1>0. CaughtUp' <=> CaughtUp
  BY DEF CaughtUp
<1>1. CASE Query
  <2>1. /\ pvPc = "query" /\ pvPc' = "restoreStores" /\ pvMaps' = NoMaps
        /\ pvRows' = Level3Reads(storage) /\ Pending(storage) # {}
    BY <1>1 DEF Query, BackedInv, ProverBacked
  <2>2. \A s \in Level2 : pvMaps'[s] = NULL
    BY <2>1 DEF NoMaps
  <2> QED
    BY <1>0, <2>1, <2>2 DEF ProverSettles, Level2
<1>2. CASE \E s \in Level2 : RestoreStore(s) /\ UNCHANGED chainVars
  <2>1. PICK s \in Level2 : RestoreStore(s) /\ UNCHANGED chainVars
    BY <1>2
  <2>2. /\ pvPc = "restoreStores" /\ \E r \in pvRows : r.storageKey = s
        /\ pvPc' = pvPc /\ pvRows' = pvRows /\ pvPending' = pvPending
        /\ commitment' = commitment
        /\ s \in Ids
    BY <2>1 DEF RestoreStore, BackedInv, ProverBacked, chainVars
  <2> DEFINE ring == Updated(StoredKeyring(storage, s), s)
  <2>3. /\ pvMaps'[s] = ring
        /\ \A j \in Level2 \ {s} : pvMaps'[j] = pvMaps[j]
    BY <2>1 DEF RestoreStore, TypeInv, ProverTypeOK
  <2> HIDE DEF ring
  <2> SUFFICES ASSUME pvPending = commitment
               PROVE  /\ CaughtUp
                      /\ Pending(storage) # {}
                      /\ pvRows = Level3Reads(storage)
                      /\ \A f \in Factors : pvMaps'[f] = NULL
                      /\ \A i \in Ids : pvMaps'[i] # NULL =>
                            \A f \in Factors :
                               pvMaps'[i][f] = PRESENT <=> RowIn(storage, i, f)
    BY <1>0, <2>2 DEF ProverSettles
  <2>4. /\ CaughtUp
        /\ Pending(storage) # {}
        /\ pvRows = Level3Reads(storage)
        /\ \A f \in Factors : pvMaps[f] = NULL
        /\ \A i \in Ids : pvMaps[i] # NULL =>
              \A f \in Factors :
                 pvMaps[i][f] = PRESENT <=> RowIn(storage, i, f)
    BY <2>2 DEF ProverSettles
  <2>5. \A f \in Factors : ring[f] = PRESENT <=> RowIn(storage, s, f)
    BY <2>2, <2>4, StoreSettles DEF ring, OwnedInv, BackedInv
  <2>6. \A f \in Factors : f \in Level2 \ {s}
    BY <2>2, KeysAssumption DEF Level2
  <2>7. ASSUME NEW i \in Ids, pvMaps'[i] # NULL, NEW f \in Factors
        PROVE  pvMaps'[i][f] = PRESENT <=> RowIn(storage, i, f)
    <3>1. CASE i = s
      BY <2>3, <2>5, <3>1
    <3>2. CASE i # s
      <4>1. pvMaps'[i] = pvMaps[i]
        BY <2>3, <3>2 DEF Level2
      <4> QED
        BY <2>4, <2>7, <4>1
    <3> QED
      BY <3>1, <3>2
  <2> QED
    BY <2>3, <2>4, <2>6, <2>7
<1>3. CASE ProverRestoreManager /\ UNCHANGED chainVars
  <2> DEFINE cs == [s \in Level2 |-> IF pvMaps[s] = NULL
                                     THEN StoredManager(storage)[s]
                                     ELSE pvMaps[s]]
  <2>1. /\ pvPc = "restoreStores" /\ pvPc' = "send" /\ pvSettled' = cs
        /\ \A r \in pvRows : pvMaps[r.storageKey] # NULL
        /\ UNCHANGED <<pvRows, pvMaps, pvPending>> /\ commitment' = commitment
    BY <1>3 DEF ProverRestoreManager, chainVars
  <2> HIDE DEF cs
  <2>2. pvPending = commitment => IsAllRows(storage, cs) /\ Tidy(cs)
    BY <2>1, SettlesAllRows DEF cs
  <2> QED
    BY <1>0, <2>1, <2>2 DEF ProverSettles
<1>4. CASE Waited \/ SendFails \/ Send \/ SetTransforming
  <2>1. pvPc' \notin {"restoreStores", "send"}
    BY <1>4 DEF Waited, SendFails, Rest, Send, SetTransforming
  <2> QED
    BY <2>1 DEF ProverSettles
<1> QED
  BY <1>1, <1>2, <1>3, <1>4 DEF ProverStep

\* No block is taken between the prover's query and its transaction's that
\* would leave it one that could be included.
LEMMA ProverSettlesStep ==
    ASSUME Serialized = TRUE, OwnSecretsOnly
    PROVE  TypeInv /\ LogInv /\ PendingInv /\ OwnedInv /\ BackedInv /\ SentKinds
              /\ TxnsSettle /\ LogSettles /\ RowsOfAsked /\ SettledIn
              /\ ProverSettles /\ [Next]_vars => ProverSettles'
<1> SUFFICES ASSUME TypeInv, LogInv, PendingInv, OwnedInv, BackedInv, SentKinds,
                    TxnsSettle, LogSettles, RowsOfAsked, SettledIn,
                    ProverSettles, [Next]_vars
             PROVE  ProverSettles'
  OBVIOUS
<1>1. CASE Proving
  <2>1. /\ ProverStep /\ (pvPc = "query" => CaughtUp)
        /\ UNCHANGED <<storage, processed, ixPc, archive>>
    BY <1>1
    DEF Proving, MayQuery, ProverStep, Send, SendFails, SetTransforming, dbVars,
        CommitPendingXforms, chainVars, indexerVars
  <2> QED
    BY <2>1, ProverSettlesSteps
<1>2. CASE UNCHANGED proverVars /\ UNCHANGED <<commitment, archive>>
  BY <1>2, ProverSettlesKept
<1>3. CASE \E t \in mempool : Include(t) /\ MayInclude(t) /\ UNCHANGED proverVars
  <2>1. PICK t \in mempool : Include(t) /\ MayInclude(t) /\ UNCHANGED proverVars
    BY <1>3
  <2>2. /\ commitment' = t.post /\ commitment = t.pre
        /\ pvPc' = pvPc /\ pvPending' = pvPending
    BY <2>1 DEF Include, proverVars
  <2>3. CASE t.origin = "user"
    <3>1. pvPc' = "query"
      BY <2>1, <2>2, <2>3 DEF MayInclude, ProverQuiet
    <3> QED
      BY <3>1 DEF ProverSettles
  <2>4. CASE t \in CommitTxns
    <3> SUFFICES ASSUME pvPc \in {"restoreStores", "send"}, pvPending = commitment'
                 PROVE  FALSE
      BY <2>2 DEF ProverSettles
    <3>1. Grows(t.pre, t.post) /\ t.post # t.pre /\ Tidy(t.pre) /\ Tidy(t.post)
      BY <2>4 DEF BackedInv, MapsGrow, TxnsSettle
    <3>2. t.pre \in Commitments /\ t.post \in Commitments
      BY DEF TypeInv, ChainInv, ChainTypeOK, Transactions
    <3>3. Grows(pvPending, commitment)
      BY ReachedBelow, GrowsFacts DEF BackedInv, ProverBacked
    <3>4. Grows(t.post, t.pre)
      BY <2>2, <3>3
    <3> QED
      BY <3>1, <3>2, <3>4, GrowsBack
  <2> QED
    BY <2>3, <2>4 DEF SentKinds, CommitTxns
<1>4. CASE Crash
  <2>1. CASE ProverCrash
    BY <2>1 DEF ProverCrash, Rest, ProverSettles
  <2>2. CASE UNCHANGED proverVars
    <3>1. UNCHANGED chainVars
      BY <1>4, Zenon DEF Crash
    <3> QED
      BY <1>2, <2>2, <3>1 DEF chainVars
  <2> QED
    BY <1>4, <2>1, <2>2 DEF Crash
<1>5. CASE Users
  BY <1>2, <1>5
  DEF Users, ClientStep, Prove, ProveFails, SendUser, chainVars
<1>6. CASE Network
  BY <1>2, <1>3, <1>6 DEF Network, IncludeTxn, Reject, Drop
<1>7. CASE Indexing \/ UNCHANGED vars
  BY <1>2, <1>7 DEF Indexing, vars, chainVars
<1> QED
  BY <1>1, <1>4, <1>5, <1>6, <1>7 DEF Next

-----------------------------------------------------------------------------
(***************************************************************************)
(* The rows.                                                               *)
(***************************************************************************)

\* Where storage is in the log after a step.
LEMMA ProcessedSteps ==
    ASSUME TypeInv, [Next]_vars
    PROVE  /\ \/ UNCHANGED processed /\ recorded <= recorded'
              \/ MarkProcessed /\ UNCHANGED chainVars
           /\ recorded' \in Nat
<1>1. recorded \in Nat /\ processed \in Nat /\ recorded <= Len(archive)
      /\ Len(archive) \in Nat
  BY LogPositions
<1>2. CASE UNCHANGED <<storage, recorded, processed, indexerVars>>
  BY <1>1, <1>2
<1>3. CASE /\ IndexerStep \/ IndexerCrash
           /\ UNCHANGED <<chainVars, clientVars, proverVars>>
  <2>1. CASE MarkProcessed
    BY <1>1, <1>3, <2>1 DEF MarkProcessed
  <2>2. CASE Fetch
    BY <1>1, <2>2 DEF Fetch
  <2>3. CASE ~MarkProcessed /\ ~Fetch
    <3>1. UNCHANGED <<processed, recorded>>
      BY <1>3, <2>3
      DEF IndexerStep, IndexerCrash, IndexerThrows, Restart, EndCycle,
          ProcessCreate, ProcessPending, SetData, ProcessCommit, UpdateStore,
          UpdateManager, ClearTransforming, dbVars
    <3> QED
      BY <1>1, <3>1
  <2> QED
    BY <2>1, <2>2, <2>3
<1> QED
  BY <1>2, <1>3, StepKinds

\* An event is done with: what it asks for has been processed.
LEMMA MarkFacts ==
    ASSUME TypeInv, MarkProcessed, UNCHANGED chainVars
    PROVE  /\ processed < recorded /\ processed' = processed + 1
           /\ UNCHANGED <<storage, recorded, archive>>
           /\ ixPc = "markProcessed" /\ ixPc' = "process"
           /\ processed \in Nat /\ processed + 1 \in 1 .. Len(archive)
           /\ archive[processed + 1] = Current
           /\ Reached' = After(Current)
<1>1. /\ processed < recorded /\ processed' = processed + 1
      /\ UNCHANGED <<storage, recorded, archive>>
      /\ ixPc = "markProcessed" /\ ixPc' = "process"
      /\ processed \in Nat /\ processed + 1 \in 1 .. Len(archive)
      /\ archive[processed + 1] = Current
  BY LogPositions
  DEF MarkProcessed, chainVars, TypeInv, IndexerInv, IndexerReady, Current
<1> QED
  BY <1>1 DEF Reached

\* A row that is new was requested by the event being processed.
LEMMA NewRows ==
    ASSUME TypeInv, WebInv, [Next]_vars, NEW k \in Level2,
           Exists(storage', k), ~Exists(storage, k)
    PROVE  /\ processed < recorded
           /\ Current.type = "storage:pending"
           /\ \/ k = Current.key /\ storage'[k].storageKey = Current.id
              \/ /\ IdentityRequest(Current)
                 /\ k = OpKey[Current.key]
                 /\ storage'[k].storageKey = Current.key
<1>1. k \in Keys /\ k # MANAGER
  BY KeysAssumption DEF Keys, Level2
<1>2. TableSteps
  <2>1. storage' # storage
    OBVIOUS
  <2> QED
    BY <2>1, StepKinds, IndexerTableSteps
<1>3. CASE ProcessPending
  BY <1>1, <1>3, ProcessPendingWrites DEF ProcessPending, SetsRow, Exists
<1>4. CASE SetData
  <2>1. IdentityRequest(Current)
    BY <1>4, SetDataWrites, CurrentWeb, RequestKinds
  <2> QED
    BY <1>1, <1>4, <2>1, SetDataWrites DEF SetsRow, Exists, IdentityRequest
<1>5. ~UNCHANGED storage /\ ~ProcessCreate
  BY <1>1, ProcessCreateWrites DEF Exists
<1>6. ~ProcessCommit
  BY <1>1, ProcessCommitWrites DEF SettlesRows
<1>7. ~ \E s \in Level2 : UpdateStore(s)
  BY <1>1, UpdateStoreWrites DEF RevaluesRow, Exists
<1>8. ~UpdateManager
  BY <1>1, UpdateManagerWrites DEF RevaluesRow, Exists
<1> QED
  BY <1>2, <1>3, <1>4, <1>5, <1>6, <1>7, <1>8 DEF TableSteps

\* Every step of the system.
LEMMA RowsOfAskedStep ==
    TypeInv /\ WebInv /\ RowsOfAsked /\ [Next]_vars => RowsOfAsked'
<1> SUFFICES ASSUME TypeInv, WebInv, RowsOfAsked, [Next]_vars, NEW i \in Ids
             PROVE  /\ Exists(storage', i) =>
                          \/ IdAsked(archive', i, processed')
                          \/ processed' < recorded' /\ AsksForId(Current', i)
                    /\ \A f \in Factors : RowIn(storage', i, f) =>
                          \/ FactorAsked(archive', i, f, processed')
                          \/ processed' < recorded' /\ AsksFor(Current', i, f)
  BY DEF RowsOfAsked
<1>1. /\ \A n \in 1 .. recorded : archive'[n] = archive[n]
      /\ processed \in Nat /\ recorded \in Nat /\ processed <= recorded
      /\ UNCHANGED processed /\ processed < recorded => Current' = Current
  BY LogKept
<1>2. /\ IdAsked(archive', i, processed) <=> IdAsked(archive, i, processed)
      /\ \A f : FactorAsked(archive', i, f, processed)
                   <=> FactorAsked(archive, i, f, processed)
  <2>1. \A n \in 1 .. processed : archive'[n] = archive[n]
    BY <1>1
  <2> QED
    BY <2>1, AskedKept
<1>3. /\ \/ IdAsked(archive, i, processed)
         \/ processed < recorded /\ AsksForId(Current, i)
         => \/ IdAsked(archive', i, processed')
            \/ processed' < recorded' /\ AsksForId(Current', i)
      /\ \A f \in Factors :
            \/ FactorAsked(archive, i, f, processed)
            \/ processed < recorded /\ AsksFor(Current, i, f)
            => \/ FactorAsked(archive', i, f, processed')
               \/ processed' < recorded' /\ AsksFor(Current', i, f)
  <2>1. CASE UNCHANGED processed /\ recorded <= recorded'
    BY <1>1, <1>2, <2>1, ProcessedSteps
  <2>2. CASE MarkProcessed /\ UNCHANGED chainVars
    <3>1. /\ processed' = processed + 1 /\ processed \in Nat
          /\ archive'[processed + 1] = Current
      BY <2>2, MarkFacts
    <3>2. /\ IdAsked(archive', i, processed + 1)
                <=> IdAsked(archive', i, processed) \/ AsksForId(Current, i)
          /\ \A f : FactorAsked(archive', i, f, processed + 1)
                <=> \/ FactorAsked(archive', i, f, processed)
                    \/ AsksFor(Current, i, f)
      BY <3>1, AskedMore
    <3> QED
      BY <1>2, <3>1, <3>2
  <2> QED
    BY <2>1, <2>2, ProcessedSteps
<1>4. ASSUME Exists(storage', i)
      PROVE  \/ IdAsked(archive, i, processed)
             \/ processed < recorded /\ AsksForId(Current, i)
  <2>1. CASE Exists(storage, i)
    BY <2>1 DEF RowsOfAsked
  <2>2. CASE ~Exists(storage, i)
    <3>1. /\ processed < recorded
          /\ Current.type = "storage:pending"
          /\ \/ i = Current.key
             \/ IdentityRequest(Current) /\ i = OpKey[Current.key]
      BY <1>4, <2>2, NewRows DEF Level2
    <3> QED
      BY <3>1, KeysAssumption DEF AsksForId, IdentityRequest
  <2> QED
    BY <2>1, <2>2
<1>5. ASSUME NEW f \in Factors, RowIn(storage', i, f)
      PROVE  \/ FactorAsked(archive, i, f, processed)
             \/ processed < recorded /\ AsksFor(Current, i, f)
  <2>1. CASE Exists(storage, f)
    <3>1. storage'[f].storageKey = storage[f].storageKey
      BY <2>1, RowsAlwaysStay DEF Keys, Level2
    <3> QED
      BY <1>5, <2>1, <3>1 DEF RowsOfAsked, RowIn
  <2>2. CASE ~Exists(storage, f)
    <3>1. /\ processed < recorded
          /\ Current.type = "storage:pending"
          /\ \/ f = Current.key /\ i = Current.id
             \/ f = OpKey[Current.key] /\ i = Current.key
      BY <1>5, <2>2, NewRows DEF Level2, RowIn
    <3> QED
      BY <3>1 DEF AsksFor
  <2> QED
    BY <2>1, <2>2
<1> QED
  BY <1>3, <1>4, <1>5

\* What is in the map reached, or in the one being committed, stays in one of
\* them.
LEMMA WithinKept ==
    ASSUME TypeInv, LogInv, MapsGrow, [Next]_vars, processed >= 1
    PROVE  /\ processed' >= 1
           /\ \A i \in Ids :
                 Reached[i] # EMPTY \/ (Committing /\ After(Current)[i] # EMPTY)
                    => \/ Reached'[i] # EMPTY
                       \/ Committing' /\ After(Current)'[i] # EMPTY
           /\ \A i \in Ids, f \in Factors :
                 Has(Reached, i, f) \/ (Committing /\ Has(After(Current), i, f))
                    => \/ Has(Reached', i, f)
                       \/ Committing' /\ Has(After(Current)', i, f)
<1>1. CASE UNCHANGED processed /\ recorded <= recorded'
  <2>1. /\ Reached' = Reached
        /\ processed \in Nat /\ recorded \in Nat /\ recorded' \in Nat
        /\ processed < recorded => Current' = Current
    BY <1>1, ReachedKept, LogKept, ProcessedSteps
  <2>2. Committing => Committing' /\ After(Current)' = After(Current)
    BY <1>1, <2>1 DEF Committing
  <2> QED
    BY <1>1, <2>1, <2>2
<1>2. CASE MarkProcessed /\ UNCHANGED chainVars
  <2>1. /\ processed < recorded /\ processed' = processed + 1
        /\ processed \in Nat /\ processed + 1 \in 1 .. Len(archive)
        /\ archive[processed + 1] = Current
        /\ Reached' = After(Current)
    BY <1>2, MarkFacts
  <2>2. Grows(Reached, Reached')
    <3>1. processed \in 1 .. Len(archive) /\ processed <= processed + 1
      BY <2>1, LogPositions
    <3>2. Grows(After(archive[processed]), After(archive[processed + 1]))
      BY <2>1, <3>1 DEF MapsGrow
    <3> QED
      BY <2>1, <3>2 DEF Reached
  <2>3. /\ \A i \in Ids : Reached[i] # EMPTY => Reached'[i] # EMPTY
        /\ \A i \in Ids, f \in Factors :
              Has(Reached, i, f) => Has(Reached', i, f)
    BY <2>2 DEF Grows, Has
  <2> QED
    BY <2>1, <2>3
<1> QED
  BY <1>1, <1>2, ProcessedSteps

\* The rows of identities and factors stay, and storage is where it was in the
\* log or has got on.
LEMMA SettledInFrame ==
    ASSUME TypeInv, LogInv, MapsGrow, [Next]_vars, SettledIn,
           \A k \in Level2 : storage'[k] = storage[k],
           Exists(storage', MANAGER) => ~storage'[MANAGER].isPending
    PROVE  SettledIn'
<1>1. \A k \in Level2 : /\ Exists(storage', k) <=> Exists(storage, k)
                        /\ Settled(storage', k) <=> Settled(storage, k)
  BY DEF Exists, Settled
<1>2. /\ \A i \in Ids : storage'[i] = storage[i]
      /\ \A f \in Factors : storage'[f] = storage[f]
      /\ \A i \in Ids, f \in Factors : RowIn(storage', i, f) <=> RowIn(storage, i, f)
  BY <1>1 DEF Level2, RowIn
<1>3. ASSUME NEW i \in Ids, Settled(storage', i)
      PROVE  /\ processed' >= 1
             /\ storage'[i].commitmentSettled[i] # EMPTY
             /\ \/ Reached'[i] # EMPTY
                \/ Committing' /\ After(Current)'[i] # EMPTY
             /\ \A f \in Factors :
                   RowIn(storage', i, f) /\ storage'[i].value[f] = PRESENT
                      => ~storage'[f].isPending
  <2>1. Settled(storage, i)
    BY <1>1, <1>3 DEF Level2
  <2>2. /\ processed >= 1
        /\ storage[i].commitmentSettled[i] # EMPTY
        /\ Reached[i] # EMPTY \/ (Committing /\ After(Current)[i] # EMPTY)
        /\ \A f \in Factors :
              RowIn(storage, i, f) /\ storage[i].value[f] = PRESENT
                 => ~storage[f].isPending
    BY <2>1 DEF SettledIn
  <2> QED
    BY <1>2, <2>2, WithinKept
<1>4. ASSUME NEW i \in Ids, NEW f \in Factors, RowIn(storage', i, f),
             ~storage'[f].isPending
      PROVE  /\ processed' >= 1
             /\ Has(storage'[f].commitmentSettled, i, f)
             /\ \/ Has(Reached', i, f)
                \/ Committing' /\ Has(After(Current)', i, f)
  <2>1. /\ processed >= 1
        /\ Has(storage[f].commitmentSettled, i, f)
        /\ Has(Reached, i, f) \/ (Committing /\ Has(After(Current), i, f))
    BY <1>2, <1>4 DEF SettledIn
  <2> QED
    BY <1>2, <2>1, WithinKept
<1> QED
  BY <1>3, <1>4 DEF SettledIn

\* A commit: what it settles was requested before it, so that it has it.
LEMMA SettledInCommit ==
    ASSUME TypeInv, LogInv, MapsGrow, PendingInv, LogSettles, RowsOfAsked,
           SettledIn, [Next]_vars, ProcessCommit, UNCHANGED chainVars
    PROVE  SettledIn'
<1> DEFINE cp == Current.commitmentPending
           cs == Current.commitmentSettled
<1>1. /\ processed < recorded /\ Current.type = "storage:commit"
      /\ UNCHANGED <<recorded, processed, archive>>
      /\ SettlesRows(cp, cs)
  BY ProcessCommitWrites DEF ProcessCommit, chainVars
<1>2. /\ processed >= 1 /\ cp = Reached /\ cs = After(Current)
      /\ processed + 1 \in 1 .. Len(archive) /\ processed \in Nat
      /\ archive[processed + 1] = Current
  BY <1>1, CurrentLinked, LogPositions, AfterFacts DEF Reached, Current
<1>3. Committing /\ Committing' /\ After(Current)' = After(Current)
  BY <1>1 DEF Committing, Current
<1> HIDE DEF cp, cs
<1>4. IsAllAsked(archive, cs, processed)
  BY <1>1, <1>2 DEF LogSettles
<1>5. ASSUME NEW i \in Ids
      PROVE  /\ Exists(storage, i) => cs[i] # EMPTY
             /\ \A f \in Factors : RowIn(storage, i, f) => Has(cs, i, f)
  BY <1>1, <1>4 DEF IsAllAsked, RowsOfAsked, AsksForId, AsksFor
<1>6. ASSUME NEW k \in Keys, Exists(storage', k)
      PROVE  /\ Exists(storage, k)
             /\ storage'[k].storageKey = storage[k].storageKey
             /\ storage[k].isPending => storage'[k].commitmentSettled = cs
             /\ ~storage[k].isPending => storage'[k] = storage[k]
             /\ ~storage'[k].isPending
  <2>1. storage[k].isPending => storage[k].commitmentPending = cp
    BY <1>1, <1>2, <1>6 DEF PendingInv, Pending, SettlesRows, Reached
  <2> QED
    BY <1>1, <1>6, <2>1 DEF SettlesRows
<1>7. ASSUME NEW i \in Ids, Settled(storage', i)
      PROVE  /\ storage'[i].commitmentSettled[i] # EMPTY
             /\ cs[i] # EMPTY
             /\ \A f \in Factors : RowIn(storage', i, f) => ~storage'[f].isPending
  <2>1. i \in Keys /\ Exists(storage', i) /\ Exists(storage, i)
    BY <1>6, <1>7 DEF Settled, Keys, Level2
  <2>2. CASE storage[i].isPending
    BY <1>5, <1>6, <2>1, <2>2 DEF RowIn, Keys, Level2
  <2>3. CASE ~storage[i].isPending
    <3>1. storage[i].commitmentSettled[i] # EMPTY
      BY <2>1, <2>3 DEF SettledIn, Settled
    <3> QED
      BY <1>5, <1>6, <2>1, <2>3, <3>1 DEF RowIn, Keys, Level2
  <2> QED
    BY <2>2, <2>3
<1>8. ASSUME NEW i \in Ids, NEW f \in Factors, RowIn(storage', i, f)
      PROVE  Has(storage'[f].commitmentSettled, i, f) /\ Has(cs, i, f)
  <2>1. f \in Keys /\ Exists(storage', f) /\ RowIn(storage, i, f)
    BY <1>6, <1>8 DEF RowIn, Keys, Level2
  <2>2. CASE storage[f].isPending
    BY <1>5, <1>6, <2>1, <2>2
  <2>3. CASE ~storage[f].isPending
    <3>1. Has(storage[f].commitmentSettled, i, f)
      BY <2>1, <2>3 DEF SettledIn
    <3> QED
      BY <1>5, <1>6, <2>1, <2>3, <3>1
  <2> QED
    BY <2>2, <2>3
<1>9. Exists(storage', MANAGER) => ~storage'[MANAGER].isPending
  BY <1>6 DEF Keys
<1> QED
  BY <1>1, <1>2, <1>3, <1>7, <1>8, <1>9 DEF SettledIn

\* A request for an identity: its row is pending.
LEMMA SettledInIdentity ==
    ASSUME TypeInv, LogInv, WebInv, MapsGrow, SettledIn, [Next]_vars,
           UNCHANGED chainVars, ProcessPending, IdentityRequest(Current)
    PROVE  SettledIn'
<1> DEFINE i == Current.key
<1>1. i \in Ids
  BY DEF IdentityRequest
<1>2. SetsRow(i, FirstKeyring(i), Current.commitmentPending, MANAGER)
  BY ProcessPendingWrites DEF IdentityRequest
<1> HIDE DEF i
<1>3. /\ \A k \in Level2 \ {i} : storage'[k] = storage[k]
      /\ \A f \in Factors : storage'[f] = storage[f]
      /\ storage'[i].isPending = TRUE
      /\ storage'[MANAGER] = storage[MANAGER]
  BY <1>1, <1>2, KeysAssumption DEF SetsRow, Keys, Level2
<1>4. \A j \in Ids, f \in Factors : RowIn(storage', j, f) <=> RowIn(storage, j, f)
  BY <1>3 DEF RowIn, Exists
<1>5. ASSUME NEW j \in Ids, Settled(storage', j)
      PROVE  /\ processed' >= 1
             /\ storage'[j].commitmentSettled[j] # EMPTY
             /\ \/ Reached'[j] # EMPTY
                \/ Committing' /\ After(Current)'[j] # EMPTY
             /\ \A f \in Factors :
                   RowIn(storage', j, f) /\ storage'[j].value[f] = PRESENT
                      => ~storage'[f].isPending
  <2>1. storage'[j] = storage[j] /\ Settled(storage, j)
    BY <1>3, <1>5 DEF Settled, Exists, Level2
  <2>2. /\ processed >= 1
        /\ storage[j].commitmentSettled[j] # EMPTY
        /\ Reached[j] # EMPTY \/ (Committing /\ After(Current)[j] # EMPTY)
        /\ \A f \in Factors :
              RowIn(storage, j, f) /\ storage[j].value[f] = PRESENT
                 => ~storage[f].isPending
    BY <2>1 DEF SettledIn
  <2> QED
    BY <1>3, <1>4, <2>1, <2>2, WithinKept
<1>6. ASSUME NEW j \in Ids, NEW f \in Factors, RowIn(storage', j, f),
             ~storage'[f].isPending
      PROVE  /\ processed' >= 1
             /\ Has(storage'[f].commitmentSettled, j, f)
             /\ \/ Has(Reached', j, f)
                \/ Committing' /\ Has(After(Current)', j, f)
  <2>1. /\ processed >= 1
        /\ Has(storage[f].commitmentSettled, j, f)
        /\ Has(Reached, j, f) \/ (Committing /\ Has(After(Current), j, f))
    BY <1>3, <1>4, <1>6 DEF SettledIn
  <2> QED
    BY <1>3, <2>1, WithinKept
<1>7. Exists(storage', MANAGER) => ~storage'[MANAGER].isPending
  BY <1>3 DEF SettledIn, Exists
<1> QED
  BY <1>5, <1>6, <1>7 DEF SettledIn

\* A factor's row is set, pending, in the store of its owner i, whose stored
\* keyring does not have it.
LEMMA SettledInFactorRow ==
    ASSUME OwnSecretsOnly, TypeInv, LogInv, RowsOwned, MapsGrow, RowsBacked,
           SettledIn, [Next]_vars,
           NEW i \in Ids, NEW f \in Factors, f \in Owned(i), NEW cp,
           SetsRow(f, PRESENT, cp, i), ~Has(Reached, i, f),
           Current.type = "storage:pending"
    PROVE  SettledIn'
<1>1. /\ \A j \in Ids : storage'[j] = storage[j]
      /\ \A g \in Factors \ {f} : storage'[g] = storage[g]
      /\ Exists(storage', f) /\ storage'[f].isPending
      /\ storage'[MANAGER] = storage[MANAGER]
  BY KeysAssumption DEF SetsRow, Keys, Level2
<1>2. storage'[f].storageKey = i
  BY KeysAssumption DEF SetsRow, RowsOwned, OwnSecretsOnly
<1>3. \A j \in Ids, g \in Factors \ {f} :
         RowIn(storage', j, g) <=> RowIn(storage, j, g)
  BY <1>1 DEF RowIn, Exists
<1>4. Settled(storage, i) => storage[i].value[f] # PRESENT
  <2> SUFFICES ASSUME Settled(storage, i), storage[i].value[f] = PRESENT
               PROVE  FALSE
    OBVIOUS
  <2>1. RowIn(storage, i, f)
    BY DEF RowsBacked, KeyringsBacked, Settled
  <2>2. ~storage[f].isPending
    BY <2>1 DEF SettledIn
  <2>3. Has(Reached, i, f)
    BY <2>1, <2>2 DEF SettledIn, Committing
  <2> QED
    BY <2>3
<1>5. ASSUME NEW j \in Ids, Settled(storage', j)
      PROVE  /\ processed' >= 1
             /\ storage'[j].commitmentSettled[j] # EMPTY
             /\ \/ Reached'[j] # EMPTY
                \/ Committing' /\ After(Current)'[j] # EMPTY
             /\ \A g \in Factors :
                   RowIn(storage', j, g) /\ storage'[j].value[g] = PRESENT
                      => ~storage'[g].isPending
  <2>1. storage'[j] = storage[j] /\ Settled(storage, j)
    BY <1>1, <1>5 DEF Settled, Exists
  <2>2. /\ processed >= 1
        /\ storage[j].commitmentSettled[j] # EMPTY
        /\ Reached[j] # EMPTY \/ (Committing /\ After(Current)[j] # EMPTY)
        /\ \A g \in Factors :
              RowIn(storage, j, g) /\ storage[j].value[g] = PRESENT
                 => ~storage[g].isPending
    BY <2>1 DEF SettledIn
  <2>3. ASSUME NEW g \in Factors, RowIn(storage', j, g),
               storage'[j].value[g] = PRESENT
        PROVE  ~storage'[g].isPending
    <3>1. CASE g = f
      BY <1>2, <1>4, <2>1, <2>3, <3>1 DEF RowIn
    <3>2. CASE g # f
      BY <1>1, <1>3, <2>1, <2>2, <2>3, <3>2
    <3> QED
      BY <3>1, <3>2
  <2> QED
    BY <2>1, <2>2, <2>3, WithinKept
<1>6. ASSUME NEW j \in Ids, NEW g \in Factors, RowIn(storage', j, g),
             ~storage'[g].isPending
      PROVE  /\ processed' >= 1
             /\ Has(storage'[g].commitmentSettled, j, g)
             /\ \/ Has(Reached', j, g)
                \/ Committing' /\ Has(After(Current)', j, g)
  <2>1. /\ processed >= 1
        /\ Has(storage[g].commitmentSettled, j, g)
        /\ Has(Reached, j, g) \/ (Committing /\ Has(After(Current), j, g))
        /\ storage'[g] = storage[g]
    BY <1>1, <1>3, <1>6 DEF SettledIn
  <2> QED
    BY <2>1, WithinKept
<1>7. Exists(storage', MANAGER) => ~storage'[MANAGER].isPending
  BY <1>1 DEF SettledIn, Exists
<1> QED
  BY <1>5, <1>6, <1>7 DEF SettledIn

\* A store's keyring is restored, where nothing is pending.
LEMMA SettledInStore ==
    ASSUME TypeInv, LogInv, RowsOwned, PendingInv, MapsGrow, SettledIn,
           [Next]_vars, NEW s \in Level2, UpdateStore(s)
    PROVE  SettledIn'
<1>1. /\ Exists(storage, s) /\ RevaluesRow(s, StoredKeyring(storage, s))
      /\ ixPc = "updateStores" /\ s \in Ids
  BY UpdateStoreWrites DEF UpdateStore, RowsOwned
<1>2. Pending(storage) = {}
  BY <1>1 DEF PendingInv
<1>3. /\ \A i \in Ids \ {s} : storage'[i] = storage[i]
      /\ \A f \in Factors : storage'[f] = storage[f]
      /\ Exists(storage', s)
      /\ storage'[s].isPending = storage[s].isPending
      /\ storage'[s].commitmentSettled = storage[s].commitmentSettled
      /\ storage'[MANAGER] = storage[MANAGER]
  BY <1>1, KeysAssumption DEF RevaluesRow, Keys, Level2
<1>4. \A i \in Ids, f \in Factors :
         /\ RowIn(storage', i, f) <=> RowIn(storage, i, f)
         /\ RowIn(storage', i, f) => ~storage'[f].isPending
  BY <1>2, <1>3 DEF RowIn, Exists, Pending, Keys, Level2
<1>5. ASSUME NEW i \in Ids, Settled(storage', i)
      PROVE  /\ processed' >= 1
             /\ storage'[i].commitmentSettled[i] # EMPTY
             /\ \/ Reached'[i] # EMPTY
                \/ Committing' /\ After(Current)'[i] # EMPTY
  <2>1. /\ Settled(storage, i)
        /\ storage'[i].commitmentSettled = storage[i].commitmentSettled
    BY <1>1, <1>3, <1>5 DEF Settled, Exists
  <2>2. /\ processed >= 1
        /\ storage[i].commitmentSettled[i] # EMPTY
        /\ Reached[i] # EMPTY \/ (Committing /\ After(Current)[i] # EMPTY)
    BY <2>1 DEF SettledIn
  <2> QED
    BY <2>1, <2>2, WithinKept
<1>6. ASSUME NEW i \in Ids, NEW f \in Factors, RowIn(storage', i, f),
             ~storage'[f].isPending
      PROVE  /\ processed' >= 1
             /\ Has(storage'[f].commitmentSettled, i, f)
             /\ \/ Has(Reached', i, f)
                \/ Committing' /\ Has(After(Current)', i, f)
  <2>1. /\ processed >= 1
        /\ Has(storage[f].commitmentSettled, i, f)
        /\ Has(Reached, i, f) \/ (Committing /\ Has(After(Current), i, f))
    BY <1>3, <1>4, <1>6 DEF SettledIn
  <2> QED
    BY <1>3, <2>1, WithinKept
<1>7. Exists(storage', MANAGER) => ~storage'[MANAGER].isPending
  BY <1>3 DEF SettledIn, Exists
<1> QED
  BY <1>4, <1>5, <1>6, <1>7 DEF SettledIn

\* What the deployment's event creates is the manager's row, as it was emitted.
LEMMA CreatedManager ==
    ASSUME TypeInv, ProcessCreate
    PROVE  /\ Current.type = "storage:create" /\ processed < recorded
           /\ storage'[MANAGER].value = After(Current)
           /\ ~storage'[MANAGER].isPending
           /\ \A k \in Keys \ {MANAGER} : storage'[k] = storage[k]
<1>1. /\ ChainInv /\ DbInv /\ IndexerInv /\ DOMAIN storage = Keys
      /\ processed < recorded /\ Current.type = "storage:create"
      /\ storage' = CreateRow(storage, Current.key, Current.value)
  BY DEF TypeInv, ProcessCreate, DbInv, DbTypeOK
<1>2. Current.key = MANAGER /\ MANAGER \in Keys
  BY <1>1, CurrentFacts, EventFacts DEF Keys
<1> DEFINE row == [value |-> Current.value, isPending |-> FALSE,
                   commitmentPending |-> NULL,
                   commitmentSettled |-> Current.value, storageKey |-> NULL]
<1>3. storage'[MANAGER] = row
  BY <1>1, <1>2 DEF CreateRow
<1>4. row.value = Current.value /\ row.isPending = FALSE
  OBVIOUS
<1> HIDE DEF row
<1> QED
  BY <1>1, <1>3, <1>4, ProcessCreateWrites, AfterFacts

\* Every step of the system.
LEMMA SettledInStep ==
    ASSUME OwnSecretsOnly
    PROVE  TypeInv /\ LogInv /\ PendingInv /\ OwnedInv /\ BackedInv /\ LogSettles
              /\ RowsOfAsked /\ SettledIn /\ [Next]_vars => SettledIn'
<1> SUFFICES ASSUME TypeInv, LogInv, PendingInv, OwnedInv, BackedInv, LogSettles,
                    RowsOfAsked, SettledIn, [Next]_vars
             PROVE  SettledIn'
  OBVIOUS
<1>1. WebInv /\ RowsOwned /\ MapsGrow /\ RowsBacked /\ MANAGER \notin Level2
  BY KeysAssumption DEF OwnedInv, BackedInv, Level2
<1>2. CASE UNCHANGED storage
  BY <1>1, <1>2, SettledInFrame DEF SettledIn
<1>3. CASE /\ IndexerStep \/ IndexerCrash
           /\ UNCHANGED <<chainVars, clientVars, proverVars>>
  <2>1. CASE ProcessCreate
    <3>1. \A k \in Level2 : storage'[k] = storage[k]
      BY <1>1, <2>1, CreatedManager DEF Keys
    <3> QED
      BY <1>1, <2>1, <3>1, CreatedManager, SettledInFrame
  <2>2. CASE ProcessPending
    <3>1. CASE IdentityRequest(Current)
      BY <1>1, <1>3, <2>2, <3>1, SettledInIdentity
    <3>2. CASE ~IdentityRequest(Current)
      <4> DEFINE i == Current.id
                 f == Current.key
      <4>1. processed < recorded /\ Current.type = "storage:pending"
        BY <2>2 DEF ProcessPending
      <4>2. /\ FactorRequest(Current) /\ f \in Factors
            /\ Reached[i][f] = EMPTY
        BY <1>1, <3>2, <4>1, RequestFacts
      <4>3. i \in Ids /\ f \in Owned(i) /\ ~Has(Reached, i, f)
        BY <4>2, FieldAssumption DEF FactorRequest, Owned, Has
      <4>4. SetsRow(f, PRESENT, Current.commitmentPending, i)
        BY <2>2, <4>2, ProcessPendingWrites DEF FactorRequest
      <4> HIDE DEF i, f
      <4> QED
        BY <1>1, <4>1, <4>2, <4>3, <4>4, SettledInFactorRow
    <3> QED
      BY <3>1, <3>2
  <2>3. CASE SetData
    <3> DEFINE i == Current.key
               f == OpKey[i]
    <3>1. processed < recorded /\ Current.type = "storage:pending"
      BY <2>3, SetDataWrites
    <3>2. IdentityRequest(Current)
      BY <1>1, <2>3, <3>1, SetDataWrites, CurrentWeb, RequestKinds
    <3>3. i \in Ids /\ f \in Factors /\ ~Has(Reached, i, f) /\ f \in Owned(i)
      BY <1>1, <3>1, <3>2, RequestFacts DEF Has, Owned
    <3>4. SetsRow(f, PRESENT, Current.commitmentPending, i)
      BY <2>3, <3>2, SetDataWrites DEF IdentityRequest
    <3> HIDE DEF i, f
    <3> QED
      BY <1>1, <3>1, <3>3, <3>4, SettledInFactorRow
  <2>4. CASE ProcessCommit
    BY <1>1, <1>3, <2>4, SettledInCommit
  <2>5. CASE \E s \in Level2 : UpdateStore(s)
    BY <1>1, <2>5, SettledInStore
  <2>6. CASE UpdateManager
    <3>1. /\ \A k \in Level2 : storage'[k] = storage[k]
          /\ storage'[MANAGER].isPending = storage[MANAGER].isPending
      BY <1>1, <2>6, UpdateManagerWrites DEF Keys, RevaluesRow
    <3>2. Exists(storage, MANAGER)
      <4>1. processed >= 1
        BY <2>6, UpdateManagerWrites, LogPositions
      <4> QED
        BY <4>1 DEF TypeInv, IndexerInv, IndexerReady
    <3> QED
      BY <1>1, <3>1, <3>2, SettledInFrame DEF SettledIn
  <2> QED
    BY <1>2, <1>3, <2>1, <2>2, <2>3, <2>4, <2>5, <2>6, IndexerTableSteps
    DEF TableSteps
<1> QED
  BY <1>2, <1>3, StepKinds

-----------------------------------------------------------------------------
(***************************************************************************)
(* The manager's row.                                                      *)
(***************************************************************************)

\* What is restored of the manager's map: the stored keyrings that are settled.
LEMMA StoredManagerFacts ==
    ASSUME TypeInv, RowsOwned
    PROVE  /\ \A f \in Factors : StoredManager(storage)[f] = EMPTY
           /\ \A i \in Ids :
                 /\ StoredManager(storage)[i] = IF Settled(storage, i)
                                                THEN storage[i].value ELSE EMPTY
                 /\ Settled(storage, i) => /\ storage[i].value \in Keyrings
                                           /\ storage[i].value # EMPTY
<1>1. ASSUME NEW f \in Factors
      PROVE  StoredManager(storage)[f] = EMPTY
  BY KeysAssumption DEF StoredManager, Settled, RowsOwned, Level2
<1>2. ASSUME NEW i \in Ids
      PROVE  /\ StoredManager(storage)[i] = IF Settled(storage, i)
                                            THEN storage[i].value ELSE EMPTY
             /\ Settled(storage, i) => /\ storage[i].value \in Keyrings
                                       /\ storage[i].value # EMPTY
  <2>1. i \in Keys /\ i \in Level2 /\ i # MANAGER
    BY KeysAssumption DEF Keys, Level2
  <2>2. Exists(storage, i) =>
           storage[i].storageKey = MANAGER /\ storage[i].value \in Keyrings
    BY <2>1, RowFacts DEF TypeInv, StoresOf, RowsOf, ValuesOf
  <2> QED
    BY <2>1, <2>2, FieldAssumption DEF StoredManager, Settled
<1> QED
  BY <1>1, <1>2

\* When a commit has updated its stores, the table has the map committed.
LEMMA CommittedManager ==
    ASSUME OwnSecretsOnly, TypeInv, OwnedInv, PendingInv, RowsBacked, LogSettles,
           RowsOfAsked, UpdateManager
    PROVE  StoredManager(storage) = After(Current)
<1> DEFINE c == StoredManager(storage)
           d == After(Current)
<1>1. /\ processed < recorded /\ Current.type = "storage:commit"
      /\ ixPc = "updateStores" /\ ixStores = {}
      /\ Pending(storage) = {} /\ RowsOwned
  BY UpdateManagerWrites DEF UpdateManager, PendingInv, OwnedInv
<1>2. /\ processed + 1 \in 1 .. Len(archive) /\ processed \in Nat
      /\ archive[processed + 1] = Current
      /\ Current \in Events
  BY <1>1, LogPositions, CurrentFacts DEF Current, TypeInv
<1>3. Tidy(d) /\ IsAllAsked(archive, d, processed)
  BY <1>1, <1>2 DEF LogSettles
<1>4. c \in Commitments /\ d \in Commitments
  BY <1>1, <1>2, RestoredMaps, AfterFacts, EventFacts DEF TypeInv, DbInv
<1> HIDE DEF c, d
<1>5. ASSUME NEW i \in Ids
      PROVE  /\ c[i] # EMPTY => PlainRing(c[i])
             /\ c[i] # EMPTY <=> Exists(storage, i)
             /\ \A f \in Factors : Has(c, i, f) <=> RowIn(storage, i, f)
  <2>1. /\ Settled(storage, i) <=> Exists(storage, i)
        /\ \A f \in Factors : RowIn(storage, i, f) => ~storage[f].isPending
    BY <1>1 DEF Settled, Pending, Keys, Level2, RowIn
  <2>2. /\ c[i] = IF Settled(storage, i) THEN storage[i].value ELSE EMPTY
        /\ Settled(storage, i) => storage[i].value # EMPTY
    BY <1>1, StoredManagerFacts DEF c
  <2>3. ASSUME NEW f \in Factors, RowIn(storage, i, f)
        PROVE  Exists(storage, i) /\ storage[i].value[f] = PRESENT
    <3>1. f \in Keys /\ i \in Level2
      BY DEF Keys, Level2
    <3>2. Exists(storage, i)
      BY <2>3, <3>1, RowFacts DEF RowIn, TypeInv
    <3> QED
      BY <1>1, <2>1, <2>3, <3>2 DEF RowsBacked, RowsStored
  <2>4. Exists(storage, i) =>
           /\ PlainRing(storage[i].value)
           /\ \A f \in Factors :
                 storage[i].value[f] = PRESENT => RowIn(storage, i, f)
    BY <1>1 DEF RowsBacked, KeyringsBacked
  <2> QED
    BY <2>1, <2>2, <2>3, <2>4 DEF Has
<1>6. ASSUME NEW i \in Ids
      PROVE  /\ Exists(storage, i) <=> IdAsked(archive, i, processed)
             /\ \A f \in Factors :
                   RowIn(storage, i, f) <=> FactorAsked(archive, i, f, processed)
  BY <1>1, AskedRows DEF RowsOfAsked, AsksForId, AsksFor
<1>7. Tidy(c)
  BY <1>1, <1>5, StoredManagerFacts DEF Tidy, Plain, c
<1>8. \A i \in Ids : /\ c[i] # EMPTY <=> d[i] # EMPTY
                     /\ \A f \in Factors : Has(c, i, f) <=> Has(d, i, f)
  BY <1>3, <1>5, <1>6 DEF IsAllAsked
<1>9. c = d
  BY <1>3, <1>4, <1>7, <1>8, SameMaps
<1> QED
  BY <1>9 DEF c, d

\* Steps that leave the manager's value, and storage where it is in the log.
LEMMA ManagerFrame ==
    ASSUME TypeInv, ManagerStored, [Next]_vars, UNCHANGED processed,
           Exists(storage', MANAGER) => Exists(storage, MANAGER),
           storage'[MANAGER].value = storage[MANAGER].value,
           ixPc' \in {"clearTransforming", "markProcessed"} =>
              \/ ixPc \in {"clearTransforming", "markProcessed"}
              \/ processed < recorded /\ Current.type = "storage:pending"
    PROVE  ManagerStored'
<1>1. /\ processed < recorded => processed < recorded' /\ Current' = Current
      /\ processed >= 1 => Reached' = Reached
  BY LogKept, ProcessedSteps, ReachedKept DEF MarkProcessed, TypeInv, IndexerInv
<1>2. ixPc \in {"clearTransforming", "markProcessed"} => processed < recorded
  BY DEF TypeInv, IndexerInv, IndexerReady
<1> QED
  BY <1>1, <1>2 DEF ManagerStored

\* Every step of the system.
LEMMA ManagerStoredStep ==
    ASSUME OwnSecretsOnly
    PROVE  TypeInv /\ LogInv /\ PendingInv /\ OwnedInv /\ BackedInv /\ LogSettles
              /\ RowsOfAsked /\ ManagerStored /\ [Next]_vars => ManagerStored'
<1> SUFFICES ASSUME TypeInv, LogInv, PendingInv, OwnedInv, BackedInv, LogSettles,
                    RowsOfAsked, ManagerStored, [Next]_vars
             PROVE  ManagerStored'
  OBVIOUS
<1>1. /\ MANAGER \in Keys /\ MANAGER \notin Level2 /\ RowsBacked
      /\ RowsOwned /\ WebInv
  BY KeysAssumption DEF Keys, Level2, BackedInv, OwnedInv
<1>2. CASE UNCHANGED <<storage, recorded, processed, indexerVars>>
  BY <1>2, ManagerFrame DEF indexerVars
<1>3. CASE /\ IndexerStep \/ IndexerCrash
           /\ UNCHANGED <<chainVars, clientVars, proverVars>>
  <2>1. CASE Fetch \/ EndCycle \/ IndexerThrows \/ IndexerCrash
    BY <2>1, ManagerFrame
    DEF Fetch, EndCycle, IndexerThrows, IndexerCrash, Restart, dbVars
  <2>2. CASE ProcessCreate
    <3>1. /\ Current.type = "storage:create" /\ processed < recorded
          /\ storage'[MANAGER].value = After(Current)
          /\ UNCHANGED <<processed, recorded>>
      BY <2>2, CreatedManager DEF ProcessCreate
    <3>2. Current' = Current
      BY <3>1, LogKept
    <3> QED
      BY <3>1, <3>2 DEF ManagerStored
  <2>3. CASE ProcessPending
    <3>1. \A k \in Keys \ {Current.key} : storage'[k] = storage[k]
      BY <2>3, ProcessPendingWrites DEF SetsRow
    <3>2. Current.key # MANAGER
      <4>1. processed < recorded /\ Current.type = "storage:pending"
        BY <2>3 DEF ProcessPending
      <4> QED
        BY <1>1, <4>1, RequestFacts, KeysAssumption DEF IdentityRequest
    <3>3. storage'[MANAGER] = storage[MANAGER]
      BY <1>1, <3>1, <3>2
    <3> QED
      BY <2>3, <3>3, ManagerFrame DEF ProcessPending, Exists
  <2>4. CASE SetData
    <3>1. /\ \A k \in Keys \ {Current.meta[2]} : storage'[k] = storage[k]
          /\ processed < recorded /\ Current.type = "storage:pending"
      BY <2>4, SetDataWrites DEF SetsRow
    <3>2. Current.meta[2] # MANAGER
      <4>1. IdentityRequest(Current)
        BY <1>1, <2>4, <3>1, SetDataWrites, CurrentWeb, RequestKinds
      <4> QED
        BY <4>1, KeysAssumption DEF IdentityRequest
    <3>3. storage'[MANAGER] = storage[MANAGER]
      BY <1>1, <3>1, <3>2
    <3> QED
      BY <2>4, <3>1, <3>3, ManagerFrame DEF SetData, Exists
  <2>5. CASE ProcessCommit
    <3>1. SettlesRows(Current.commitmentPending, Current.commitmentSettled)
      BY <2>5, ProcessCommitWrites
    <3>2. Exists(storage, MANAGER)
      <4>1. processed >= 1
        BY <2>5, CurrentLinked DEF ProcessCommit
      <4> QED
        BY <4>1 DEF TypeInv, IndexerInv, IndexerReady
    <3>3. storage'[MANAGER].value = storage[MANAGER].value
      BY <1>1, <3>1, <3>2 DEF SettlesRows
    <3> QED
      BY <2>5, <3>2, <3>3, ManagerFrame DEF ProcessCommit
  <2>6. CASE \E s \in Level2 : UpdateStore(s)
    <3>1. storage'[MANAGER] = storage[MANAGER]
      BY <1>1, <2>6, UpdateStoreWrites DEF RevaluesRow
    <3> QED
      BY <2>6, <3>1, ManagerFrame DEF UpdateStore, Exists
  <2>7. CASE UpdateManager
    <3>1. /\ Current.type = "storage:commit" /\ processed < recorded
          /\ storage'[MANAGER].value = After(Current)
          /\ UNCHANGED <<processed, recorded>>
      BY <1>1, <2>7, UpdateManagerWrites, CommittedManager
      DEF UpdateManager, RevaluesRow
    <3>2. Current' = Current
      BY <3>1, LogKept
    <3> QED
      BY <3>1, <3>2 DEF ManagerStored
  <2>8. CASE ClearTransforming
    BY <2>8, ManagerFrame DEF ClearTransforming
  <2>9. CASE MarkProcessed
    <3>1. /\ processed < recorded /\ processed' = processed + 1
          /\ UNCHANGED storage /\ processed \in Nat
          /\ ixPc = "markProcessed" /\ ixPc' = "process"
          /\ Reached' = After(Current)
      BY <1>3, <2>9, MarkFacts
    <3>2. CASE Current.type # "storage:pending"
      BY <3>1, <3>2 DEF ManagerStored
    <3>3. CASE Current.type = "storage:pending"
      <4>1. After(Current) = Reached
        BY <3>1, <3>3, CurrentLinked, AfterFacts DEF Reached
      <4> QED
        BY <3>1, <3>3, <4>1 DEF ManagerStored
    <3> QED
      BY <3>2, <3>3
  <2> QED
    BY <1>3, <2>1, <2>2, <2>3, <2>4, <2>5, <2>6, <2>7, <2>8, <2>9 DEF IndexerStep
<1> QED
  BY <1>2, <1>3, StepKinds

-----------------------------------------------------------------------------
(***************************************************************************)
(* The invariant.                                                          *)
(***************************************************************************)
SettleInv ==
    /\ SentKinds /\ LogSettles /\ TxnsSettle
    /\ RowsOfAsked /\ SettledIn /\ ManagerStored
    /\ ProverSettles

LEMMA SettleInvInit == Init => SettleInv
<1> SUFFICES ASSUME Init PROVE SettleInv
  OBVIOUS
<1> DEFINE e == EventStorageCreate(MANAGER, NoIdentities)
<1>1. After(e) = NoIdentities /\ e.type = "storage:create"
  BY AfterFacts DEF EventStorageCreate
<1>2. archive = <<e>> /\ mempool = {} /\ commitment = NoIdentities
  BY DEF Init, ChainInit
<1> HIDE DEF e
<1>3. \A k \in Keys : ~Exists(storage, k)
  BY DEF Init, DbInit, Exists
<1>4. LogSettles
  <2>1. Tidy(NoIdentities)
    BY DEF Tidy, Plain, NoIdentities, Level2
  <2>2. IsAllAsked(archive, NoIdentities, 0)
    BY DEF IsAllAsked, IdAsked, FactorAsked, NoIdentities, Level2, Has
  <2>3. Len(archive) = 1 /\ archive[1] = e
    BY <1>2
  <2> QED
    BY <1>1, <1>2, <2>1, <2>2, <2>3 DEF LogSettles
<1>5. SentKinds /\ TxnsSettle
  BY <1>2 DEF SentKinds, TxnsSettle, CommitTxns
<1>6. RowsOfAsked /\ SettledIn /\ ManagerStored
  BY <1>3
  DEF RowsOfAsked, SettledIn, ManagerStored, Settled, RowIn, Keys, Level2, Init,
      IndexerInit
<1>7. ProverSettles
  BY DEF Init, ProverInit, ProverSettles
<1> QED
  BY <1>4, <1>5, <1>6, <1>7 DEF SettleInv

LEMMA SettleInvariant ==
    ASSUME Serialized = TRUE, OwnSecretsOnly, WebMethodsOnly
    PROVE  Spec => []SettleInv
<1>1. TypeInv /\ LogInv /\ PendingInv /\ OwnedInv /\ BackedInv /\ SettleInv
         /\ [Next]_vars => SettleInv'
  BY SentKindsStep, LogSettlesStep, TxnsSettleStep, RowsOfAskedStep,
     SettledInStep, ManagerStoredStep, ProverSettlesStep
  DEF SettleInv, BackedInv, OwnedInv
<1> QED
  BY <1>1, TypeInvariant, LogInvariant, PendingInvariant, OwnedInvariant,
     BackedInvariant, SettleInvInit, PTL
  DEF Spec

-----------------------------------------------------------------------------
(***************************************************************************)
(* What the invariant is for.                                              *)
(***************************************************************************)

\* Where storage has caught up, what is committed is what is settled.
LEMMA InSync ==
    ASSUME TypeInv, LogInv, OwnedInv, BackedInv, SettleInv, CaughtUp,
           NEW i \in Ids
    PROVE  /\ commitment[i] # EMPTY <=> Settled(storage, i)
           /\ Settled(storage, i) =>
                 /\ PlainRing(storage[i].value) /\ PlainRing(commitment[i])
                 /\ \A f \in Factors :
                       /\ commitment[i][f] = PRESENT
                             <=> storage[i].value[f] = PRESENT
                       /\ commitment[i][f] = PRESENT
                             <=> RowIn(storage, i, f) /\ ~storage[f].isPending
<1>1. /\ processed >= 1 /\ ~(processed < recorded) /\ Reached = commitment
      /\ RowsBacked /\ SettledIn /\ Plain(commitment)
      /\ Covers(storage, commitment)
  BY CaughtUpFacts, LogPositions DEF BackedInv, SettleInv, MapsGrow
<1>2. commitment[i] # EMPTY => Settled(storage, i)
  <2> SUFFICES ASSUME commitment[i] # EMPTY
               PROVE  Settled(storage, i)
    OBVIOUS
  <2>1. Exists(storage, i)
    BY <1>1 DEF Covers
  <2> QED
    BY <1>1, <2>1 DEF RowsBacked, CommittedStored, Settled
<1>3. ASSUME Settled(storage, i)
      PROVE  /\ commitment[i] # EMPTY
             /\ Exists(storage, i) /\ ~storage[i].isPending
             /\ \A f \in Factors :
                   RowIn(storage, i, f) /\ storage[i].value[f] = PRESENT
                      => ~storage[f].isPending
  BY <1>1, <1>3 DEF SettledIn, Committing, Settled
<1>4. ASSUME Settled(storage, i), NEW f \in Factors
      PROVE  /\ commitment[i][f] = PRESENT => storage[i].value[f] = PRESENT
             /\ storage[i].value[f] = PRESENT
                   => RowIn(storage, i, f) /\ ~storage[f].isPending
             /\ RowIn(storage, i, f) /\ ~storage[f].isPending
                   => commitment[i][f] = PRESENT
  <2>1. commitment[i][f] = PRESENT => storage[i].value[f] = PRESENT
    BY <1>1, <1>3, <1>4 DEF RowsBacked, CommittedStored, Has
  <2>2. storage[i].value[f] = PRESENT
           => RowIn(storage, i, f) /\ ~storage[f].isPending
    BY <1>1, <1>3, <1>4 DEF RowsBacked, KeyringsBacked
  <2>3. RowIn(storage, i, f) /\ ~storage[f].isPending
           => commitment[i][f] = PRESENT
    BY <1>1 DEF SettledIn, Committing, Has
  <2> QED
    BY <2>1, <2>2, <2>3
<1>5. Settled(storage, i) => PlainRing(storage[i].value) /\ PlainRing(commitment[i])
  BY <1>1, <1>3 DEF RowsBacked, KeyringsBacked, Plain
<1> QED
  BY <1>2, <1>3, <1>4, <1>5

\* Storage that has replayed the whole log holds the committed map, in the
\* manager's row as in the rows that the map and the keyrings are restored
\* from: the witnesses an app makes of them are those the zkApp accepts.
THEOREM StorageAlwaysInSync ==
    ASSUME Serialized = TRUE, OwnSecretsOnly, WebMethodsOnly
    PROVE  Spec => []StorageInSync
<1>1. TypeInv /\ LogInv /\ OwnedInv /\ BackedInv /\ SettleInv => StorageInSync
  <2> SUFFICES ASSUME TypeInv, LogInv, OwnedInv, BackedInv, SettleInv, CaughtUp,
                      Exists(storage, MANAGER)
               PROVE  /\ StoredManager(storage) = commitment
                      /\ storage[MANAGER].value = commitment
                      /\ \A i \in Ids : Settled(storage, i) =>
                            StoredKeyring(storage, i) = commitment[i]
    BY DEF StorageInSync
  <2>1. /\ processed >= 1 /\ ~(processed < recorded) /\ Reached = commitment
        /\ Tidy(commitment) /\ commitment \in Commitments /\ RowsOwned
    BY CaughtUpFacts, CommitmentTidy, LogPositions DEF SettleInv, OwnedInv
  <2>2. storage[MANAGER].value = commitment
    BY <2>1 DEF SettleInv, ManagerStored
  <2> DEFINE c == StoredManager(storage)
  <2>3. c \in Commitments
    BY RestoredMaps DEF TypeInv, DbInv
  <2>4. /\ \A f \in Factors : c[f] = EMPTY
        /\ \A i \in Ids :
              /\ c[i] = IF Settled(storage, i) THEN storage[i].value ELSE EMPTY
              /\ Settled(storage, i) => storage[i].value # EMPTY
    BY <2>1, StoredManagerFacts
  <2> HIDE DEF c
  <2>5. ASSUME NEW i \in Ids
        PROVE  /\ c[i] # EMPTY => PlainRing(c[i])
               /\ c[i] # EMPTY <=> commitment[i] # EMPTY
               /\ \A f \in Factors : Has(c, i, f) <=> Has(commitment, i, f)
    BY <2>4, InSync DEF Has
  <2>6. Tidy(c)
    BY <2>4, <2>5 DEF Tidy, Plain
  <2>7. c = commitment
    BY <2>1, <2>3, <2>5, <2>6, SameMaps
  <2>8. ASSUME NEW i \in Ids, Settled(storage, i)
        PROVE  StoredKeyring(storage, i) = commitment[i]
    <3>1. /\ commitment[i] # EMPTY /\ PlainRing(commitment[i])
          /\ \A f \in Factors :
                commitment[i][f] = PRESENT
                   <=> RowIn(storage, i, f) /\ ~storage[f].isPending
      BY <2>8, InSync
    <3>2. commitment[i] \in Keyrings
      BY <2>1, <3>1 DEF Commitments, Level2
    <3>3. ASSUME NEW f \in Factors
          PROVE  StoredKeyring(storage, i)[f] = commitment[i][f]
      <4>1. StoredKeyring(storage, i)[f]
               = IF RowIn(storage, i, f) /\ ~storage[f].isPending
                 THEN PRESENT ELSE EMPTY
        BY <2>1 DEF StoredKeyring, Settled, RowIn, RowsOwned
      <4> QED
        BY <3>1, <4>1 DEF PlainRing
    <3> QED
      BY <3>2, <3>3 DEF StoredKeyring, Keyrings
  <2> QED
    BY <2>2, <2>7, <2>8 DEF c
<1> QED
  BY <1>1, TypeInvariant, LogInvariant, OwnedInvariant, BackedInvariant,
     SettleInvariant, PTL

\* A row that is settled, of an identity or of a factor, is in the commitment
\* it is said to have settled within, with the value it has.
THEOREM AlwaysSettledWithin ==
    ASSUME Serialized = TRUE, OwnSecretsOnly, WebMethodsOnly
    PROVE  Spec => []SettledWithin
<1>1. OwnedInv /\ SettleInv => SettledWithin
  <2> SUFFICES ASSUME OwnedInv, SettleInv, NEW k \in Keys, Settled(storage, k)
      PROVE  /\ k \in Ids => storage[k].commitmentSettled[k] # EMPTY
             /\ k \in Factors =>
                   Settling!Leaf(storage[k].commitmentSettled,
                                 storage[k].storageKey, k) = storage[k].value
    BY DEF SettledWithin
  <2>1. CASE k \in Ids
    BY <2>1, KeysAssumption DEF SettleInv, SettledIn
  <2>2. CASE k \in Factors
    <3> DEFINE i == storage[k].storageKey
    <3>1. i \in Ids /\ storage[k].value = PRESENT /\ RowIn(storage, i, k)
      BY <2>2 DEF OwnedInv, RowsOwned, Settled, RowIn
    <3>2. Has(storage[k].commitmentSettled, i, k)
      BY <2>2, <3>1 DEF SettleInv, SettledIn, Settled
    <3> QED
      BY <2>2, <3>1, <3>2, KeysAssumption DEF Has, Settling!Leaf
  <2> QED
    BY <2>1, <2>2
<1> QED
  BY <1>1, OwnedInvariant, SettleInvariant, PTL

-----------------------------------------------------------------------------
(***************************************************************************)
(* The refinement of the abstract settlement.                              *)
(***************************************************************************)

\* Event l of the log es is the last that is no request.
LastClosed(es, l) ==
    /\ l \in 1 .. Len(es)
    /\ es[l].type # "storage:pending"
    /\ \A m \in l + 1 .. Len(es) : es[m].type = "storage:pending"

\* The requests in the log es since then.
OpenIn(es) ==
    LET closed == {n \in 1 .. Len(es) : es[n].type # "storage:pending"}
        last   == CHOOSE n \in closed : \A m \in closed : m <= n
    IN SubSeq(es, last + 1, Len(es))

LEMMA OpenPart ==
    ASSUME NEW es \in Seq(Events), NEW l, LastClosed(es, l)
    PROVE  /\ l \in Nat /\ Len(es) \in Nat
           /\ OpenIn(es) \in Seq(Events)
           /\ Len(OpenIn(es)) = Len(es) - l
           /\ \A n \in 1 .. Len(es) - l : OpenIn(es)[n] = es[l + n]
<1> DEFINE closed == {n \in 1 .. Len(es) : es[n].type # "storage:pending"}
           rest == SubSeq(es, l + 1, Len(es))
<1>1. /\ l \in 1 .. Len(es) /\ Len(es) \in Nat
      /\ l + 1 \in Int /\ Len(es) \in Int /\ l <= Len(es)
  BY DEF LastClosed
<1>2. l \in closed /\ \A m \in closed : m <= l
  BY <1>1 DEF LastClosed
<1>3. \A n \in closed : (\A m \in closed : m <= n) => n = l
  BY <1>1, <1>2
<1>4. (CHOOSE n \in closed : \A m \in closed : m <= n) = l
  <2> HIDE DEF closed
  <2> QED
    BY <1>2, <1>3
<1>5. OpenIn(es) = rest
  BY <1>4 DEF OpenIn
<1>6. \A n \in l + 1 .. Len(es) : es[n] \in Events
  BY <1>1, ElementOfSeq
<1>7. /\ rest \in Seq(Events)
      /\ Len(rest) = IF l + 1 <= Len(es) THEN Len(es) - (l + 1) + 1 ELSE 0
      /\ \A n \in 1 .. Len(es) - (l + 1) + 1 : rest[n] = es[l + 1 + n - 1]
  <2> HIDE DEF rest
  <2> QED
    BY <1>1, <1>6, SubSeqProperties DEF rest
<1> HIDE DEF rest, closed
<1>8. Len(rest) = Len(es) - l
  BY <1>1, <1>7
<1>9. ASSUME NEW n \in 1 .. Len(es) - l
      PROVE  rest[n] = es[l + n]
  <2>1. n \in 1 .. Len(es) - (l + 1) + 1 /\ l + 1 + n - 1 = l + n
    BY <1>1
  <2> QED
    BY <1>7, <2>1
<1> QED
  BY <1>1, <1>5, <1>7, <1>8, <1>9

\* A request more in the log is one more that is open.
LEMMA OpenMore ==
    ASSUME NEW es \in Seq(Events), NEW fs \in Seq(Events), NEW l,
           LastClosed(es, l), Len(fs) = Len(es) + 1,
           \A n \in 1 .. Len(es) : fs[n] = es[n],
           fs[Len(es) + 1].type = "storage:pending"
    PROVE  /\ Len(OpenIn(fs)) = Len(OpenIn(es)) + 1
           /\ SubSeq(OpenIn(fs), 1, Len(OpenIn(es))) = OpenIn(es)
           /\ \A m \in Len(OpenIn(es)) + 1 .. Len(OpenIn(es)) + 1 :
                 OpenIn(fs)[m] = fs[Len(es) + 1]
<1> DEFINE rs == OpenIn(es)
           qs == OpenIn(fs)
           k  == Len(es) - l
<1>1. Len(es) \in Nat /\ l \in 1 .. Len(es) /\ l \in Nat /\ k \in Nat
  BY DEF LastClosed
<1>2. LastClosed(fs, l)
  <2>1. l \in 1 .. Len(fs) /\ fs[l].type # "storage:pending"
    BY <1>1 DEF LastClosed
  <2>2. ASSUME NEW m \in l + 1 .. Len(fs)
        PROVE  fs[m].type = "storage:pending"
    <3>1. m = Len(es) + 1 \/ (m \in 1 .. Len(es) /\ m \in l + 1 .. Len(es))
      BY <1>1
    <3> QED
      BY <3>1 DEF LastClosed
  <2> QED
    BY <2>1, <2>2 DEF LastClosed
<1>3. /\ rs \in Seq(Events) /\ Len(rs) = k
      /\ \A n \in 1 .. k : rs[n] = es[l + n]
  BY OpenPart
<1>4. /\ qs \in Seq(Events) /\ Len(qs) = Len(fs) - l
      /\ \A n \in 1 .. Len(fs) - l : qs[n] = fs[l + n]
  BY <1>2, OpenPart
<1>5. Len(fs) - l = k + 1 /\ l + (k + 1) = Len(es) + 1
  BY <1>1
<1>6. \A n \in 1 .. k : n \in 1 .. k + 1 /\ l + n \in 1 .. Len(es)
  BY <1>1
<1>7. k + 1 \in 1 .. k + 1
  BY <1>1
<1> HIDE DEF rs, qs, k
<1>8. /\ Len(qs) = k + 1
      /\ \A n \in 1 .. k : qs[n] = rs[n]
      /\ qs[k + 1] = fs[Len(es) + 1]
  BY <1>3, <1>4, <1>5, <1>6, <1>7
<1>9. SubSeq(qs, 1, k) = rs
  <2> DEFINE first == SubSeq(qs, 1, k)
  <2>1. \A n \in 1 .. k : qs[n] \in Events
    BY <1>3, <1>8, ElementOfSeq
  <2>2. /\ first \in Seq(Events)
        /\ Len(first) = IF 1 <= k THEN k - 1 + 1 ELSE 0
        /\ \A n \in 1 .. k - 1 + 1 : first[n] = qs[1 + n - 1]
    BY <1>1, <2>1, SubSeqProperties
  <2> HIDE DEF first
  <2>3. Len(first) = k
    BY <1>1, <2>2
  <2>4. \A n \in 1 .. k : first[n] = rs[n]
    <3>1. \A n \in 1 .. k : n \in 1 .. k - 1 + 1 /\ 1 + n - 1 = n
      BY <1>1
    <3> QED
      BY <1>8, <2>2, <3>1
  <2>5. first = rs
    BY <1>3, <2>2, <2>3, <2>4, SeqEqual
  <2> QED
    BY <2>5 DEF first
<1>10. \A m \in k + 1 .. k + 1 : m = k + 1
  BY <1>1
<1> QED
  BY <1>3, <1>8, <1>9, <1>10 DEF rs, qs

\* What is requested in the whole log was requested before its last closed
\* event, or is open.
LEMMA AskedOpen ==
    ASSUME NEW es \in Seq(Events), NEW l, LastClosed(es, l), NEW i
    PROVE  /\ IdAsked(es, i, Len(es))
                <=> \/ IdAsked(es, i, l - 1)
                    \/ \E n \in 1 .. Len(OpenIn(es)) : OpenIn(es)[n].key = i
           /\ \A f : FactorAsked(es, i, f, Len(es))
                <=> \/ FactorAsked(es, i, f, l - 1)
                    \/ \E n \in 1 .. Len(OpenIn(es)) : AsksFor(OpenIn(es)[n], i, f)
<1> DEFINE rs == OpenIn(es)
           k  == Len(es) - l
<1>1. /\ l \in 1 .. Len(es) /\ Len(es) \in Nat
      /\ es[l].type # "storage:pending"
      /\ \A m \in l + 1 .. Len(es) : es[m].type = "storage:pending"
  BY DEF LastClosed
<1>2. Len(rs) = k /\ \A n \in 1 .. k : rs[n] = es[l + n]
  BY OpenPart
<1>3. /\ \A n \in 1 .. k : l + n \in 1 .. Len(es) /\ l + n \in l + 1 .. Len(es)
      /\ \A m \in 1 .. l - 1 : m \in 1 .. Len(es)
      /\ \A m \in 1 .. Len(es) : \/ m \in 1 .. l - 1
                                 \/ m = l
                                 \/ m - l \in 1 .. k /\ l + (m - l) = m
  BY <1>1
<1> HIDE DEF rs, k
<1>4. IdAsked(es, i, Len(es))
         <=> IdAsked(es, i, l - 1) \/ \E n \in 1 .. k : rs[n].key = i
  <2>1. ~AsksForId(es[l], i)
    BY <1>1 DEF AsksForId
  <2>2. \A n \in 1 .. k : rs[n].key = i <=> AsksForId(es[l + n], i)
    BY <1>1, <1>2, <1>3 DEF AsksForId
  <2> QED
    BY <1>3, <2>1, <2>2 DEF IdAsked
<1>5. ASSUME NEW f
      PROVE  FactorAsked(es, i, f, Len(es))
                <=> \/ FactorAsked(es, i, f, l - 1)
                    \/ \E n \in 1 .. k : AsksFor(rs[n], i, f)
  <2>1. ~AsksFor(es[l], i, f)
    BY <1>1 DEF AsksFor
  <2> QED
    BY <1>2, <1>3, <2>1 DEF FactorAsked
<1> QED
  BY <1>2, <1>4, <1>5 DEF rs

\* Of the positions of some events among those that are open, one is the last.
LEMMA OpenHasLast ==
    ASSUME TypeInv, LogHasLast, NEW l, LastClosed(archive, l),
           NEW S \in SUBSET (1 .. Len(OpenIn(archive))), S # {}
    PROVE  \E n \in S : \A m \in S : m <= n
<1> DEFINE T == {l + n : n \in S}
<1>1. /\ l \in Nat /\ Len(archive) \in Nat /\ archive \in Seq(Events)
      /\ S \in SUBSET (1 .. Len(archive) - l)
  BY LogPositions, OpenPart
<1>2. T \in SUBSET (1 .. Len(archive)) /\ T # {}
  BY <1>1
<1>3. PICK p \in T : \A q \in T : q <= p
  <2> HIDE DEF T
  <2> QED
    BY <1>2 DEF LogHasLast
<1>4. PICK n \in S : p = l + n
  BY <1>3
<1>5. \A m \in S : l + m <= l + n
  BY <1>3, <1>4
<1> QED
  BY <1>1, <1>4, <1>5

\* What a map settles of an identity's factor: what the last open request for
\* it asks for.  A request for the whole keyring is the identity's first.
LEMMA LeafRequested ==
    ASSUME TypeInv, LogInv, WebInv, MapsGrow, LogSettles, LogHasLast,
           NEW l, LastClosed(archive, l), After(archive[l]) = commitment,
           NEW c, Plain(c), IsAllAsked(archive, c, Len(archive)),
           NEW i \in Ids, c[i] # EMPTY, NEW f \in Factors
    PROVE  c[i][f] = Settling!RequestedLeaf(OpenIn(archive), i, f,
                                            Settling!Leaf(commitment, i, f))
<1> DEFINE rs     == OpenIn(archive)
           asking == {n \in 1 .. Len(rs) : Settling!Asks(rs[n], i, f)}
           last   == CHOOSE n \in asking : \A m \in asking : m <= n
           leaf   == Settling!Leaf(commitment, i, f)
<1>1. /\ archive \in Seq(Events) /\ Len(archive) \in Nat
      /\ l \in Nat /\ l \in 1 .. Len(archive)
      /\ archive[l].type # "storage:pending"
      /\ Len(rs) = Len(archive) - l
      /\ \A n \in 1 .. Len(rs) : /\ rs[n] = archive[l + n]
                                 /\ l + n \in 1 .. Len(archive)
                                 /\ rs[n].type = "storage:pending"
  <2> HIDE DEF rs
  <2>1. /\ archive \in Seq(Events) /\ Len(archive) \in Nat
        /\ l \in Nat /\ l \in 1 .. Len(archive)
        /\ archive[l].type # "storage:pending"
        /\ \A m \in l + 1 .. Len(archive) :
              archive[m].type = "storage:pending"
    BY LogPositions DEF LastClosed
  <2>2. /\ Len(rs) = Len(archive) - l
        /\ \A n \in 1 .. Len(archive) - l : rs[n] = archive[l + n]
    BY <2>1, OpenPart DEF rs
  <2>3. \A n \in 1 .. Len(archive) - l : /\ l + n \in 1 .. Len(archive)
                                        /\ l + n \in l + 1 .. Len(archive)
    BY <2>1
  <2> QED
    BY <2>1, <2>2, <2>3
<1>2. c[i][f] = IF Has(c, i, f) THEN PRESENT ELSE EMPTY
  BY DEF Plain, PlainRing, Has
<1>3. Has(c, i, f)
         <=> \/ FactorAsked(archive, i, f, l - 1)
             \/ \E n \in 1 .. Len(rs) : AsksFor(rs[n], i, f)
  BY <1>1, AskedOpen DEF IsAllAsked
<1>4. Has(commitment, i, f) <=> FactorAsked(archive, i, f, l - 1)
  BY <1>1 DEF LogSettles, IsAllAsked
<1>5. leaf = IF Has(commitment, i, f) THEN PRESENT ELSE EMPTY
  BY DEF MapsGrow, Plain, PlainRing, Has, Settling!Leaf
<1>6. \A e : AsksFor(e, i, f) => Settling!Asks(e, i, f)
  BY DEF AsksFor, Settling!Asks
<1>7. Settling!RequestedLeaf(rs, i, f, leaf)
         = IF asking = {} THEN leaf ELSE Settling!Asked(rs[last], f)
  BY DEF Settling!RequestedLeaf
<1>8. CASE asking = {}
  <2>1. ~ \E n \in 1 .. Len(rs) : AsksFor(rs[n], i, f)
    BY <1>6, <1>8
  <2> QED
    BY <1>2, <1>3, <1>4, <1>5, <1>7, <1>8, <2>1
<1>9. CASE asking # {}
  <2>1. last \in asking
    <3>1. asking \in SUBSET (1 .. Len(OpenIn(archive)))
      OBVIOUS
    <3> HIDE DEF asking
    <3>2. \E n \in asking : \A m \in asking : m <= n
      BY <1>9, <3>1, OpenHasLast
    <3> QED
      BY <3>2
  <2> DEFINE e == rs[last]
             p == l + last
  <2>2. /\ last \in 1 .. Len(rs) /\ Settling!Asks(e, i, f)
        /\ e = archive[p] /\ p \in 1 .. Len(archive) /\ l <= p
        /\ e.type = "storage:pending"
    BY <1>1, <2>1
  <2> HIDE DEF asking, last, rs
  <2>3. Settling!RequestedLeaf(rs, i, f, leaf) = Settling!Asked(e, f)
    BY <1>7, <1>9
  <2>4. AsksFor(e, i, f) => c[i][f] = PRESENT
    BY <1>2, <1>3, <2>2
  <2> HIDE DEF e, p
  <2>5. /\ IdentityRequest(e) \/ FactorRequest(e)
        /\ Justified(e) /\ e.commitmentPending = After(e)
    BY <2>2, AfterFacts DEF WebInv, WebEvent, LogInv, RequestsJustified
  <2>6. CASE FactorRequest(e)
    <3>1. /\ e.id = i /\ e.key = f /\ e.id # MANAGER /\ e.value = PRESENT
      BY <2>2, <2>6, KeysAssumption DEF FactorRequest, Settling!Asks
    <3> QED
      BY <2>2, <2>3, <2>4, <3>1 DEF Settling!Asked, AsksFor, rs
  <2>7. CASE IdentityRequest(e)
    <3>1. /\ e.key = i /\ e.id = MANAGER /\ e.value = FirstKeyring(i)
          /\ After(e)[i] = EMPTY
      BY <2>2, <2>5, <2>7, KeysAssumption
      DEF IdentityRequest, Settling!Asks, Justified
    <3>2. CASE f = OpKey[i]
      <4>1. Settling!Asked(e, f) = PRESENT
        BY <3>1, <3>2, FirstKeyringFacts DEF Settling!Asked
      <4> QED
        BY <2>2, <2>3, <2>4, <3>1, <3>2, <4>1 DEF AsksFor, rs
    <3>3. CASE f # OpKey[i]
      <4>1. Settling!Asked(e, f) = EMPTY
        BY <3>1, <3>3, KeysAssumption
        DEF Settling!Asked, FirstKeyring, EmptyMap
      <4>2. ~Has(c, i, f)
        <5> SUFFICES ASSUME Has(c, i, f) PROVE FALSE
          OBVIOUS
        <5>1. PICK m \in 1 .. Len(archive) : AsksFor(archive[m], i, f)
          BY DEF IsAllAsked, FactorAsked
        <5>2. /\ archive[m].type = "storage:pending"
              /\ archive[m].id = i /\ archive[m].key = f
              /\ IdentityRequest(archive[m]) \/ FactorRequest(archive[m])
              /\ Justified(archive[m])
              /\ archive[m].commitmentPending = After(archive[m])
          BY <3>3, <5>1, AfterFacts
          DEF AsksFor, WebInv, WebEvent, LogInv, RequestsJustified
        <5>3. After(archive[m])[i] # EMPTY
          BY <5>2, KeysAssumption DEF IdentityRequest, FactorRequest, Justified
        <5>4. Grows(After(archive[m]), commitment)
          BY ReachedBelow
        <5>5. Grows(After(archive[l]), After(archive[p]))
          BY <1>1, <2>2 DEF MapsGrow
        <5>6. commitment[i] # EMPTY /\ After(e)[i] # EMPTY
          BY <2>2, <5>3, <5>4, <5>5 DEF Grows
        <5> QED
          BY <3>1, <5>6
      <4> QED
        BY <1>2, <2>3, <4>1, <4>2 DEF rs
    <3> QED
      BY <3>2, <3>3
  <2> QED
    BY <2>5, <2>6, <2>7
<1> QED
  BY <1>8, <1>9

\* A map of all that was requested is what the open requests make of the
\* commitment; it is another one only if there are such.
LEMMA AllAskedSettles ==
    ASSUME TypeInv, LogInv, WebInv, MapsGrow, LogSettles, LogHasLast,
           NEW l, LastClosed(archive, l), After(archive[l]) = commitment,
           NEW c \in Commitments, Tidy(c), c # commitment,
           IsAllAsked(archive, c, Len(archive))
    PROVE  /\ OpenIn(archive) # <<>>
           /\ c = Settling!AfterRequests(OpenIn(archive), commitment)
<1> DEFINE rs == OpenIn(archive)
<1>1. /\ archive \in Seq(Events) /\ Len(archive) \in Nat
      /\ l \in 1 .. Len(archive)
      /\ Tidy(commitment) /\ commitment \in Commitments
      /\ IsAllAsked(archive, commitment, l - 1)
  BY LogPositions, CommitmentTidy DEF LastClosed, LogSettles
<1>2. ASSUME NEW i \in Ids
      PROVE  c[i] # EMPTY <=> \/ commitment[i] # EMPTY
                              \/ \E n \in 1 .. Len(rs) : rs[n].key = i
  BY <1>1, AskedOpen DEF IsAllAsked
<1>3. rs # <<>>
  <2> SUFFICES ASSUME rs = <<>> PROVE FALSE
    OBVIOUS
  <2>1. Len(rs) = 0
    OBVIOUS
  <2> HIDE DEF rs
  <2>2. ASSUME NEW i \in Ids
        PROVE  /\ c[i] # EMPTY <=> commitment[i] # EMPTY
               /\ \A f \in Factors : Has(c, i, f) <=> Has(commitment, i, f)
    <3>1. c[i] # EMPTY <=> commitment[i] # EMPTY
      BY <1>2, <2>1
    <3>2. \A f \in Factors : Has(c, i, f) <=> Has(commitment, i, f)
      BY <1>1, <2>1, AskedOpen DEF IsAllAsked, rs
    <3> QED
      BY <3>1, <3>2
  <2>3. c = commitment
    BY <1>1, <2>2, SameMaps
  <2> QED
    BY <2>3
<1>4. ASSUME NEW s \in Level2
      PROVE  c[s] = IF /\ s \in Ids
                       /\ \/ commitment[s] # EMPTY
                          \/ \E n \in 1 .. Len(rs) : rs[n].key = s
                    THEN [f \in Factors |->
                            Settling!RequestedLeaf(rs, s, f,
                               Settling!Leaf(commitment, s, f))]
                    ELSE commitment[s]
  <2>1. CASE s \in Factors
    BY <1>1, <2>1, KeysAssumption DEF Tidy
  <2>2. CASE s \in Ids /\ c[s] = EMPTY
    BY <1>2, <2>2
  <2>3. CASE s \in Ids /\ c[s] # EMPTY
    <3>1. c[s] \in Keyrings
      BY <2>3 DEF Commitments
    <3>2. \A f \in Factors :
             c[s][f] = Settling!RequestedLeaf(rs, s, f,
                          Settling!Leaf(commitment, s, f))
      BY <2>3, LeafRequested DEF Tidy
    <3>3. c[s] = [f \in Factors |-> Settling!RequestedLeaf(rs, s, f,
                                      Settling!Leaf(commitment, s, f))]
      <4> HIDE DEF rs
      <4> QED
        BY <3>1, <3>2 DEF Keyrings
    <3> QED
      BY <1>2, <2>3, <3>3
  <2> QED
    BY <2>1, <2>2, <2>3 DEF Level2
<1>5. Settling!Level2 = Level2
  BY DEF Settling!Level2, Level2
<1> HIDE DEF rs
<1>6. c = Settling!AfterRequests(rs, commitment)
  BY <1>4, <1>5 DEF Settling!AfterRequests, Commitments
<1> QED
  BY <1>3, <1>6 DEF rs

\* A block that has a request, or a commit, is a step of the abstract
\* settlement.
LEMMA IncludeSettles ==
    ASSUME TypeInv, LogInv, WebInv, BackedInv, SettleInv, LogHasLast,
           NEW t \in mempool, Include(t)
    PROVE  Settling!SettlementNext
<1>1. /\ MapsGrow /\ SentKinds /\ LogSettles /\ TxnsSettle
  BY DEF BackedInv, SettleInv
<1>2. /\ archive \in Seq(Events) /\ Len(archive) \in Nat
      /\ Len(archive) >= 1
      /\ archive' \in Seq(Events) /\ Len(archive') = Len(archive) + 1
      /\ \A n \in 1 .. Len(archive) : archive'[n] = archive[n]
      /\ archive'[Len(archive) + 1] = t.events[1]
      /\ t.events[1].commitmentPending = commitment
      /\ commitment = t.pre /\ commitment' = t.post
  BY <1>1, IncludeOne
<1>3. PICK l : LastClosed(archive, l) /\ After(archive[l]) = commitment
  BY <1>1 DEF LogSettles, LastClosed
<1>4. OpenRequests = OpenIn(archive) /\ OpenRequests' = OpenIn(archive')
  BY DEF OpenRequests, OpenIn
<1>5. CASE t.post = t.pre /\ t.events[1].type = "storage:pending"
  <2> DEFINE rs == OpenIn(archive)
             qs == OpenIn(archive')
  <2>1. /\ Len(qs) = Len(rs) + 1
        /\ SubSeq(qs, 1, Len(rs)) = rs
        /\ \A m \in Len(rs) + 1 .. Len(rs) + 1 : qs[m] = archive'[Len(archive) + 1]
    BY <1>2, <1>3, <1>5, OpenMore
  <2> HIDE DEF rs, qs
  <2>2. \E n \in 1 .. 2 :
           /\ Len(qs) = Len(rs) + n
           /\ SubSeq(qs, 1, Len(rs)) = rs
           /\ \A m \in Len(rs) + 1 .. Len(rs) + n :
                 qs[m].commitmentPending = commitment
    <3>1. 1 \in 1 .. 2
      OBVIOUS
    <3> QED
      BY <1>2, <2>1, <3>1
  <2>3. OpenRequests = rs /\ OpenRequests' = qs /\ commitment' = commitment
    BY <1>2, <1>4, <1>5 DEF rs, qs
  <2>4. Settling!Request
    BY <2>2, <2>3 DEF Settling!Request
  <2> QED
    BY <2>4 DEF Settling!SettlementNext
<1>6. CASE t \in CommitTxns /\ t.events[1].type = "storage:commit"
  <2>1. /\ t.post \in Commitments /\ Tidy(t.post) /\ t.post # commitment
        /\ IsAllAsked(archive, t.post, Len(archive))
    BY <1>1, <1>2, <1>6
    DEF TxnsSettle, TypeInv, ChainInv, ChainTypeOK, Transactions
  <2>2. /\ OpenIn(archive) # <<>>
        /\ commitment' = Settling!AfterRequests(OpenIn(archive), commitment)
    BY <1>1, <1>2, <1>3, <2>1, AllAskedSettles
  <2>3. OpenIn(archive') = <<>>
    <3>1. LastClosed(archive', Len(archive) + 1)
      BY <1>2, <1>6 DEF LastClosed
    <3>2. /\ OpenIn(archive') \in Seq(Events)
          /\ Len(OpenIn(archive')) = Len(archive') - (Len(archive) + 1)
      BY <1>2, <3>1, OpenPart
    <3> QED
      BY <1>2, <3>2, EmptySeq
  <2>4. Settling!Settle
    BY <1>4, <2>2, <2>3 DEF Settling!Settle
  <2> QED
    BY <2>4 DEF Settling!SettlementNext
<1> QED
  BY <1>1, <1>5, <1>6 DEF SentKinds, CommitTxns

\* With commits and users' transactions taking turns, the system implements
\* the abstract settlement: each commit applies the requests since the one
\* before to the committed map, all of them, and nothing else changes it.
THEOREM SystemSettles ==
    ASSUME Serialized = TRUE, OwnSecretsOnly, WebMethodsOnly
    PROVE  Spec => ImplementsSettlement
<1>1. Init => Settling!SettlementInit
  <2> SUFFICES ASSUME Init PROVE Settling!SettlementInit
    OBVIOUS
  <2> DEFINE e == EventStorageCreate(MANAGER, NoIdentities)
  <2>1. e.type = "storage:create" /\ e \in Events
    BY DEF EventStorageCreate, Events, CreateEvents, NoIdentities, Commitments
  <2>2. archive = <<e>> /\ commitment = NoIdentities
    BY DEF Init, ChainInit
  <2> HIDE DEF e
  <2>3. archive \in Seq(Events) /\ Len(archive) = 1 /\ archive[1] = e
    BY <2>1, <2>2
  <2>4. LastClosed(archive, 1)
    BY <2>1, <2>3 DEF LastClosed
  <2>5. OpenIn(archive) \in Seq(Events) /\ Len(OpenIn(archive)) = 0
    BY <2>3, <2>4, OpenPart
  <2>6. OpenRequests = <<>>
    BY <2>5, EmptySeq DEF OpenRequests, OpenIn
  <2>7. Settling!NoIdentities = NoIdentities
    BY DEF Settling!NoIdentities, NoIdentities, Settling!Level2, Level2
  <2> QED
    BY <2>2, <2>6, <2>7 DEF Settling!SettlementInit
<1>2. TypeInv /\ LogInv /\ OwnedInv /\ BackedInv /\ SettleInv /\ LogHasLast
         /\ [Next]_vars
      => [Settling!SettlementNext]_(Settling!settlementVars)
  <2> SUFFICES ASSUME TypeInv, LogInv, OwnedInv, BackedInv, SettleInv,
                      LogHasLast, [Next]_vars
               PROVE  [Settling!SettlementNext]_(Settling!settlementVars)
    OBVIOUS
  <2>1. CASE \E t \in mempool : Include(t)
    BY <2>1, IncludeSettles DEF OwnedInv
  <2>2. CASE UNCHANGED <<commitment, archive>>
    <3>1. OpenRequests' = OpenRequests
      BY <2>2 DEF OpenRequests
    <3> QED
      BY <2>2, <3>1 DEF Settling!settlementVars
  <2>3. CASE Send \/ \E u \in Clients : Prove(u)
    BY <2>2, <2>3 DEF Send, CommitPendingXforms, Prove, SendUser
  <2> QED
    BY <2>1, <2>2, <2>3, ChainSteps
<1> QED
  BY <1>1, <1>2, TypeInvariant, LogInvariant, OwnedInvariant, BackedInvariant,
     SettleInvariant, LogHasLastInvariant, PTL
  DEF Spec, ImplementsSettlement, Settling!SettlementSpec

=============================================================================
