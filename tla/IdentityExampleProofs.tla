------------------------ MODULE IdentityExampleProofs -----------------------
(***************************************************************************)
(* Theorems about the example, for any identities, factors and number of   *)
(* events: its two sets of maps agree with the contract whenever a         *)
(* transaction is processed, whoever the consumer authorizes shows a       *)
(* committed keyring, and an assertion is good for all factors while       *)
(* nothing is committed.                                                   *)
(*                                                                         *)
(* Two arguments carry the proof.  A store of a new identity is not told   *)
(* apart from its leaf in the manager's map except between the request of  *)
(* the identity and that of its operator key, which always follows it; and *)
(* the runner before a commit, and storage after it, walk the same path,   *)
(* that of the maps the pending events make of those before the commit.    *)
(*                                                                         *)
(* Then comes that the example implements Settlement, and last that the    *)
(* recursive proof it could make of a commit is one of what it commits.    *)
(***************************************************************************)
EXTENDS IdentityExample, SequenceLemmas

Requests == IdentityEvents \cup FactorEvents
Maps     == MapsOf(Commitments)

\* An identity has a store exactly if the manager's map has it, with the root
\* of the store, and the store has its operator key.
AgreesOn(maps, i) ==
    IF maps.mgr[i] = EMPTY
    THEN maps.stores[i] = NULL
    ELSE maps.stores[i] = maps.mgr[i] /\ maps.mgr[i][OpKey[i]] = PRESENT

Agree(maps) == \A i \in Ids : AgreesOn(maps, i)

\* Event n of es requests identity i ...
AddsIdentity(es, n, i) == es[n].id = MANAGER /\ es[n].key = i

\* ... of which there is none in c, and the next its operator key; others
\* request a factor of an identity in c, or an operator key.
WellFormedAt(es, n, c) ==
    \/ /\ es[n].id = MANAGER /\ es[n].value = EmptyMap
       /\ es[n].key \in Ids /\ c[es[n].key] = EMPTY
       /\ n < Len(es)
       /\ es[n + 1].id = es[n].key
       /\ es[n + 1].key = OpKey[es[n].key]
    \/ /\ es[n].id \in Ids /\ es[n].key \in Factors /\ es[n].value = PRESENT
       /\ es[n].key = OpKey[es[n].id] \/ c[es[n].id] # EMPTY

WellFormed(es, c) == \A n \in 1 .. Len(es) : WellFormedAt(es, n, c)

\* After n of the pending events the maps agree, but for the identity whose
\* operator key comes next.
AgreeAt(maps, n) ==
    \A i \in Ids : \/ n \in 1 .. Len(pending) /\ AddsIdentity(pending, n, i)
                   \/ AgreesOn(maps, i)

\* Identities and factors of c are in mgr.
Grows(c, mgr) ==
    \A i \in Ids : c[i] # EMPTY =>
        /\ mgr[i] # EMPTY
        /\ \A f \in Factors : c[i][f] = PRESENT => mgr[i][f] = PRESENT

\* The pending events m + 1 to n turn the maps from into the maps to.
IsPath(p, from, to, m, n) ==
    /\ p \in [m .. n -> Maps]
    /\ p[m] = from /\ p[n] = to
    /\ \A l \in m + 1 .. n : p[l] = Processed(p[l - 1], pending[l])

Path(from, to, m, n) == \E p : IsPath(p, from, to, m, n)

\* How many of the pending events are processed.
Done == Len(pending) - Len(todo)

TodoIsRest ==
    /\ Len(todo) <= Len(pending)
    /\ \A n \in 1 .. Len(todo) : todo[n] = pending[Done + n]

LastType == archive[Len(archive)].type

\* The maps are those of the commitment, and requests were made on it.
Synced ==
    /\ runner = storage
    /\ storage.mgr = commitment
    /\ Agree(storage)
    /\ WellFormed(pending, commitment)

Deployed ==
    /\ LastType = "storage:create"
    /\ pending = <<>>
    /\ commitment = NoIdentities
    /\ runner = [mgr |-> NoIdentities, stores |-> NoMaps]
    /\ storage = [mgr |-> NULL, stores |-> NoMaps]

Requested ==
    /\ LastType = "storage:pending"
    /\ Synced
    /\ NewEvents \in Seq(Requests)
    /\ WellFormed(NewEvents, commitment)

Committed ==
    /\ LastType = "storage:commit"
    /\ commitment = runner.mgr
    /\ Agree(runner)
    /\ Path(storage, runner, 0, Len(pending))

Running ==
    /\ TodoIsRest
    /\ storage.mgr = commitment
    /\ Agree(storage)
    /\ WellFormed(pending, commitment)
    /\ AgreeAt(runner, Done)
    /\ Grows(commitment, runner.mgr)
    /\ Path(storage, runner, 0, Done)

Storing ==
    /\ TodoIsRest
    /\ commitment = runner.mgr
    /\ Agree(runner)
    /\ Path(storage, runner, Done, Len(pending))

AssertionOK ==
    assertion # NULL =>
        /\ assertion.ring[OpKey[assertion.id]] = PRESENT
        /\ assertion.mgr[assertion.id] = assertion.ring
        /\ commitment[assertion.id] # EMPTY

Phases ==
    /\ pc # "events" => numEvents = Len(archive)
    /\ pc = "ready"  => Synced
    /\ pc = "events" => Deployed \/ Requested \/ Committed
    /\ pc = "runner" => Running
    /\ pc = "storage" => Storing

-----------------------------------------------------------------------------
(***************************************************************************)
(* Processing an event.                                                    *)
(***************************************************************************)

\* Keys are told apart, and maps are of their types.
LEMMA KeyFacts ==
    /\ Ids \subseteq Level2 /\ Factors \subseteq Level2
    /\ MANAGER \notin Ids
    /\ \A i \in Ids : i \notin Factors /\ OpKey[i] \in Factors
    /\ \A i \in Ids : Enrols[i] \subseteq Factors /\ OpKey[i] \notin Enrols[i]
    /\ EmptyMap \in Keyrings /\ NoIdentities \in Commitments
    /\ NULL \notin Keyrings /\ EMPTY \notin Keyrings
    /\ PRESENT # EMPTY
    /\ NoMaps \in [Level2 -> Keyrings \cup {NULL}]
BY KeysAssumption, FieldAssumption, ExampleAssumption
DEF Level2, EmptyMap, Keyrings, Leaves, NoIdentities, Commitments, NoMaps

\* What an event does to the leaf and the store of an identity.
LEMMA ProcessedFacts ==
    ASSUME NEW maps \in Maps, NEW e \in Requests
    PROVE  /\ Processed(maps, e) \in Maps
           /\ e.id = MANAGER =>
                 \A i \in Ids :
                    /\ Processed(maps, e).mgr[i] =
                          IF i = e.key THEN e.value ELSE maps.mgr[i]
                    /\ i # e.key =>
                          Processed(maps, e).stores[i] = maps.stores[i]
           /\ e.id # MANAGER =>
                 \A i \in Ids :
                    /\ Processed(maps, e).mgr[i] =
                          IF i = e.id
                          THEN [MapFor(maps.stores, i) EXCEPT ![e.key] = e.value]
                          ELSE maps.mgr[i]
                    /\ Processed(maps, e).stores[i] =
                          IF i = e.id
                          THEN [MapFor(maps.stores, i) EXCEPT ![e.key] = e.value]
                          ELSE maps.stores[i]
<1> USE KeyFacts
<1> DEFINE M == Processed(maps, e)
<1>1. /\ maps.mgr \in Commitments
      /\ maps.stores \in [Level2 -> Keyrings \cup {NULL}]
  BY DEF Maps, MapsOf
<1>2. \A s \in Level2 : MapFor(maps.stores, s) \in Keyrings
  BY <1>1 DEF MapFor
<1>3. CASE e.id = MANAGER
  <2>1. e.key \in Ids /\ e.value \in Keyrings
    BY <1>3 DEF Requests, IdentityEvents, FactorEvents
  <2>2. M = [mgr    |-> [maps.mgr EXCEPT ![e.key] = e.value],
             stores |-> [maps.stores EXCEPT
                            ![e.key] = MapFor(maps.stores, e.key)]]
    BY <1>3 DEF Processed
  <2> HIDE DEF M
  <2>3. M.mgr = [maps.mgr EXCEPT ![e.key] = e.value]
        /\ M.stores = [maps.stores EXCEPT ![e.key] = MapFor(maps.stores, e.key)]
    BY <2>2
  <2>4. M.mgr \in Commitments /\ M.stores \in [Level2 -> Keyrings \cup {NULL}]
    BY <1>1, <1>2, <2>1, <2>3 DEF Commitments
  <2>5. M \in Maps
    BY <2>2, <2>3, <2>4 DEF Maps, MapsOf
  <2>6. \A i \in Ids :
           /\ M.mgr[i] = IF i = e.key THEN e.value ELSE maps.mgr[i]
           /\ i # e.key => M.stores[i] = maps.stores[i]
    BY <1>1, <2>1, <2>3 DEF Commitments
  <2> QED
    BY <1>3, <2>5, <2>6 DEF M
<1>4. CASE e.id # MANAGER
  <2> DEFINE ring == [MapFor(maps.stores, e.id) EXCEPT ![e.key] = e.value]
  <2>1. e.id \in Ids /\ e.key \in Factors /\ e.value \in {PRESENT, EMPTY}
    BY <1>4 DEF Requests, IdentityEvents, FactorEvents
  <2>2. ring \in Keyrings
    BY <1>2, <2>1 DEF Keyrings, Leaves
  <2>3. M = [mgr    |-> [maps.mgr EXCEPT ![e.id] = ring],
             stores |-> [maps.stores EXCEPT
                            ![e.id]  = ring,
                            ![e.key] = MapFor(maps.stores, e.key)]]
    BY <1>4 DEF Processed
  <2> HIDE DEF M
  <2>4. /\ M.mgr = [maps.mgr EXCEPT ![e.id] = ring]
        /\ M.stores = [maps.stores EXCEPT
                          ![e.id]  = ring,
                          ![e.key] = MapFor(maps.stores, e.key)]
    BY <2>3
  <2>5. ring = [MapFor(maps.stores, e.id) EXCEPT ![e.key] = e.value]
    OBVIOUS
  <2> HIDE DEF ring
  <2>6. M.mgr \in Commitments /\ M.stores \in [Level2 -> Keyrings \cup {NULL}]
    BY <1>1, <1>2, <2>1, <2>2, <2>4 DEF Commitments
  <2>7. M \in Maps
    BY <2>3, <2>4, <2>6 DEF Maps, MapsOf
  <2>8. \A i \in Ids :
           /\ M.mgr[i] = IF i = e.id THEN ring ELSE maps.mgr[i]
           /\ M.stores[i] = IF i = e.id THEN ring ELSE maps.stores[i]
    <3>1. \A i \in Ids : i \in Level2 /\ i # e.key
      BY <2>1
    <3>2. \A i \in Ids : M.mgr[i] = IF i = e.id THEN ring ELSE maps.mgr[i]
      BY <1>1, <2>1, <2>4, <3>1 DEF Commitments
    <3>3. \A i \in Ids : M.stores[i] = IF i = e.id THEN ring ELSE maps.stores[i]
      BY <1>1, <2>1, <2>4, <3>1
    <3> QED
      BY <3>2, <3>3
  <2> QED
    BY <1>4, <2>5, <2>7, <2>8 DEF M
<1> QED
  BY <1>3, <1>4

\* Processing the next pending event keeps the maps in agreement.
LEMMA AgreeStep ==
    ASSUME NEW maps \in Maps, NEW n \in Nat, n + 1 \in 1 .. Len(pending),
           pending \in Seq(Requests), NEW c \in Commitments,
           WellFormed(pending, c), AgreeAt(maps, n), Grows(c, maps.mgr)
    PROVE  /\ AgreeAt(Processed(maps, pending[n + 1]), n + 1)
           /\ Grows(c, Processed(maps, pending[n + 1]).mgr)
<1> USE KeyFacts
<1> DEFINE e == pending[n + 1]
           M == Processed(maps, e)
<1>1. e \in Requests
  BY ElementOfSeq
<1>2. WellFormedAt(pending, n + 1, c)
  BY DEF WellFormed
<1>3. /\ maps.mgr \in Commitments
      /\ maps.stores \in [Level2 -> Keyrings \cup {NULL}]
  BY DEF Maps, MapsOf
<1>4. CASE e.id = MANAGER
  <2>1. \A i \in Ids :
           /\ M.mgr[i] = IF i = e.key THEN e.value ELSE maps.mgr[i]
           /\ i # e.key => M.stores[i] = maps.stores[i]
    BY <1>1, <1>4, ProcessedFacts
  <2>2. e.key \in Ids /\ c[e.key] = EMPTY
    BY <1>2, <1>4 DEF WellFormedAt
  <2>3. ASSUME NEW i \in Ids, i # e.key
        PROVE  AgreesOn(maps, i)
    <3>1. CASE n \in 1 .. Len(pending) /\ AddsIdentity(pending, n, i)
      <4>1. WellFormedAt(pending, n, c)
        BY <3>1 DEF WellFormed
      <4> QED
        BY <1>4, <3>1, <4>1 DEF WellFormedAt, AddsIdentity
    <3> QED
      BY <3>1 DEF AgreeAt
  <2>4. ASSUME NEW i \in Ids
        PROVE  AddsIdentity(pending, n + 1, i) \/ AgreesOn(M, i)
    BY <1>4, <2>1, <2>3 DEF AddsIdentity, AgreesOn
  <2>5. Grows(c, M.mgr)
    BY <2>1, <2>2 DEF Grows
  <2> QED
    BY <2>4, <2>5 DEF AgreeAt
<1>5. CASE e.id # MANAGER
  <2>1. \A i \in Ids :
           /\ M.mgr[i] = IF i = e.id
                         THEN [MapFor(maps.stores, i) EXCEPT ![e.key] = e.value]
                         ELSE maps.mgr[i]
           /\ M.stores[i] = IF i = e.id
                         THEN [MapFor(maps.stores, i) EXCEPT ![e.key] = e.value]
                         ELSE maps.stores[i]
    BY <1>1, <1>5, ProcessedFacts
  <2>2. /\ e.id \in Ids /\ e.key \in Factors /\ e.value = PRESENT
        /\ e.key = OpKey[e.id] \/ c[e.id] # EMPTY
    BY <1>2, <1>5 DEF WellFormedAt
  <2> DEFINE old  == MapFor(maps.stores, e.id)
             ring == [old EXCEPT ![e.key] = e.value]
  <2>3. old \in Keyrings
    BY <1>3, <2>2 DEF MapFor
  <2>4. ring \in Keyrings /\ \A f \in Factors :
           ring[f] = IF f = e.key THEN PRESENT ELSE old[f]
    BY <2>2, <2>3 DEF Keyrings, Leaves
  <2>5. ASSUME c[e.id] # EMPTY
        PROVE  AgreesOn(maps, e.id) /\ maps.mgr[e.id] # EMPTY
               /\ old = maps.mgr[e.id]
    <3>1. CASE n \in 1 .. Len(pending) /\ AddsIdentity(pending, n, e.id)
      <4>1. WellFormedAt(pending, n, c)
        BY <3>1 DEF WellFormed
      <4> QED
        BY <2>2, <2>5, <3>1, <4>1 DEF WellFormedAt, AddsIdentity
    <3>2. AgreesOn(maps, e.id)
      BY <2>2, <3>1 DEF AgreeAt
    <3>3. maps.mgr[e.id] # EMPTY
      BY <2>2, <2>5 DEF Grows
    <3>4. maps.stores[e.id] = maps.mgr[e.id] /\ maps.mgr[e.id] \in Keyrings
      BY <1>3, <2>2, <3>2, <3>3 DEF AgreesOn, Commitments
    <3> QED
      BY <3>2, <3>3, <3>4 DEF MapFor
  <2>6. M.mgr[e.id] = ring /\ M.stores[e.id] = ring
    BY <2>1, <2>2
  <2>7. ring[OpKey[e.id]] = PRESENT
    BY <2>2, <2>4, <2>5 DEF AgreesOn
  <2> HIDE DEF ring, old
  <2>8. AgreesOn(M, e.id)
    BY <2>4, <2>6, <2>7 DEF AgreesOn
  <2>9. ASSUME NEW i \in Ids, i # e.id
        PROVE  AgreesOn(M, i)
    <3>1. ASSUME n \in 1 .. Len(pending), AddsIdentity(pending, n, i)
          PROVE  FALSE
      <4>1. WellFormedAt(pending, n, c)
        BY <3>1 DEF WellFormed
      <4> QED
        BY <2>9, <3>1, <4>1 DEF WellFormedAt, AddsIdentity
    <3>2. AgreesOn(maps, i)
      BY <2>9, <3>1 DEF AgreeAt
    <3> QED
      BY <2>1, <2>9, <3>2 DEF AgreesOn
  <2>10. Grows(c, M.mgr)
    <3> SUFFICES ASSUME NEW i \in Ids, c[i] # EMPTY
                 PROVE  /\ M.mgr[i] # EMPTY
                        /\ \A f \in Factors :
                              c[i][f] = PRESENT => M.mgr[i][f] = PRESENT
      BY DEF Grows
    <3>1. \A f \in Factors : c[i][f] = PRESENT => maps.mgr[i][f] = PRESENT
      BY DEF Grows
    <3>2. CASE i = e.id
      BY <2>4, <2>5, <2>6, <3>1, <3>2
    <3>3. CASE i # e.id
      BY <2>1, <3>1, <3>3 DEF Grows
    <3> QED
      BY <3>2, <3>3
  <2> QED
    BY <2>8, <2>9, <2>10 DEF AgreeAt
<1> QED
  BY <1>4, <1>5

\* After the last event there is none whose operator key comes next.
LEMMA AgreeAtEnd ==
    ASSUME NEW maps, pending \in Seq(Requests), NEW c,
           WellFormed(pending, c), AgreeAt(maps, Len(pending))
    PROVE  Agree(maps)
<1> SUFFICES ASSUME NEW i \in Ids, Len(pending) \in 1 .. Len(pending),
                    AddsIdentity(pending, Len(pending), i)
             PROVE  FALSE
  BY DEF AgreeAt, Agree
<1>1. WellFormedAt(pending, Len(pending), c)
  BY DEF WellFormed
<1> QED
  BY <1>1, KeyFacts DEF WellFormedAt, AddsIdentity

-----------------------------------------------------------------------------
(***************************************************************************)
(* Paths.                                                                  *)
(***************************************************************************)
LEMMA PathStart ==
    ASSUME NEW from \in Maps
    PROVE  Path(from, from, 0, 0)
<1> DEFINE p == [l \in 0 .. 0 |-> from]
<1>1. p \in [0 .. 0 -> Maps] /\ p[0] = from
  OBVIOUS
<1>2. 1 .. 0 = {}
  OBVIOUS
<1>3. IsPath(p, from, from, 0, 0)
  BY <1>1, <1>2 DEF IsPath
<1> QED
  BY <1>3 DEF Path

LEMMA PathTyped ==
    ASSUME NEW from, NEW to, NEW m \in Nat, NEW n \in Nat, m <= n,
           Path(from, to, m, n)
    PROVE  from \in Maps /\ to \in Maps
BY DEF Path, IsPath

LEMMA PathEnd ==
    ASSUME NEW from, NEW to, NEW n \in Nat, Path(from, to, n, n)
    PROVE  from = to
BY DEF Path, IsPath

\* The runner processes one event more.
LEMMA PathRight ==
    ASSUME NEW from, NEW to, NEW n \in Nat, Path(from, to, 0, n),
           Processed(to, pending[n + 1]) \in Maps
    PROVE  Path(from, Processed(to, pending[n + 1]), 0, n + 1)
<1> DEFINE M == Processed(to, pending[n + 1])
<1>1. PICK p : IsPath(p, from, to, 0, n)
  BY DEF Path
<1>2. M \in Maps
  OBVIOUS
<1> DEFINE q == [l \in 0 .. n + 1 |-> IF l <= n THEN p[l] ELSE M]
<1>3. /\ q \in [0 .. n + 1 -> Maps] /\ q[n + 1] = M
      /\ \A l \in 0 .. n : q[l] = p[l]
  <2> HIDE DEF M
  <2> QED
    BY <1>1, <1>2 DEF IsPath
<1> HIDE DEF q
<1>4. q[0] = from
  BY <1>1, <1>3 DEF IsPath
<1>5. ASSUME NEW l \in 1 .. n + 1
      PROVE  q[l] = Processed(q[l - 1], pending[l])
  <2>1. CASE l <= n
    <3>1. q[l] = p[l] /\ q[l - 1] = p[l - 1] /\ l \in 1 .. n
      BY <1>3, <2>1
    <3> QED
      BY <1>1, <3>1 DEF IsPath
  <2>2. CASE l = n + 1
    <3>1. q[l] = M /\ q[l - 1] = p[n] /\ p[n] = to
      BY <1>1, <1>3, <2>2 DEF IsPath
    <3> QED
      BY <2>2, <3>1
  <2> QED
    BY <2>1, <2>2
<1>6. IsPath(q, from, M, 0, n + 1)
  BY <1>3, <1>4, <1>5 DEF IsPath
<1> QED
  BY <1>6 DEF Path

\* Storage does what the runner has done.
LEMMA PathLeft ==
    ASSUME NEW from, NEW to, NEW m \in Nat, NEW n \in Nat, m < n,
           Path(from, to, m, n)
    PROVE  Path(Processed(from, pending[m + 1]), to, m + 1, n)
<1>1. PICK p : IsPath(p, from, to, m, n)
  BY DEF Path
<1> DEFINE q == [l \in m + 1 .. n |-> p[l]]
<1>2. q \in [m + 1 .. n -> Maps] /\ \A l \in m + 1 .. n : q[l] = p[l]
  BY <1>1 DEF IsPath
<1> HIDE DEF q
<1>3. p[m + 1] = Processed(from, pending[m + 1])
  <2>1. m + 1 \in m + 1 .. n
    OBVIOUS
  <2>2. p[m + 1] = Processed(p[m + 1 - 1], pending[m + 1])
    BY <1>1, <2>1 DEF IsPath
  <2>3. m + 1 - 1 = m /\ p[m] = from
    BY <1>1 DEF IsPath
  <2> QED
    BY <2>2, <2>3
<1>4. q[m + 1] = Processed(from, pending[m + 1]) /\ q[n] = to
  BY <1>1, <1>2, <1>3 DEF IsPath
<1>5. ASSUME NEW l \in m + 1 + 1 .. n
      PROVE  q[l] = Processed(q[l - 1], pending[l])
  <2>1. l \in m + 1 .. n /\ l - 1 \in m + 1 .. n
    OBVIOUS
  <2>2. p[l] = Processed(p[l - 1], pending[l])
    BY <1>1, <2>1 DEF IsPath
  <2> QED
    BY <1>2, <2>1, <2>2
<1>6. IsPath(q, Processed(from, pending[m + 1]), to, m + 1, n)
  BY <1>2, <1>4, <1>5 DEF IsPath
<1> QED
  BY <1>6 DEF Path

-----------------------------------------------------------------------------
(***************************************************************************)
(* Requests.                                                               *)
(***************************************************************************)

\* Requests of two transactions are well-formed together.
LEMMA WellFormedTogether ==
    ASSUME NEW es \in Seq(Requests), NEW seq \in Seq(Requests), NEW c,
           WellFormed(es, c), WellFormed(seq, c)
    PROVE  es \o seq \in Seq(Requests) /\ WellFormed(es \o seq, c)
<1> DEFINE all == es \o seq
           k   == Len(es)
<1>1. /\ all \in Seq(Requests) /\ Len(all) = k + Len(seq)
      /\ \A n \in 1 .. k : all[n] = es[n]
      /\ \A n \in 1 .. Len(seq) : all[k + n] = seq[n]
      /\ k \in Nat /\ Len(seq) \in Nat
  OBVIOUS
<1> HIDE DEF all, k
<1>2. ASSUME NEW n \in 1 .. k
      PROVE  WellFormedAt(all, n, c)
  <2>1. WellFormedAt(es, n, c)
    BY DEF WellFormed, k
  <2>2. n < k => all[n + 1] = es[n + 1]
    BY <1>1
  <2> QED
    BY <1>1, <2>1, <2>2 DEF WellFormedAt, k
<1>3. ASSUME NEW n \in 1 .. Len(seq)
      PROVE  WellFormedAt(all, k + n, c)
  <2>1. WellFormedAt(seq, n, c)
    BY DEF WellFormed
  <2>2. n < Len(seq) => all[k + n + 1] = seq[n + 1]
    <3>1. n < Len(seq) => n + 1 \in 1 .. Len(seq) /\ k + n + 1 = k + (n + 1)
      BY <1>1
    <3> QED
      BY <1>1, <3>1
  <2>3. k + n < Len(all) <=> n < Len(seq)
    BY <1>1
  <2> QED
    BY <1>1, <2>1, <2>2, <2>3 DEF WellFormedAt
<1>4. ASSUME NEW n \in 1 .. Len(all)
      PROVE  WellFormedAt(all, n, c)
  <2>1. CASE n <= k
    BY <1>1, <1>2, <2>1
  <2>2. CASE k < n
    <3>1. n - k \in 1 .. Len(seq) /\ n = k + (n - k)
      BY <1>1, <2>2
    <3> QED
      BY <1>3, <3>1
  <2> QED
    BY <1>1, <2>1, <2>2
<1> QED
  BY <1>1, <1>4 DEF WellFormed, all

\* The events of a transaction are the new ones.
LEMMA Emitted ==
    ASSUME archive \in Seq(Events), numEvents = Len(archive),
           NEW es \in Seq(Events), es # <<>>,
           archive' = archive \o es, UNCHANGED numEvents
    PROVE  /\ archive' \in Seq(Events)
           /\ numEvents' \in 0 .. Len(archive')
           /\ NewEvents' = es
           /\ LastType' = es[Len(es)].type
<1> DEFINE a == archive
           k == Len(a)
<1>1. /\ a \o es \in Seq(Events) /\ Len(a \o es) = k + Len(es)
      /\ \A n \in 1 .. Len(es) : (a \o es)[k + n] = es[n]
      /\ k \in Nat /\ Len(es) \in Nat \ {0}
  BY EmptySeq
<1> DEFINE new == SubSeq(a \o es, k + 1, k + Len(es))
<1>2. new = es
  <2>1. \A n \in k + 1 .. k + Len(es) : (a \o es)[n] \in Events
    BY <1>1, ElementOfSeq
  <2>2. /\ new \in Seq(Events)
        /\ Len(new) = Len(es)
        /\ \A n \in 1 .. Len(es) : new[n] = (a \o es)[k + 1 + n - 1]
    BY <1>1, <2>1, SubSeqProperties
  <2> HIDE DEF new
  <2>3. \A n \in 1 .. Len(es) : new[n] = es[n]
    <3>1. \A n \in 1 .. Len(es) : k + 1 + n - 1 = k + n
      BY <1>1
    <3> QED
      BY <1>1, <2>2, <3>1
  <2> QED
    BY <2>2, <2>3, SeqEqual
<1>3. NewEvents' = new
  BY <1>1 DEF NewEvents
<1>4. LastType' = es[Len(es)].type
  BY <1>1 DEF LastType
<1> QED
  BY <1>1, <1>2, <1>3, <1>4

RequestEvents(es, c) ==
    /\ es \in Seq(Requests)
    /\ es # <<>>
    /\ es[Len(es)].type = "storage:pending"
    /\ WellFormed(es, c)

\* A new identity's events, and that of a factor, are well-formed requests.
LEMMA AddIdentityWellFormed ==
    ASSUME NEW i \in Ids, NEW c \in Commitments, c[i] = EMPTY
    PROVE  RequestEvents(ExampleIdentityEvents(i, c), c)
<1> USE KeyFacts
<1> DEFINE e1 == EventStoragePending(c, MANAGER, i, EmptyMap, NoMeta)
           e2 == EventStoragePending(c, i, OpKey[i], PRESENT,
                                     <<PRESENT, PROTOCOL, EMPTY>>)
           es == <<e1, e2>>
<1>1. e1 \in Requests
  BY DEF EventStoragePending, Requests, IdentityEvents, NoMeta
<1>2. e2 \in Requests
  BY DEF EventStoragePending, Requests, FactorEvents
<1>3. /\ e1.id = MANAGER /\ e1.key = i /\ e1.value = EmptyMap
      /\ e2.id = i /\ e2.key = OpKey[i] /\ e2.value = PRESENT
      /\ e2.type = "storage:pending"
  BY DEF EventStoragePending
<1> HIDE DEF e1, e2
<1>4. es \in Seq(Requests) /\ Len(es) = 2 /\ es[1] = e1 /\ es[2] = e2
  BY <1>1, <1>2
<1> HIDE DEF es
<1>5. WellFormedAt(es, 1, c) /\ WellFormedAt(es, 2, c)
  BY <1>3, <1>4 DEF WellFormedAt
<1>6. WellFormed(es, c)
  BY <1>4, <1>5 DEF WellFormed
<1>7. ExampleIdentityEvents(i, c) = es
  BY DEF ExampleIdentityEvents, es, e1, e2
<1>8. es # <<>> /\ es[Len(es)].type = "storage:pending"
  BY <1>3, <1>4
<1> QED
  BY <1>4, <1>6, <1>7, <1>8 DEF RequestEvents

LEMMA AddAuthNFactorWellFormed ==
    ASSUME NEW i \in Ids, NEW f \in Enrols[i], NEW c \in Commitments,
           c[i] # EMPTY
    PROVE  RequestEvents(AddAuthNFactorEvents(i, f, c), c)
<1> USE KeyFacts
<1> DEFINE e  == EventStoragePending(c, i, f, PRESENT,
                                     <<PROTOCOL, PROTOCOL, EMPTY>>)
           es == <<e>>
<1>1. e \in Requests
  BY DEF EventStoragePending, Requests, FactorEvents
<1>2. /\ e.id = i /\ e.key = f /\ e.value = PRESENT
      /\ e.type = "storage:pending"
  BY DEF EventStoragePending
<1> HIDE DEF e
<1>3. es \in Seq(Requests) /\ Len(es) = 1 /\ es[1] = e
  BY <1>1
<1> HIDE DEF es
<1>4. WellFormed(es, c)
  BY <1>2, <1>3 DEF WellFormed, WellFormedAt
<1>5. AddAuthNFactorEvents(i, f, c) = es
  BY DEF AddAuthNFactorEvents, es, e
<1>6. es # <<>> /\ es[Len(es)].type = "storage:pending"
  BY <1>2, <1>3
<1> QED
  BY <1>3, <1>4, <1>5, <1>6 DEF RequestEvents

-----------------------------------------------------------------------------
(***************************************************************************)
(* The steps.                                                              *)
(***************************************************************************)

\* All but the consumer's events.
StepInv == TypeOK /\ Phases /\ AssertionOK

\* At rest, the maps of storage are those of the commitment.
LEMMA SyncedTypes ==
    ASSUME TypeOK, Synced
    PROVE  /\ storage \in Maps /\ runner \in Maps
           /\ commitment \in Commitments
           /\ pending \in Seq(Requests)
BY DEF TypeOK, Synced, Maps, Requests

\* A transaction of requests.
LEMMA RequestStep ==
    ASSUME StepInv, pc = "ready", NEW es, RequestEvents(es, commitment),
           Emit(es),
           UNCHANGED <<commitment, numEvents, runner, storage, pending, todo,
                       assertion, authorized>>
    PROVE  StepInv'
<1>1. numEvents = Len(archive) /\ Synced /\ TypeOK
  BY DEF StepInv, Phases
<1>2. es \in Seq(Requests) /\ es \in Seq(Events) /\ es # <<>>
  <2>1. Requests \subseteq Events
    BY DEF Requests, Events
  <2> QED
    BY <2>1, SeqMonotonic DEF RequestEvents
<1>3. /\ archive' \in Seq(Events) /\ numEvents' \in 0 .. Len(archive')
      /\ NewEvents' = es /\ LastType' = "storage:pending"
  <2>1. archive \in Seq(Events) /\ archive' = archive \o es
    BY <1>1 DEF TypeOK, Emit
  <2>2. es[Len(es)].type = "storage:pending"
    BY DEF RequestEvents
  <2> QED
    BY <1>1, <1>2, <2>1, <2>2, Emitted
<1>4. TypeOK'
  BY <1>1, <1>3 DEF TypeOK, Emit
<1>5. Synced'
  BY <1>1 DEF Synced
<1>6. Requested'
  BY <1>2, <1>3, <1>5 DEF Requested, RequestEvents
<1>7. Phases'
  BY <1>1, <1>6 DEF Emit, Phases
<1>8. AssertionOK'
  BY DEF StepInv, AssertionOK
<1> QED
  BY <1>4, <1>7, <1>8 DEF StepInv

LEMMA AddIdentityStep ==
    ASSUME StepInv, NEW i \in Ids, AddIdentity(i)
    PROVE  StepInv'
<1>1. Synced /\ TypeOK
  BY DEF StepInv, Phases, AddIdentity
<1>2. commitment[i] = EMPTY
  BY <1>1, SyncedTypes, KeyFacts
  DEF AddIdentity, AddStoreAsserts, Maps, MapsOf, Commitments
<1>3. RequestEvents(ExampleIdentityEvents(i, commitment), commitment)
  BY <1>1, <1>2, SyncedTypes, AddIdentityWellFormed
<1> QED
  BY <1>3, RequestStep DEF AddIdentity

LEMMA AddAuthNFactorStep ==
    ASSUME StepInv, NEW f \in Factors, AddAuthNFactor(f)
    PROVE  StepInv'
<1>1. Synced /\ TypeOK /\ Accepted(f) /\ f \in Enrols[assertion.id]
  BY DEF StepInv, Phases, AddAuthNFactor
<1>2. assertion \in Assertions /\ commitment[assertion.id] # EMPTY
  BY <1>1 DEF Accepted, TypeOK, StepInv, AssertionOK
<1>3. RequestEvents(AddAuthNFactorEvents(assertion.id, f, commitment), commitment)
  BY <1>1, <1>2, SyncedTypes, AddAuthNFactorWellFormed DEF Assertions
<1> QED
  BY <1>3, RequestStep DEF AddAuthNFactor

\* The asserted keyring is the committed one.
LEMMA AssertIdentityStep ==
    ASSUME StepInv, NEW i \in Ids, AssertIdentity(i)
    PROVE  StepInv'
<1>1. Synced /\ TypeOK /\ i \in Level2
  BY KeyFacts DEF StepInv, Phases, AssertIdentity
<1>2. /\ storage.mgr \in Commitments /\ storage.mgr = commitment
      /\ storage.stores \in [Level2 -> Keyrings \cup {NULL}]
  BY <1>1, SyncedTypes DEF Synced, Maps, MapsOf
<1>3. storage.stores[i] \in Keyrings
  BY <1>1, <1>2 DEF AssertIdentity
<1>4. /\ storage.stores[i] = storage.mgr[i] /\ storage.mgr[i] # EMPTY
      /\ storage.mgr[i][OpKey[i]] = PRESENT
  <2>1. AgreesOn(storage, i)
    BY <1>1 DEF Synced, Agree
  <2> QED
    BY <2>1 DEF AgreesOn, AssertIdentity
<1>5. assertion' = [id |-> i, ring |-> storage.stores[i], mgr |-> storage.mgr]
  BY DEF AssertIdentity
<1>6. assertion' \in Assertions
  BY <1>2, <1>3, <1>5 DEF Assertions
<1>7. AssertionOK'
  BY <1>2, <1>4, <1>5 DEF AssertionOK, AssertIdentity
<1>8. TypeOK'
  BY <1>1, <1>6 DEF AssertIdentity, TypeOK
<1>9. Phases'
  BY <1>1 DEF AssertIdentity, StepInv, Phases, Synced
<1> QED
  BY <1>7, <1>8, <1>9 DEF StepInv

\* Nothing is processed yet.
LEMMA PrepareCommitStep ==
    ASSUME StepInv, PrepareCommit
    PROVE  StepInv'
<1>1. Synced /\ TypeOK /\ numEvents = Len(archive)
  BY DEF StepInv, Phases, PrepareCommit
<1>2. /\ storage \in Maps /\ runner = storage /\ storage.mgr = commitment
      /\ pending \in Seq(Requests) /\ Len(pending) \in Nat
  BY <1>1, SyncedTypes DEF Synced
<1>3. TypeOK'
  BY <1>1 DEF TypeOK, PrepareCommit
<1>4. TodoIsRest' /\ Done' = 0
  BY <1>2 DEF PrepareCommit, TodoIsRest, Done
<1>5. AgreeAt(runner, 0)
  BY <1>1, <1>2 DEF Synced, Agree, AgreeAt
<1>6. Grows(commitment, runner.mgr)
  BY <1>2 DEF Grows
<1>7. Path(storage, runner, 0, 0)
  BY <1>2, PathStart
<1>8. UNCHANGED <<commitment, archive, numEvents, runner, storage, pending>>
  BY DEF PrepareCommit
<1>9. Running'
  BY <1>1, <1>4, <1>5, <1>6, <1>7, <1>8
  DEF Running, Synced, AgreeAt, Path, IsPath
<1>10. Phases'
  BY <1>1, <1>8, <1>9 DEF Phases, PrepareCommit
<1>11. AssertionOK'
  BY DEF StepInv, AssertionOK, PrepareCommit
<1> QED
  BY <1>3, <1>10, <1>11 DEF StepInv

\* The next of the events to process.
LEMMA NextTodo ==
    ASSUME TypeOK, TodoIsRest, todo # <<>>, todo' = Tail(todo),
           UNCHANGED pending
    PROVE  /\ pending \in Seq(Requests) /\ Len(pending) \in Nat
           /\ Done \in Nat /\ Done + 1 \in 1 .. Len(pending)
           /\ Head(todo) = pending[Done + 1] /\ Head(todo) \in Requests
           /\ Done' = Done + 1 /\ TodoIsRest' /\ todo' \in Seq(Requests)
<1>1. todo \in Seq(Requests) /\ pending \in Seq(Requests)
  BY DEF TypeOK, Requests
<1>2. /\ Len(todo) \in Nat \ {0} /\ Len(pending) \in Nat
      /\ Len(todo) <= Len(pending)
  BY <1>1, EmptySeq DEF TodoIsRest
<1>3. /\ Len(todo') = Len(todo) - 1 /\ todo' \in Seq(Requests)
      /\ \A n \in 1 .. Len(todo) - 1 : todo'[n] = todo[n + 1]
      /\ Head(todo) = todo[1]
  BY <1>1, <1>2, HeadTailProperties
<1>4. Done' = Done + 1 /\ Done \in Nat /\ Done + 1 \in 1 .. Len(pending)
  BY <1>2, <1>3 DEF Done
<1>5. todo[1] = pending[Done + 1]
  BY <1>2 DEF TodoIsRest
<1>6. TodoIsRest'
  <2>1. ASSUME NEW n \in 1 .. Len(todo')
        PROVE  todo'[n] = pending[Done' + n]
    <3>1. n + 1 \in 1 .. Len(todo) /\ todo'[n] = todo[n + 1]
      BY <1>2, <1>3
    <3>2. todo[n + 1] = pending[Done + (n + 1)]
      BY <3>1 DEF TodoIsRest
    <3>3. Done + (n + 1) = Done' + n
      BY <1>4
    <3> QED
      BY <3>1, <3>2, <3>3
  <2> QED
    BY <1>2, <1>3, <2>1 DEF TodoIsRest
<1>7. pending[Done + 1] \in Requests
  BY <1>1, <1>4, ElementOfSeq
<1> QED
  BY <1>1, <1>2, <1>3, <1>4, <1>5, <1>6, <1>7

\* The runner's maps go one event further.
LEMMA RunnerStep ==
    ASSUME StepInv, ProcessPending, pc = "runner"
    PROVE  StepInv'
<1> DEFINE M == Processed(runner, pending[Done + 1])
<1>1. Running /\ TypeOK /\ numEvents = Len(archive)
  BY DEF StepInv, Phases
<1>2. /\ UNCHANGED <<commitment, archive, numEvents, storage, pending,
                     assertion, authorized, pc>>
      /\ runner' = Processed(runner, Head(todo))
      /\ todo # <<>> /\ todo' = Tail(todo)
  BY DEF ProcessPending
<1>3. /\ pending \in Seq(Requests) /\ Len(pending) \in Nat
      /\ Done \in Nat /\ Done + 1 \in 1 .. Len(pending)
      /\ pending[Done + 1] \in Requests /\ runner' = M
      /\ Done' = Done + 1 /\ TodoIsRest' /\ todo' \in Seq(Requests)
  BY <1>1, <1>2, NextTodo DEF Running
<1>4. runner \in Maps /\ commitment \in Commitments
  BY <1>1 DEF TypeOK, Maps
<1>5. M \in Maps
  BY <1>3, <1>4, ProcessedFacts
<1>6. AgreeAt(M, Done + 1) /\ Grows(commitment, M.mgr)
  BY <1>1, <1>3, <1>4, AgreeStep DEF Running
<1>7. Path(storage, M, 0, Done + 1)
  BY <1>1, <1>3, <1>5, PathRight DEF Running
<1> HIDE DEF M
<1>8. TypeOK'
  BY <1>1, <1>2, <1>3, <1>5 DEF TypeOK, Maps, Requests
<1>9. Running'
  <2>1. /\ storage'.mgr = commitment' /\ Agree(storage)'
        /\ WellFormed(pending, commitment)'
    BY <1>1, <1>2
    DEF Running
  <2>2. AgreeAt(runner, Done)' /\ Grows(commitment, runner.mgr)'
    BY <1>2, <1>3, <1>6 DEF AgreeAt
  <2>3. Path(storage, runner, 0, Done)'
    BY <1>2, <1>3, <1>7 DEF Path, IsPath
  <2> QED
    BY <1>3, <2>1, <2>2, <2>3 DEF Running
<1>10. Phases'
  BY <1>1, <1>2, <1>9 DEF Phases
<1>11. AssertionOK'
  BY <1>2 DEF StepInv, AssertionOK
<1> QED
  BY <1>8, <1>10, <1>11 DEF StepInv

\* Storage's maps follow.
LEMMA StorageStep ==
    ASSUME StepInv, ProcessPending, pc = "storage"
    PROVE  StepInv'
<1> DEFINE M == Processed(storage, pending[Done + 1])
<1>1. Storing /\ TypeOK /\ numEvents = Len(archive)
  BY DEF StepInv, Phases
<1>2. /\ UNCHANGED <<commitment, archive, numEvents, runner, pending,
                     assertion, authorized, pc>>
      /\ storage' = Processed(storage, Head(todo))
      /\ todo # <<>> /\ todo' = Tail(todo)
  BY DEF ProcessPending
<1>3. /\ pending \in Seq(Requests) /\ Len(pending) \in Nat
      /\ Done \in Nat /\ Done + 1 \in 1 .. Len(pending)
      /\ pending[Done + 1] \in Requests /\ storage' = M
      /\ Done' = Done + 1 /\ TodoIsRest' /\ todo' \in Seq(Requests)
  BY <1>1, <1>2, NextTodo DEF Storing
<1>4. storage \in Maps
  <2>1. Path(storage, runner, Done, Len(pending))
    BY <1>1 DEF Storing
  <2>2. Done <= Len(pending)
    BY <1>3
  <2> QED
    BY <1>3, <2>1, <2>2, PathTyped
<1>5. M \in Maps
  BY <1>3, <1>4, ProcessedFacts
<1>6. Path(M, runner, Done + 1, Len(pending))
  BY <1>1, <1>3, PathLeft DEF Storing
<1> HIDE DEF M
<1>7. TypeOK'
  BY <1>1, <1>2, <1>3, <1>5 DEF TypeOK, Maps, MapsOf, Requests
<1>8. Storing'
  <2>1. commitment' = runner'.mgr /\ Agree(runner)'
    BY <1>1, <1>2 DEF Storing
  <2>2. Path(storage, runner, Done, Len(pending))'
    BY <1>2, <1>3, <1>6 DEF Path, IsPath
  <2> QED
    BY <1>3, <2>1, <2>2 DEF Storing
<1>9. Phases'
  BY <1>1, <1>2, <1>8 DEF Phases
<1>10. AssertionOK'
  BY <1>2 DEF StepInv, AssertionOK
<1> QED
  BY <1>7, <1>9, <1>10 DEF StepInv

\* The commit's events: the runner's maps are the new commitment, and nothing
\* that was committed is lost.
LEMMA CommitStep ==
    ASSUME StepInv, AuthorizedByMember, Commit
    PROVE  StepInv' /\ AuthorizedByMember'
<1>1. Running /\ TypeOK /\ numEvents = Len(archive) /\ todo = <<>>
  BY DEF StepInv, Phases, Commit
<1>2. /\ UNCHANGED <<numEvents, runner, storage, pending, todo, assertion,
                     authorized>>
      /\ commitment' = runner.mgr /\ pc' = "events"
  BY DEF Commit, Emit
<1>3. /\ runner \in Maps /\ commitment \in Commitments
      /\ runner.mgr \in Commitments
      /\ pending \in Seq(Requests) /\ Len(pending) \in Nat
  BY <1>1 DEF TypeOK, Maps, MapsOf, Requests
<1>4. Done = Len(pending)
  BY <1>1, <1>3, EmptySeq DEF Done
<1> DEFINE e  == EventStorageCommit(commitment, runner.mgr)
           es == <<e>>
<1>5. e \in Events /\ e.type = "storage:commit"
  BY <1>3 DEF EventStorageCommit, Events, CommitEvents
<1>6. archive' = archive \o es
  BY DEF Commit, Emit
<1> HIDE DEF e
<1>7. es \in Seq(Events) /\ es # <<>> /\ es[Len(es)].type = "storage:commit"
  BY <1>5
<1> HIDE DEF es
<1>8. /\ archive' \in Seq(Events) /\ numEvents' \in 0 .. Len(archive')
      /\ LastType' = "storage:commit"
  <2>1. archive \in Seq(Events)
    BY <1>1 DEF TypeOK
  <2> QED
    BY <1>1, <1>2, <1>6, <1>7, <2>1, Emitted
<1>9. TypeOK'
  BY <1>1, <1>2, <1>3, <1>8 DEF TypeOK
<1>10. Agree(runner)
  <2>1. WellFormed(pending, commitment) /\ AgreeAt(runner, Len(pending))
    BY <1>1, <1>4 DEF Running
  <2> QED
    BY <1>3, <2>1, AgreeAtEnd
<1>11. Path(storage, runner, 0, Len(pending))
  BY <1>1, <1>4 DEF Running
<1>12. Committed'
  BY <1>2, <1>8, <1>10, <1>11 DEF Committed, Path, IsPath
<1>13. Phases'
  BY <1>2, <1>12 DEF Phases
<1>14. Grows(commitment, runner.mgr)
  BY <1>1 DEF Running
<1>15. AssertionOK'
  BY <1>1, <1>2, <1>14
  DEF StepInv, AssertionOK, Grows, TypeOK, Assertions
<1>16. AuthorizedByMember'
  <2> SUFFICES ASSUME authorized # NULL
               PROVE  LET held == {f \in Factors :
                                      authorized.claimed[f] = PRESENT}
                      IN /\ held # {}
                         /\ \E j \in Ids :
                               /\ commitment'[j] # EMPTY
                               /\ \A f \in held : commitment'[j][f] = PRESENT
    BY <1>2 DEF AuthorizedByMember
  <2> DEFINE held == {f \in Factors : authorized.claimed[f] = PRESENT}
  <2>1. held # {} /\ held \subseteq Factors
    BY DEF AuthorizedByMember
  <2>2. PICK j \in Ids : /\ commitment[j] # EMPTY
                         /\ \A f \in held : commitment[j][f] = PRESENT
    BY DEF AuthorizedByMember
  <2> HIDE DEF held
  <2>3. /\ commitment'[j] # EMPTY
        /\ \A f \in held : commitment'[j][f] = PRESENT
    BY <1>2, <1>14, <2>1, <2>2 DEF Grows
  <2> QED
    BY <2>1, <2>3 DEF held
<1> QED
  BY <1>9, <1>13, <1>15, <1>16 DEF StepInv

\* The last transaction's events are processed.
LEMMA ProcessEventsStep ==
    ASSUME StepInv, ProcessEvents
    PROVE  StepInv'
<1>1. TypeOK /\ (Deployed \/ Requested \/ Committed)
  BY DEF StepInv, Phases, ProcessEvents
<1>2. /\ UNCHANGED <<commitment, archive, runner, assertion, authorized>>
      /\ numEvents' = Len(archive)
  BY DEF ProcessEvents, ProcessedSoFar
<1>3. numEvents' \in 0 .. Len(archive')
  BY <1>1, <1>2 DEF TypeOK
<1>4. AssertionOK'
  BY <1>2 DEF StepInv, AssertionOK
<1>5. CASE Deployed
  <2>1. /\ storage' = [storage EXCEPT !.mgr = NoIdentities]
        /\ pc' = "ready" /\ UNCHANGED <<pending, todo>>
    BY <1>5 DEF Deployed, LastType, ProcessEvents
  <2>2. storage' = [mgr |-> NoIdentities, stores |-> NoMaps]
    BY <1>5, <2>1 DEF Deployed
  <2>3. storage' = runner /\ storage'.mgr = commitment
    BY <1>5, <2>2 DEF Deployed
  <2>4. Agree(storage')
    BY <2>2, KeyFacts DEF Agree, AgreesOn, NoIdentities, NoMaps
  <2>5. WellFormed(pending, commitment)
    BY <1>5, EmptySeq DEF Deployed, WellFormed
  <2>6. Synced'
    BY <1>2, <2>1, <2>3, <2>4, <2>5 DEF Synced
  <2>7. Phases'
    BY <1>2, <2>1, <2>6 DEF Phases
  <2>8. storage' \in MapsOf(Commitments \cup {NULL})
    BY <1>1, <2>3 DEF TypeOK, MapsOf
  <2>9. TypeOK'
    BY <1>1, <1>2, <1>3, <2>1, <2>8 DEF TypeOK
  <2> QED
    BY <1>4, <2>7, <2>9 DEF StepInv
<1>6. CASE Requested
  <2>1. /\ pending' = NewEvents \o pending
        /\ pc' = "ready" /\ UNCHANGED <<storage, todo>>
    BY <1>6 DEF Requested, LastType, ProcessEvents, Unshifted
  <2>2. Synced /\ NewEvents \in Seq(Requests) /\ pending \in Seq(Requests)
        /\ WellFormed(NewEvents, commitment)
    BY <1>1, <1>6, SyncedTypes DEF Requested
  <2>3. pending' \in Seq(Requests) /\ WellFormed(pending', commitment)
    BY <2>1, <2>2, WellFormedTogether DEF Synced
  <2>4. Synced'
    BY <1>2, <2>1, <2>2, <2>3 DEF Synced
  <2>5. Phases'
    BY <1>2, <2>1, <2>4 DEF Phases
  <2>6. TypeOK'
    BY <1>1, <1>2, <1>3, <2>1, <2>3 DEF TypeOK, Requests
  <2> QED
    BY <1>4, <2>5, <2>6 DEF StepInv
<1>7. CASE Committed
  <2>1. /\ todo' = pending /\ pc' = "storage"
        /\ UNCHANGED <<storage, pending>>
    BY <1>7 DEF Committed, LastType, ProcessEvents
  <2>2. Len(pending) \in Nat
    BY <1>1 DEF TypeOK
  <2>3. TodoIsRest' /\ Done' = 0
    BY <2>1, <2>2 DEF TodoIsRest, Done
  <2>4. commitment' = runner'.mgr /\ Agree(runner)'
    BY <1>2, <1>7 DEF Committed
  <2>5. Path(storage, runner, Done, Len(pending))'
    <3>1. Path(storage, runner, 0, Len(pending))
      BY <1>7 DEF Committed
    <3> QED
      BY <1>2, <2>1, <2>3, <3>1 DEF Path, IsPath
  <2>6. Storing'
    BY <2>3, <2>4, <2>5 DEF Storing
  <2>7. Phases'
    BY <1>2, <2>1, <2>6 DEF Phases
  <2>8. TypeOK'
    BY <1>1, <1>2, <1>3, <2>1 DEF TypeOK
  <2> QED
    BY <1>4, <2>7, <2>8 DEF StepInv
<1> QED
  BY <1>1, <1>5, <1>6, <1>7

\* Storage is at the end of the path, where the runner is.
LEMMA CommitProcessedStep ==
    ASSUME StepInv, CommitProcessed
    PROVE  StepInv'
<1>1. Storing /\ TypeOK /\ numEvents = Len(archive) /\ todo = <<>>
  BY DEF StepInv, Phases, CommitProcessed
<1>2. /\ UNCHANGED <<commitment, archive, numEvents, runner, storage, todo,
                     assertion, authorized>>
      /\ pending' = <<>> /\ pc' = "ready"
  BY DEF CommitProcessed
<1>3. Len(pending) \in Nat /\ Done = Len(pending)
  BY <1>1, EmptySeq DEF TypeOK, Done
<1>4. storage = runner
  <2>1. Path(storage, runner, Len(pending), Len(pending))
    BY <1>1, <1>3 DEF Storing
  <2> QED
    BY <1>3, <2>1, PathEnd
<1>5. WellFormed(pending', commitment)
  BY <1>2, EmptySeq DEF WellFormed
<1>6. Synced'
  BY <1>1, <1>2, <1>4, <1>5 DEF Synced, Storing
<1>7. Phases'
  BY <1>1, <1>2, <1>6 DEF Phases
<1>8. TypeOK'
  BY <1>1, <1>2, EmptySeq DEF TypeOK
<1>9. AssertionOK'
  BY <1>2 DEF StepInv, AssertionOK
<1> QED
  BY <1>7, <1>8, <1>9 DEF StepInv

\* What the consumer authorizes is the keyring of some committed identity, and
\* it holds the factor that was shown.
LEMMA RequireAuthStep ==
    ASSUME StepInv, AuthorizedByMember, NEW i \in Ids, NEW f \in Factors,
           RequireAuth(i, f)
    PROVE  StepInv' /\ AuthorizedByMember'
<1>1. Synced /\ TypeOK
  BY DEF StepInv, Phases, RequireAuth
<1>2. /\ storage.mgr \in Commitments /\ storage.mgr = commitment
      /\ storage.stores \in [Level2 -> Keyrings \cup {NULL}]
  BY <1>1, SyncedTypes DEF Synced, Maps, MapsOf
<1>3. UNCHANGED <<commitment, archive, numEvents, runner, storage, pending,
                  todo, assertion, pc>>
  BY DEF RequireAuth
<1>4. PICK claimed \in Claims :
          /\ Asserted(claimed)
          /\ \E type \in {"authorizedID", "bioauthorizedID"} :
                authorized' = [type |-> type, id |-> i, claimed |-> claimed]
  BY DEF RequireAuth
<1>5. PICK s \in Stored, j \in Stored, k \in Factors :
          Auth(claimed, storage.stores[s], storage.mgr, j, k)
  BY <1>4 DEF Asserted
<1> DEFINE root0 == [storage.stores[s] EXCEPT ![k] = PRESENT]
<1>6. storage.stores[s] \in Keyrings /\ j \in Ids /\ j \in Level2
  BY <1>2, KeyFacts DEF Stored
<1>7. root0[k] = PRESENT /\ root0 \in Keyrings
  BY <1>6 DEF Keyrings, Leaves
<1>8. root0 = claimed /\ [storage.mgr EXCEPT ![j] = root0] = commitment
  BY <1>5 DEF Auth
<1> HIDE DEF root0
<1>9. commitment[j] = claimed
  BY <1>2, <1>6, <1>8 DEF Commitments
<1>10. claimed \in Keyrings /\ claimed[k] = PRESENT /\ claimed # EMPTY
  BY <1>7, <1>8, KeyFacts
<1>11. PICK type \in {"authorizedID", "bioauthorizedID"} :
           authorized' = [type |-> type, id |-> i, claimed |-> claimed]
  BY <1>4
<1>12. authorized' \in Authorizations /\ authorized'.claimed = claimed
  BY <1>10, <1>11 DEF Authorizations
<1>13. AuthorizedByMember'
  BY <1>3, <1>6, <1>9, <1>10, <1>12 DEF AuthorizedByMember
<1>14. TypeOK'
  BY <1>1, <1>3, <1>12 DEF TypeOK
<1>15. Phases' /\ AssertionOK'
  BY <1>1, <1>3 DEF StepInv, Phases, AssertionOK, Synced, RequireAuth
<1> QED
  BY <1>13, <1>14, <1>15 DEF StepInv

-----------------------------------------------------------------------------
(***************************************************************************)
(* The theorems.                                                           *)
(***************************************************************************)
LEMMA ExampleInit == Init => StepInv /\ AuthorizedByMember
<1> SUFFICES ASSUME Init PROVE StepInv /\ AuthorizedByMember
  OBVIOUS
<1> DEFINE e == EventStorageCreate(MANAGER, NoIdentities)
<1>1. e \in Events /\ e.type = "storage:create"
  BY KeyFacts DEF EventStorageCreate, Events, CreateEvents
<1>2. archive = <<e>>
  BY DEF Init
<1> HIDE DEF e
<1>3. archive \in Seq(Events) /\ Len(archive) = 1 /\ LastType = "storage:create"
  BY <1>1, <1>2 DEF LastType
<1>4. pending = <<>> /\ todo = <<>> /\ pending \in Seq(Requests)
  BY EmptySeq DEF Init
<1>5. TypeOK
  BY <1>3, <1>4, KeyFacts DEF Init, TypeOK, MapsOf, Requests
<1>6. Deployed
  BY <1>3 DEF Init, Deployed
<1>7. Phases
  BY <1>6 DEF Init, Phases
<1>8. AssertionOK /\ AuthorizedByMember
  BY DEF Init, AssertionOK, AuthorizedByMember
<1> QED
  BY <1>5, <1>7, <1>8 DEF StepInv

\* A step that leaves the consumer's events and the commitment alone.
LEMMA AuthorizedFrame ==
    ASSUME AuthorizedByMember, UNCHANGED <<authorized, commitment>>
    PROVE  AuthorizedByMember'
BY DEF AuthorizedByMember

LEMMA ExampleStep ==
    StepInv /\ AuthorizedByMember /\ [Next]_vars => StepInv' /\ AuthorizedByMember'
<1> SUFFICES ASSUME StepInv, AuthorizedByMember, [Next]_vars
             PROVE  StepInv' /\ AuthorizedByMember'
  OBVIOUS
<1>1. CASE ProcessEvents
  BY <1>1, ProcessEventsStep, AuthorizedFrame DEF ProcessEvents
<1>2. CASE ProcessPending
  <2>1. pc = "runner" \/ pc = "storage"
    BY <1>2 DEF ProcessPending
  <2>2. StepInv'
    BY <1>2, <2>1, RunnerStep, StorageStep
  <2> QED
    BY <1>2, <2>2, AuthorizedFrame DEF ProcessPending
<1>3. CASE CommitProcessed
  BY <1>3, CommitProcessedStep, AuthorizedFrame DEF CommitProcessed
<1>4. ASSUME NEW i \in Ids, AddIdentity(i)
      PROVE  StepInv' /\ AuthorizedByMember'
  BY <1>4, AddIdentityStep, AuthorizedFrame DEF AddIdentity
<1>5. ASSUME NEW i \in Ids, AssertIdentity(i)
      PROVE  StepInv' /\ AuthorizedByMember'
  BY <1>5, AssertIdentityStep, AuthorizedFrame DEF AssertIdentity
<1>6. ASSUME NEW f \in Factors, AddAuthNFactor(f)
      PROVE  StepInv' /\ AuthorizedByMember'
  BY <1>6, AddAuthNFactorStep, AuthorizedFrame DEF AddAuthNFactor
<1>7. CASE PrepareCommit
  BY <1>7, PrepareCommitStep, AuthorizedFrame DEF PrepareCommit
<1>8. CASE Commit
  BY <1>8, CommitStep
<1>9. ASSUME NEW i \in Ids, NEW f \in Factors, RequireAuth(i, f)
      PROVE  StepInv' /\ AuthorizedByMember'
  BY <1>9, RequireAuthStep
<1>10. CASE UNCHANGED vars
  <2>1. TypeOK' /\ AssertionOK' /\ AuthorizedByMember'
    BY <1>10 DEF vars, StepInv, TypeOK, AssertionOK, AuthorizedByMember
  <2>2. Phases'
    BY <1>10
    DEF vars, StepInv, Phases, Synced, Deployed, Requested, Committed, Running,
        Storing, LastType, NewEvents, TodoIsRest, Done, AgreeAt, Path, IsPath
  <2> QED
    BY <2>1, <2>2 DEF StepInv
<1> QED
  BY <1>1, <1>2, <1>3, <1>4, <1>5, <1>6, <1>7, <1>8, <1>9, <1>10 DEF Next

LEMMA ExampleInvariant == Spec => [](StepInv /\ AuthorizedByMember)
BY ExampleInit, ExampleStep, PTL DEF Spec

\* The example's maps, events and proofs are of their types; storage's maps
\* are the manager's and those of stores at every step of a commit.
THEOREM ExampleTypeCorrect == Spec => []TypeOK
<1>1. StepInv => TypeOK
  BY DEF StepInv
<1> QED
  BY <1>1, ExampleInvariant, PTL

\* Whatever order its helpers are called in, the example's two sets of maps
\* and the contract agree after each transaction: what it asserts at its end.
THEOREM MapsInSync == Spec => []InSync
<1>1. StepInv => InSync
  <2> SUFFICES ASSUME StepInv, pc = "ready" PROVE InSync
    BY DEF InSync
  <2>1. Synced
    BY DEF StepInv, Phases
  <2> QED
    BY <2>1 DEF Synced, Agree, AgreesOn, InSync
<1> QED
  BY <1>1, ExampleInvariant, PTL

\* The consumer authorizes nobody but on a committed keyring that holds a
\* factor, and no later commit takes those factors away.
THEOREM AuthorizedAlwaysByMember == Spec => []AuthorizedByMember
BY ExampleInvariant, PTL

\* An assertion is accepted for every factor its identity lacks as long as
\* nothing is committed, however many of its transactions are pending.
THEOREM AssertionStays == Spec => []AssertionLasts
<1>1. StepInv => AssertionLasts
  <2> SUFFICES ASSUME StepInv, pc = "ready", assertion # NULL,
                      NEW f \in Enrols[assertion.id],
                      assertion.mgr = commitment,
                      commitment[assertion.id][f] = EMPTY
               PROVE  Accepted(f)
    BY DEF AssertionLasts
  <2> DEFINE i == assertion.id
  <2>1. Synced /\ TypeOK
    BY DEF StepInv, Phases
  <2>2. /\ i \in Ids /\ assertion.ring \in Keyrings
        /\ commitment \in Commitments
    BY <2>1 DEF TypeOK, Assertions
  <2>3. /\ assertion.ring[OpKey[i]] = PRESENT
        /\ commitment[i] # EMPTY
    BY DEF StepInv, AssertionOK
  <2>4. OperatorKeyAsserts(assertion.ring, OpKey[i], assertion.ring)
    BY <2>2, <2>3, KeyFacts DEF OperatorKeyAsserts, Keyrings
  <2>5. f \in Factors /\ i \in Level2
    BY <2>2, KeyFacts
  <2>6. storage.stores[i] = commitment[i] /\ commitment[i] \in Keyrings
    BY <2>1, <2>2, <2>3, <2>5 DEF Synced, Agree, AgreesOn, Commitments
  <2>7. [commitment[i] EXCEPT ![f] = EMPTY] = commitment[i]
    BY <2>5, <2>6 DEF Keyrings
  <2>8. [commitment EXCEPT ![i] = commitment[i]] = commitment
    BY <2>2, <2>5 DEF Commitments
  <2> QED
    BY <2>4, <2>6, <2>7, <2>8 DEF Accepted, SetStoreDataAsserts
<1> QED
  BY <1>1, ExampleInvariant, PTL

-----------------------------------------------------------------------------
(***************************************************************************)
(* The example implements Settlement: for any identities, factors and      *)
(* number of events, a commit settles the requests since the last one as   *)
(* if they were taken in the order they were made, though the example      *)
(* keeps the transactions of pending events newest first.                  *)
(*                                                                         *)
(* The order does not matter because of what may be requested together: a  *)
(* factor other than an operator key is requested of committed identities  *)
(* only, and an identity only while it is not committed.  So what a leaf   *)
(* is after some of the pending events depends on which events they are    *)
(* (LeafAfter), and the pending events are those that were emitted.        *)
(***************************************************************************)

ElementsOf(es) == {es[n] : n \in 1 .. Len(es)}

IsClosed(a, n) == a[n].type # "storage:pending"

\* The operator key of a new identity is not requested without the identity.
Announced(E, c) ==
    \A e \in E : e.id \in Ids /\ c[e.id] = EMPTY => \E d \in E : d.key = e.id

\* The first n of the events ps have one of identity i.
IsRequested(ps, n, i) == \E m \in 1 .. n : ps[m].key = i \/ ps[m].id = i

\* The leaf (i, f) of the commitment c after the first n of the events ps.
LeafAfter(ps, n, c, i, f) ==
    IF \E m \in 1 .. n : ps[m].id = i /\ ps[m].key = f
    THEN PRESENT
    ELSE Settling!Leaf(c, i, f)

\* The maps hold what the first n of the events ps make of the commitment c.
HoldsRequests(maps, ps, n, c) ==
    /\ \A i \in Ids :
          /\ maps.stores[i] = NULL <=> c[i] = EMPTY /\ ~IsRequested(ps, n, i)
          /\ \A f \in Factors :
                MapFor(maps.stores, i)[f] = LeafAfter(ps, n, c, i, f)
    /\ \A s \in Level2 \ Ids : maps.mgr[s] = c[s]

\* The requests rs, made on the commitment c, are the events in E.
AreRequests(rs, E, c) ==
    /\ rs \in Seq(Requests)
    /\ WellFormed(rs, c)
    /\ ElementsOf(rs) = E
    /\ Announced(E, c)

\* Pending are the events since the last commit, before the next one.
RequestInv ==
    /\ archive # <<>> /\ IsClosed(archive, 1)
    /\ pc \in {"ready", "runner"} =>
          AreRequests(OpenRequests, ElementsOf(pending), commitment)
    /\ pc = "events" =>
          IF LastType = "storage:pending"
          THEN AreRequests(OpenRequests,
                           ElementsOf(NewEvents) \cup ElementsOf(pending),
                           commitment)
          ELSE OpenRequests = <<>>
    /\ pc = "events" /\ LastType = "storage:create" => pending = <<>>
    /\ pc = "storage" => OpenRequests = <<>>
    /\ pc = "runner" =>
          pending # <<>> /\ HoldsRequests(runner, pending, Done, commitment)

-----------------------------------------------------------------------------
(***************************************************************************)
(* The events since the last that is not a request.                        *)
(***************************************************************************)

\* The elements of a concatenation.
LEMMA Concatenated ==
    ASSUME NEW S, NEW s \in Seq(S), NEW t \in Seq(S),
           NEW k, k = Len(s), NEW l, l = Len(t)
    PROVE  /\ s \o t \in Seq(S) /\ Len(s \o t) = k + l
           /\ k \in Nat /\ l \in Nat
           /\ \A n \in 1 .. k : (s \o t)[n] = s[n]
           /\ \A n \in 1 .. l : (s \o t)[k + n] = t[n]
OBVIOUS

\* What is left of a sequence from a position on.
LEMMA FromPosition ==
    ASSUME NEW a \in Seq(Events), NEW last \in 1 .. Len(a)
    PROVE  LET rest == SubSeq(a, last + 1, Len(a))
           IN  /\ rest \in Seq(Events)
               /\ Len(rest) = Len(a) - last
               /\ \A n \in 1 .. Len(a) - last : rest[n] = a[last + n]
<1> DEFINE rest == SubSeq(a, last + 1, Len(a))
<1>1. last + 1 \in Int /\ Len(a) \in Int /\ last \in Int /\ last <= Len(a)
  OBVIOUS
<1>2. \A n \in last + 1 .. Len(a) : a[n] \in Events
  BY ElementOfSeq
<1>3. /\ rest \in Seq(Events)
      /\ Len(rest) = IF last + 1 <= Len(a) THEN Len(a) - (last + 1) + 1 ELSE 0
      /\ \A n \in 1 .. Len(a) - (last + 1) + 1 : rest[n] = a[last + 1 + n - 1]
  <2> HIDE DEF rest
  <2> QED
    BY <1>1, <1>2, SubSeqProperties DEF rest
<1> HIDE DEF rest
<1>4. Len(rest) = Len(a) - last
  BY <1>1, <1>3
<1>5. ASSUME NEW n \in 1 .. Len(a) - last
      PROVE  rest[n] = a[last + n]
  <2>1. n \in 1 .. Len(a) - (last + 1) + 1 /\ last + 1 + n - 1 = last + n
    BY <1>1
  <2> QED
    BY <1>3, <2>1
<1> QED
  BY <1>3, <1>4, <1>5 DEF rest

\* Where the requests at the end begin.
LEMMA RequestsFrom ==
    ASSUME NEW a \in Seq(Events), NEW last \in 1 .. Len(a), IsClosed(a, last),
           \A n \in last + 1 .. Len(a) : ~IsClosed(a, n)
    PROVE  RequestsAtEnd(a) = SubSeq(a, last + 1, Len(a))
<1> DEFINE closed == {n \in 1 .. Len(a) : a[n].type # "storage:pending"}
<1>1. last \in closed /\ \A m \in closed : m <= last
  BY DEF IsClosed
<1>2. \A n \in closed : (\A m \in closed : m <= n) => n = last
  BY <1>1
<1>3. (CHOOSE n \in closed : \A m \in closed : m <= n) = last
  <2> HIDE DEF closed
  <2> QED
    BY <1>1, <1>2
<1> QED
  BY <1>3 DEF RequestsAtEnd

LEMMA LastClosed ==
    ASSUME NEW a \in Seq(Events), a # <<>>, IsClosed(a, 1)
    PROVE  \E last \in 1 .. Len(a) :
              /\ IsClosed(a, last)
              /\ \A n \in last + 1 .. Len(a) : ~IsClosed(a, n)
<1> DEFINE closed == {n \in 1 .. Len(a) : IsClosed(a, n)}
<1>1. Len(a) \in Nat /\ 1 \in 1 .. Len(a)
  BY EmptySeq
<1>2. closed \in SUBSET (1 .. Len(a)) /\ closed # {}
  BY <1>1
<1>3. PICK last \in closed : \A k \in closed : k <= last
  <2> HIDE DEF closed
  <2> QED
    BY <1>1, <1>2, LastExists
<1> QED
  BY <1>1, <1>3

\* Requests that are emitted come at the end.
LEMMA RequestsAppended ==
    ASSUME NEW a \in Seq(Events), a # <<>>, IsClosed(a, 1),
           NEW es \in Seq(Requests)
    PROVE  RequestsAtEnd(a \o es) = RequestsAtEnd(a) \o es
<1>1. PICK last \in 1 .. Len(a) :
          /\ IsClosed(a, last)
          /\ \A n \in last + 1 .. Len(a) : ~IsClosed(a, n)
  BY LastClosed
<1>2. \A n \in 1 .. Len(es) : es[n].type = "storage:pending" /\ es[n] \in Events
  <2>1. \A e \in Requests : e.type = "storage:pending" /\ e \in Events
    BY DEF Requests, IdentityEvents, FactorEvents, Events
  <2> QED
    BY <2>1, ElementOfSeq
<1> DEFINE k == Len(a)
           l == Len(es)
           b == a \o es
<1>3. es \in Seq(Events)
  BY SeqMonotonic DEF Requests, Events
<1>4. /\ b \in Seq(Events) /\ Len(b) = k + l
      /\ \A n \in 1 .. k : b[n] = a[n]
      /\ \A n \in 1 .. l : b[k + n] = es[n]
      /\ k \in Nat /\ l \in Nat
  BY <1>3
<1>5. last \in 1 .. k
  BY <1>1
<1> HIDE DEF k, l, b
<1>6. last \in 1 .. Len(b) /\ IsClosed(b, last)
  BY <1>1, <1>4, <1>5 DEF IsClosed
<1>7. ASSUME NEW n \in last + 1 .. Len(b)
      PROVE  ~IsClosed(b, n)
  <2>1. CASE n <= k
    <3>1. n \in last + 1 .. k /\ n \in 1 .. k
      BY <1>4, <1>5, <2>1
    <3> QED
      BY <1>1, <1>4, <3>1 DEF IsClosed, k
  <2>2. CASE k < n
    <3>1. n - k \in 1 .. l /\ n = k + (n - k)
      BY <1>4, <1>5, <2>2
    <3> QED
      BY <1>2, <1>4, <3>1 DEF IsClosed, l
  <2> QED
    BY <1>4, <1>5, <2>1, <2>2
<1> DEFINE old == SubSeq(a, last + 1, k)
           new == SubSeq(b, last + 1, k + l)
<1>8. RequestsAtEnd(a) = old
  BY <1>1, RequestsFrom DEF k
<1>9. RequestsAtEnd(b) = new
  <2>1. RequestsAtEnd(b) = SubSeq(b, last + 1, Len(b))
    BY <1>4, <1>6, <1>7, RequestsFrom
  <2> QED
    BY <1>4, <2>1
<1>10. /\ old \in Seq(Events) /\ Len(old) = k - last
       /\ \A n \in 1 .. k - last : old[n] = a[last + n]
  BY <1>4, <1>5, FromPosition DEF k
<1>11. /\ new \in Seq(Events) /\ Len(new) = k + l - last
       /\ \A n \in 1 .. k + l - last : new[n] = b[last + n]
  BY <1>4, <1>6, FromPosition
<1> HIDE DEF new, old
<1>12. /\ old \o es \in Seq(Events) /\ Len(old \o es) = k - last + l
       /\ \A n \in 1 .. k - last : (old \o es)[n] = old[n]
       /\ \A n \in 1 .. l : (old \o es)[k - last + n] = es[n]
  <2>1. k - last = Len(old) /\ l = Len(es)
    BY <1>10 DEF l
  <2> QED
    BY <1>3, <1>10, <2>1, Concatenated
<1>13. ASSUME NEW n \in 1 .. k + l - last
       PROVE  new[n] = (old \o es)[n]
  <2>1. new[n] = b[last + n]
    BY <1>11
  <2>2. CASE n <= k - last
    <3>1. n \in 1 .. k - last /\ last + n \in 1 .. k
      BY <1>4, <1>5, <2>2
    <3>2. b[last + n] = a[last + n] /\ old[n] = a[last + n]
      BY <1>4, <1>10, <3>1
    <3> QED
      BY <1>12, <2>1, <3>1, <3>2
  <2>3. CASE k - last < n
    <3> DEFINE m == n - (k - last)
    <3>1. m \in 1 .. l /\ last + n = k + m /\ n = k - last + m
      BY <1>4, <1>5, <2>3
    <3> HIDE DEF m
    <3>2. b[k + m] = es[m] /\ (old \o es)[k - last + m] = es[m]
      BY <1>4, <1>12, <3>1
    <3> QED
      BY <2>1, <3>1, <3>2
  <2>4. n \in Int /\ k - last \in Int
    BY <1>4, <1>5
  <2>5. n <= k - last \/ k - last < n
    <3> HIDE <2>2, <2>3
    <3> QED
      BY <2>4
  <2> QED
    BY <2>2, <2>3, <2>5
<1>14. Len(new) = k + l - last /\ Len(old \o es) = k + l - last
  BY <1>4, <1>5, <1>11, <1>12
<1>15. new = old \o es
  BY <1>11, <1>12, <1>13, <1>14, SeqEqual
<1> QED
  BY <1>8, <1>9, <1>15 DEF b

\* After a commit there are none.
LEMMA RequestsCommitted ==
    ASSUME NEW a \in Seq(Events), NEW e \in CommitEvents
    PROVE  RequestsAtEnd(a \o <<e>>) = <<>>
<1> DEFINE k == Len(a)
           b == a \o <<e>>
<1>1. e \in Events /\ e.type = "storage:commit"
  BY DEF CommitEvents, Events
<1>2. b \in Seq(Events) /\ Len(b) = k + 1 /\ k \in Nat /\ b[k + 1] = e
  BY <1>1
<1> HIDE DEF k, b
<1>3. k + 1 \in 1 .. Len(b) /\ IsClosed(b, k + 1)
  BY <1>1, <1>2 DEF IsClosed
<1>4. \A n \in k + 1 + 1 .. Len(b) : ~IsClosed(b, n)
  BY <1>2
<1>5. RequestsAtEnd(b) = SubSeq(b, k + 1 + 1, Len(b))
  BY <1>2, <1>3, <1>4, RequestsFrom
<1>6. k + 1 + 1 \in Int /\ Len(b) \in Int /\ Len(b) < k + 1 + 1
  BY <1>2
<1> QED
  BY <1>5, <1>6, SubSeqEmpty DEF b

-----------------------------------------------------------------------------
(***************************************************************************)
(* What the requests make of the commitment.                               *)
(***************************************************************************)

\* Nothing is requested yet: the maps are the commitment's.
LEMMA HoldsAtStart ==
    ASSUME NEW maps \in Maps, NEW ps, NEW c \in Commitments,
           maps.mgr = c, Agree(maps)
    PROVE  HoldsRequests(maps, ps, 0, c)
<1>1. 1 .. 0 = {}
  OBVIOUS
<1>2. \A i \in Ids : ~IsRequested(ps, 0, i)
  BY <1>1 DEF IsRequested
<1>3. ASSUME NEW i \in Ids
      PROVE  /\ maps.stores[i] = NULL <=> c[i] = EMPTY
             /\ \A f \in Factors : MapFor(maps.stores, i)[f] = Settling!Leaf(c, i, f)
  <2>1. AgreesOn(maps, i) /\ c[i] \in Keyrings \cup {EMPTY}
    BY KeyFacts DEF Agree, Commitments
  <2>2. CASE c[i] = EMPTY
    BY <2>1, <2>2, KeyFacts DEF AgreesOn, MapFor, EmptyMap, Settling!Leaf
  <2>3. CASE c[i] # EMPTY
    BY <2>1, <2>3, KeyFacts DEF AgreesOn, MapFor, Settling!Leaf
  <2> QED
    BY <2>2, <2>3
<1>4. \A i \in Ids, f \in Factors : LeafAfter(ps, 0, c, i, f) = Settling!Leaf(c, i, f)
  BY <1>1 DEF LeafAfter
<1> QED
  BY <1>2, <1>3, <1>4 DEF HoldsRequests

\* Besides: an identity that is requested gets a store, and the manager's map
\* has no other keys than before.
LEMMA ProcessedBesides ==
    ASSUME NEW maps \in Maps, NEW e \in Requests
    PROVE  /\ e.id = MANAGER =>
                 Processed(maps, e).stores[e.key] = MapFor(maps.stores, e.key)
           /\ \A s \in Level2 \ Ids : Processed(maps, e).mgr[s] = maps.mgr[s]
<1> USE KeyFacts
<1>1. /\ maps.mgr \in Commitments
      /\ maps.stores \in [Level2 -> Keyrings \cup {NULL}]
  BY DEF Maps, MapsOf
<1>2. CASE e.id = MANAGER
  <2>1. e.key \in Ids
    BY <1>2 DEF Requests, IdentityEvents, FactorEvents
  <2>2. /\ Processed(maps, e).mgr = [maps.mgr EXCEPT ![e.key] = e.value]
        /\ Processed(maps, e).stores =
              [maps.stores EXCEPT ![e.key] = MapFor(maps.stores, e.key)]
    BY <1>2 DEF Processed
  <2> QED
    BY <1>1, <2>1, <2>2 DEF Commitments
<1>3. CASE e.id # MANAGER
  <2> DEFINE ring == [MapFor(maps.stores, e.id) EXCEPT ![e.key] = e.value]
  <2>1. e.id \in Ids
    BY <1>3 DEF Requests, IdentityEvents, FactorEvents
  <2>2. Processed(maps, e).mgr = [maps.mgr EXCEPT ![e.id] = ring]
    BY <1>3 DEF Processed
  <2> HIDE DEF ring
  <2> QED
    BY <1>1, <1>3, <2>1, <2>2 DEF Commitments
<1> QED
  BY <1>2, <1>3

\* One event more.
LEMMA HoldsStep ==
    ASSUME NEW maps \in Maps, NEW ps \in Seq(Requests), NEW n \in Nat,
           n + 1 \in 1 .. Len(ps), NEW c \in Commitments, WellFormed(ps, c),
           HoldsRequests(maps, ps, n, c)
    PROVE  HoldsRequests(Processed(maps, ps[n + 1]), ps, n + 1, c)
<1> USE KeyFacts
<1> DEFINE e == ps[n + 1]
           M == Processed(maps, e)
<1>1. e \in Requests /\ WellFormedAt(ps, n + 1, c)
  BY ElementOfSeq DEF WellFormed
<1>2. /\ maps.stores \in [Level2 -> Keyrings \cup {NULL}]
      /\ \A s \in Level2 : MapFor(maps.stores, s) \in Keyrings
  BY DEF Maps, MapsOf, MapFor
<1>3. \A m : m \in 1 .. n + 1 <=> m \in 1 .. n \/ m = n + 1
  OBVIOUS
<1>4. ASSUME NEW i \in Ids
      PROVE  IsRequested(ps, n + 1, i) <=>
                IsRequested(ps, n, i) \/ e.key = i \/ e.id = i
  BY <1>3 DEF IsRequested
<1>5. ASSUME NEW i \in Ids, NEW f \in Factors
      PROVE  LeafAfter(ps, n + 1, c, i, f) =
                IF e.id = i /\ e.key = f THEN PRESENT ELSE LeafAfter(ps, n, c, i, f)
  BY <1>3 DEF LeafAfter
<1>6. \A s \in Level2 \ Ids : M.mgr[s] = c[s]
  BY <1>1, ProcessedBesides DEF HoldsRequests
<1>7. CASE e.id = MANAGER
  <2>1. e.key \in Ids /\ \A i \in Ids : e.id # i
    BY <1>1, <1>7 DEF WellFormedAt
  <2>2. /\ M.stores[e.key] = MapFor(maps.stores, e.key)
        /\ \A i \in Ids : i # e.key => M.stores[i] = maps.stores[i]
    BY <1>1, <1>7, ProcessedFacts, ProcessedBesides
  <2>3. ASSUME NEW i \in Ids
        PROVE  MapFor(M.stores, i) = MapFor(maps.stores, i)
    BY <1>2, <2>2 DEF MapFor
  <2> HIDE DEF M
  <2>4. ASSUME NEW i \in Ids
        PROVE  M.stores[i] = NULL <=> c[i] = EMPTY /\ ~IsRequested(ps, n + 1, i)
    <3>1. CASE i = e.key
      BY <1>2, <1>4, <2>2, <3>1
    <3>2. CASE i # e.key
      BY <1>4, <2>1, <2>2, <3>2 DEF HoldsRequests
    <3> QED
      BY <3>1, <3>2
  <2>5. ASSUME NEW i \in Ids, NEW f \in Factors
        PROVE  MapFor(M.stores, i)[f] = LeafAfter(ps, n + 1, c, i, f)
    <3>1. LeafAfter(ps, n + 1, c, i, f) = LeafAfter(ps, n, c, i, f)
      BY <1>5, <2>1
    <3> QED
      BY <2>3, <3>1 DEF HoldsRequests
  <2> QED
    BY <1>6, <2>4, <2>5 DEF HoldsRequests, M
<1>8. CASE e.id # MANAGER
  <2>1. e.id \in Ids /\ e.key \in Factors /\ e.value = PRESENT
    BY <1>1, <1>8 DEF WellFormedAt
  <2> DEFINE old  == MapFor(maps.stores, e.id)
             ring == [old EXCEPT ![e.key] = e.value]
  <2>2. \A i \in Ids : M.stores[i] = IF i = e.id THEN ring ELSE maps.stores[i]
    <3>1. \A i \in Ids :
             M.stores[i] = IF i = e.id
                           THEN [MapFor(maps.stores, i) EXCEPT ![e.key] = e.value]
                           ELSE maps.stores[i]
      <4>1. e \in Requests
        BY <1>1
      <4> HIDE DEF e
      <4>2. /\ e.id # MANAGER =>
                 \A i \in Ids :
                    /\ Processed(maps, e).mgr[i] =
                          IF i = e.id
                          THEN [MapFor(maps.stores, i) EXCEPT ![e.key] = e.value]
                          ELSE maps.mgr[i]
                    /\ Processed(maps, e).stores[i] =
                          IF i = e.id
                          THEN [MapFor(maps.stores, i) EXCEPT ![e.key] = e.value]
                          ELSE maps.stores[i]
        BY <4>1, ProcessedFacts, Zenon
      <4> QED
        BY <1>8, <4>2, Zenon
    <3> QED
      BY <3>1
  <2>3. old \in Keyrings
    BY <1>2, <2>1
  <2>4. /\ ring \in Keyrings
        /\ \A f \in Factors : ring[f] = IF f = e.key THEN PRESENT ELSE old[f]
    BY <2>1, <2>3 DEF Keyrings, Leaves
  <2> HIDE DEF M, ring
  <2>5. ASSUME NEW i \in Ids
        PROVE  M.stores[i] = NULL <=> c[i] = EMPTY /\ ~IsRequested(ps, n + 1, i)
    <3>1. CASE i = e.id
      BY <1>4, <2>2, <2>4, <3>1
    <3>2. CASE i # e.id
      <4>1. e.key # i
        BY <2>1
      <4> QED
        BY <1>4, <2>2, <3>2, <4>1 DEF HoldsRequests
    <3> QED
      BY <3>1, <3>2
  <2>6. ASSUME NEW i \in Ids, NEW f \in Factors
        PROVE  MapFor(M.stores, i)[f] = LeafAfter(ps, n + 1, c, i, f)
    <3>1. CASE i = e.id
      <4>1. MapFor(M.stores, i) = ring
        BY <2>2, <2>4, <3>1 DEF MapFor
      <4>2. old[f] = LeafAfter(ps, n, c, i, f)
        BY <3>1 DEF HoldsRequests
      <4> HIDE DEF old
      <4> QED
        BY <1>5, <2>4, <3>1, <4>1, <4>2
    <3>2. CASE i # e.id
      <4>1. MapFor(M.stores, i) = MapFor(maps.stores, i)
        BY <2>2, <3>2 DEF MapFor
      <4> QED
        BY <1>5, <3>2, <4>1 DEF HoldsRequests
    <3> QED
      BY <3>1, <3>2
  <2> QED
    BY <1>6, <2>5, <2>6 DEF HoldsRequests, M
<1> QED
  BY <1>7, <1>8

\* After all of them a leaf is what was requested last, in any order.
LEMMA LeafIsRequested ==
    ASSUME NEW rs, NEW ps \in Seq(Requests), NEW c \in Commitments,
           AreRequests(rs, ElementsOf(ps), c), NEW i \in Ids, NEW f \in Factors
    PROVE  LeafAfter(ps, Len(ps), c, i, f) =
              Settling!RequestedLeaf(rs, i, f, Settling!Leaf(c, i, f))
<1> USE KeyFacts
<1> DEFINE v      == Settling!Leaf(c, i, f)
           asking == {n \in 1 .. Len(rs) : Settling!Asks(rs[n], i, f)}
           last   == CHOOSE n \in asking : \A m \in asking : m <= n
           Adds(e) == e.id = i /\ e.key = f
<1>1. /\ rs \in Seq(Requests) /\ Len(rs) \in Nat
      /\ \A n \in 1 .. Len(rs) : rs[n] \in Requests /\ WellFormedAt(rs, n, c)
  BY ElementOfSeq DEF AreRequests, WellFormed
<1>2. (\E m \in 1 .. Len(ps) : Adds(ps[m])) <=> (\E n \in 1 .. Len(rs) : Adds(rs[n]))
  <2>1. ElementsOf(rs) = ElementsOf(ps)
    BY DEF AreRequests
  <2> HIDE DEF Adds
  <2> QED
    BY <2>1 DEF ElementsOf
<1>3. Settling!RequestedLeaf(rs, i, f, v) =
         IF asking = {} THEN v ELSE Settling!Asked(rs[last], f)
  BY DEF Settling!RequestedLeaf
<1>4. \A n \in 1 .. Len(rs) : n \in asking <=> rs[n].key = i \/ Adds(rs[n])
  BY DEF Settling!Asks
<1>5. asking \in SUBSET (1 .. Len(rs))
  OBVIOUS
<1>6. LeafAfter(ps, Len(ps), c, i, f) =
         IF \E n \in 1 .. Len(rs) : Adds(rs[n]) THEN PRESENT ELSE v
  BY <1>2 DEF LeafAfter
<1> HIDE DEF asking
<1>7. asking # {} =>
         last \in asking /\ \A m \in asking : m <= last
  <2>1. asking # {} => \E n \in asking : \A m \in asking : m <= n
    BY <1>1, <1>5, LastExists
  <2> QED
    BY <2>1
<1> HIDE DEF last, v, Adds
\* One that asks for the whole keyring is of an identity that is not committed.
<1>8. ASSUME NEW n \in 1 .. Len(rs), rs[n].key = i
      PROVE  /\ rs[n].id = MANAGER /\ rs[n].value = EmptyMap /\ c[i] = EMPTY
             /\ n + 1 \in 1 .. Len(rs)
             /\ rs[n + 1].id = i /\ rs[n + 1].key = OpKey[i]
  BY <1>1, <1>8 DEF WellFormedAt
<1>9. CASE asking = {}
  <2>1. ~ \E n \in 1 .. Len(rs) : Adds(rs[n])
    BY <1>4, <1>9
  <2> QED
    BY <1>3, <1>6, <1>9, <2>1 DEF v
<1>10. CASE asking # {} /\ Adds(rs[last])
  <2>1. last \in 1 .. Len(rs) /\ rs[last].id = i
    BY <1>5, <1>7, <1>10 DEF Adds
  <2>2. rs[last].value = PRESENT
    BY <1>1, <2>1 DEF WellFormedAt
  <2>3. Settling!Asked(rs[last], f) = PRESENT
    BY <2>1, <2>2 DEF Settling!Asked
  <2> QED
    BY <1>3, <1>6, <1>10, <2>1, <2>3 DEF v
<1>11. CASE asking # {} /\ ~Adds(rs[last])
  <2>1. last \in 1 .. Len(rs) /\ rs[last].key = i
    BY <1>4, <1>5, <1>7, <1>11
  <2>2. /\ rs[last].id = MANAGER /\ rs[last].value = EmptyMap /\ c[i] = EMPTY
        /\ last + 1 \in 1 .. Len(rs)
        /\ rs[last + 1].id = i /\ rs[last + 1].key = OpKey[i]
    BY <1>8, <2>1
  <2>3. ~ \E n \in 1 .. Len(rs) : Adds(rs[n])
    <3> SUFFICES ASSUME NEW n \in 1 .. Len(rs), Adds(rs[n])
                 PROVE  FALSE
      OBVIOUS
    <3>1. f = OpKey[i]
      BY <1>1, <2>2 DEF WellFormedAt, Adds
    <3>2. last + 1 \in asking
      BY <1>4, <2>2, <3>1 DEF Adds
    <3> QED
      BY <1>7, <1>11, <2>1, <3>2
  <2>4. Settling!Asked(rs[last], f) = EMPTY /\ v = EMPTY
    BY <2>2 DEF Settling!Asked, Settling!Leaf, v, EmptyMap
  <2> QED
    BY <1>3, <1>6, <1>11, <2>3, <2>4 DEF v
<1> QED
  BY <1>9, <1>10, <1>11

\* Every element of a sequence is one of any other with the same elements.
LEMMA SameElements ==
    ASSUME NEW s, NEW t, ElementsOf(s) = ElementsOf(t), NEW n \in 1 .. Len(s)
    PROVE  \E m \in 1 .. Len(t) : t[m] = s[n]
<1>1. s[n] \in ElementsOf(s)
  BY DEF ElementsOf
<1>2. s[n] \in ElementsOf(t)
  BY <1>1
<1> QED
  BY <1>2 DEF ElementsOf

\* What the runner commits is what the requests make of the commitment.
LEMMA CommitsRequests ==
    ASSUME NEW maps \in Maps, NEW rs, NEW ps \in Seq(Requests),
           NEW c \in Commitments, AreRequests(rs, ElementsOf(ps), c),
           Agree(maps), HoldsRequests(maps, ps, Len(ps), c)
    PROVE  maps.mgr = Settling!AfterRequests(rs, c)
<1> USE KeyFacts
<1> DEFINE new == Settling!AfterRequests(rs, c)
           Renewed(s) == c[s] # EMPTY \/ \E n \in 1 .. Len(rs) : rs[n].key = s
<1>1. maps.mgr \in Commitments
  BY DEF Maps, MapsOf
<1>2. new = [s \in Level2 |->
                IF s \in Ids /\ Renewed(s)
                THEN [f \in Factors |->
                        Settling!RequestedLeaf(rs, s, f, Settling!Leaf(c, s, f))]
                ELSE c[s]]
  BY DEF Settling!AfterRequests, Settling!Level2, Level2
<1>3. ElementsOf(rs) = ElementsOf(ps) /\ Announced(ElementsOf(ps), c)
  BY DEF AreRequests
<1>4. ASSUME NEW i \in Ids
      PROVE  Renewed(i) <=> maps.stores[i] # NULL
  <2>1. (\E n \in 1 .. Len(rs) : rs[n].key = i) <=>
           \E n \in 1 .. Len(ps) : ps[n].key = i
    <3>1. /\ \A n \in 1 .. Len(rs) : \E m \in 1 .. Len(ps) : ps[m] = rs[n]
          /\ \A n \in 1 .. Len(ps) : \E m \in 1 .. Len(rs) : rs[m] = ps[n]
      <4>1. ElementsOf(ps) = ElementsOf(rs)
        BY <1>3
      <4> QED
        BY <1>3, <4>1, SameElements
    <3> QED
      BY <3>1, Zenon
  <2>2. c[i] = EMPTY /\ (\E n \in 1 .. Len(ps) : ps[n].id = i) =>
           \E n \in 1 .. Len(ps) : ps[n].key = i
    BY <1>3 DEF Announced, ElementsOf
  <2> QED
    BY <2>1, <2>2 DEF HoldsRequests, IsRequested
<1> HIDE DEF Renewed, new
<1>5. ASSUME NEW s \in Level2
      PROVE  maps.mgr[s] = new[s]
  <2>1. CASE s \notin Ids
    BY <1>2, <2>1 DEF HoldsRequests
  <2>2. CASE s \in Ids /\ ~Renewed(s)
    <3>1. maps.stores[s] = NULL
      BY <1>4, <2>2
    <3>2. maps.mgr[s] = EMPTY
      BY <1>1, <2>2, <3>1 DEF Agree, AgreesOn, Commitments
    <3>3. c[s] = EMPTY
      BY <2>2 DEF Renewed
    <3> QED
      BY <1>2, <2>2, <3>2, <3>3
  <2>3. CASE s \in Ids /\ Renewed(s)
    <3>1. maps.stores[s] # NULL
      BY <1>4, <2>3
    <3>2. maps.mgr[s] \in Keyrings /\ maps.stores[s] = maps.mgr[s]
      BY <1>1, <2>3, <3>1 DEF Agree, AgreesOn, Commitments
    <3>3. ASSUME NEW f \in Factors
          PROVE  maps.mgr[s][f] =
                    Settling!RequestedLeaf(rs, s, f, Settling!Leaf(c, s, f))
      <4>1. MapFor(maps.stores, s) = maps.mgr[s]
        BY <3>1, <3>2 DEF MapFor
      <4>2. MapFor(maps.stores, s)[f] = LeafAfter(ps, Len(ps), c, s, f)
        BY <2>3 DEF HoldsRequests
      <4> QED
        BY <2>3, <4>1, <4>2, LeafIsRequested
    <3>4. maps.mgr[s] = [f \in Factors |-> maps.mgr[s][f]]
      BY <3>2 DEF Keyrings
    <3> QED
      BY <1>2, <2>3, <3>3, <3>4
  <2> QED
    BY <2>1, <2>2, <2>3
<1>6. maps.mgr = [s \in Level2 |-> maps.mgr[s]] /\ new = [s \in Level2 |-> new[s]]
  BY <1>1, <1>2 DEF Commitments
<1> QED
  BY <1>5, <1>6 DEF new

-----------------------------------------------------------------------------
(***************************************************************************)
(* Steps of the example.                                                   *)
(***************************************************************************)
LEMMA ElementsTogether ==
    ASSUME NEW S, NEW s \in Seq(S), NEW t \in Seq(S)
    PROVE  ElementsOf(s \o t) = ElementsOf(s) \cup ElementsOf(t)
<1> DEFINE k   == Len(s)
           l   == Len(t)
           all == s \o t
<1>1. /\ Len(all) = k + l /\ k \in Nat /\ l \in Nat
      /\ \A n \in 1 .. k : all[n] = s[n]
      /\ \A n \in 1 .. l : all[k + n] = t[n]
  OBVIOUS
<1> HIDE DEF k, l, all
<1>2. ASSUME NEW e \in ElementsOf(all)
      PROVE  e \in ElementsOf(s) \cup ElementsOf(t)
  <2>1. PICK n \in 1 .. Len(all) : e = all[n]
    BY DEF ElementsOf
  <2>2. CASE n <= k
    <3>1. n \in 1 .. k /\ e = s[n]
      BY <1>1, <2>1, <2>2
    <3> QED
      BY <3>1 DEF ElementsOf, k
  <2>3. CASE k < n
    <3>1. n - k \in 1 .. l /\ n = k + (n - k)
      BY <1>1, <2>3
    <3>2. e = t[n - k]
      BY <1>1, <2>1, <3>1
    <3> QED
      BY <3>1, <3>2 DEF ElementsOf, l
  <2> QED
    BY <1>1, <2>2, <2>3
<1>3. ASSUME NEW e \in ElementsOf(s)
      PROVE  e \in ElementsOf(all)
  <2>1. PICK n \in 1 .. k : e = s[n]
    BY DEF ElementsOf, k
  <2>2. n \in 1 .. Len(all) /\ e = all[n]
    BY <1>1, <2>1
  <2> QED
    BY <2>2 DEF ElementsOf
<1>4. ASSUME NEW e \in ElementsOf(t)
      PROVE  e \in ElementsOf(all)
  <2>1. PICK n \in 1 .. l : e = t[n]
    BY DEF ElementsOf, l
  <2>2. k + n \in 1 .. Len(all) /\ e = all[k + n]
    BY <1>1, <2>1
  <2> QED
    BY <2>2 DEF ElementsOf
<1> QED
  BY <1>2, <1>3, <1>4 DEF all

LEMMA NoRequests ==
    ASSUME NEW c
    PROVE  AreRequests(<<>>, ElementsOf(<<>>), c)
<1>1. ElementsOf(<<>>) = {}
  BY EmptySeq DEF ElementsOf
<1>2. Announced({}, c)
  BY DEF Announced
<1>3. <<>> \in Seq(Requests) /\ WellFormed(<<>>, c)
  BY EmptySeq DEF WellFormed
<1> QED
  BY <1>1, <1>2, <1>3 DEF AreRequests

\* The requests of one more transaction.
LEMMA RequestsJoin ==
    ASSUME NEW rs, NEW E, NEW c, AreRequests(rs, E, c),
           NEW es \in Seq(Requests), WellFormed(es, c),
           Announced(ElementsOf(es), c)
    PROVE  AreRequests(rs \o es, ElementsOf(es) \cup E, c)
<1>1. rs \in Seq(Requests) /\ WellFormed(rs, c) /\ ElementsOf(rs) = E
      /\ Announced(E, c)
  BY DEF AreRequests
<1>2. rs \o es \in Seq(Requests) /\ WellFormed(rs \o es, c)
  BY <1>1, WellFormedTogether
<1>3. ElementsOf(rs \o es) = ElementsOf(es) \cup E
  BY <1>1, ElementsTogether
<1>4. Announced(ElementsOf(es) \cup E, c)
  BY <1>1 DEF Announced
<1> QED
  BY <1>2, <1>3, <1>4 DEF AreRequests

\* A transaction is of one or two requests, made on the commitment.
IsTransaction(es, c) ==
    /\ RequestEvents(es, c)
    /\ Announced(ElementsOf(es), c)
    /\ Len(es) \in 1 .. 2
    /\ \A n \in 1 .. Len(es) : es[n].commitmentPending = c

LEMMA AddIdentityRequests ==
    ASSUME NEW i \in Ids, NEW c \in Commitments, c[i] = EMPTY
    PROVE  IsTransaction(ExampleIdentityEvents(i, c), c)
<1> DEFINE e1 == EventStoragePending(c, MANAGER, i, EmptyMap, NoMeta)
           e2 == EventStoragePending(c, i, OpKey[i], PRESENT,
                                     <<PRESENT, PROTOCOL, EMPTY>>)
           es == <<e1, e2>>
<1>1. /\ e1.id = MANAGER /\ e1.key = i /\ e2.id = i
      /\ e1.commitmentPending = c /\ e2.commitmentPending = c
  BY DEF EventStoragePending
<1> HIDE DEF e1, e2
<1>2. Len(es) = 2 /\ es[1] = e1 /\ es[2] = e2
  OBVIOUS
<1>3. es = ExampleIdentityEvents(i, c)
  BY DEF ExampleIdentityEvents, e1, e2
<1> HIDE DEF es
<1>4. \A n : n \in 1 .. Len(es) <=> n = 1 \/ n = 2
  BY <1>2
<1>5. ElementsOf(es) = {e1, e2}
  BY <1>2, <1>4 DEF ElementsOf
<1>6. Announced(ElementsOf(es), c)
  BY <1>1, <1>5, KeyFacts DEF Announced
<1>7. RequestEvents(es, c)
  BY <1>3, AddIdentityWellFormed
<1> QED
  BY <1>1, <1>2, <1>3, <1>4, <1>6, <1>7 DEF IsTransaction

LEMMA AddAuthNFactorRequests ==
    ASSUME NEW i \in Ids, NEW f \in Enrols[i], NEW c \in Commitments,
           c[i] # EMPTY
    PROVE  IsTransaction(AddAuthNFactorEvents(i, f, c), c)
<1> DEFINE e  == EventStoragePending(c, i, f, PRESENT,
                                     <<PROTOCOL, PROTOCOL, EMPTY>>)
           es == <<e>>
<1>1. e.id = i /\ e.commitmentPending = c
  BY DEF EventStoragePending
<1> HIDE DEF e
<1>2. Len(es) = 1 /\ es[1] = e
  OBVIOUS
<1>3. es = AddAuthNFactorEvents(i, f, c)
  BY DEF AddAuthNFactorEvents, e
<1> HIDE DEF es
<1>4. \A n : n \in 1 .. Len(es) <=> n = 1
  BY <1>2
<1>5. ElementsOf(es) = {e}
  BY <1>2, <1>4 DEF ElementsOf
<1>6. Announced(ElementsOf(es), c)
  BY <1>1, <1>5 DEF Announced
<1>7. RequestEvents(es, c)
  BY <1>3, AddAuthNFactorWellFormed
<1>8. Len(es) \in 1 .. 2 /\ \A n \in 1 .. Len(es) : es[n].commitmentPending = c
  BY <1>1, <1>2, <1>4
<1>9. IsTransaction(es, c)
  BY <1>6, <1>7, <1>8 DEF IsTransaction
<1> QED
  BY <1>3, <1>9

\* A transaction makes requests of Settlement.
LEMMA TransactionRequests ==
    ASSUME NEW rs \in Seq(Requests), NEW es \in Seq(Requests),
           NEW c, IsTransaction(es, c)
    PROVE  \E n \in 1 .. 2 :
              /\ Len(rs \o es) = Len(rs) + n
              /\ SubSeq(rs \o es, 1, Len(rs)) = rs
              /\ \A m \in Len(rs) + 1 .. Len(rs) + n :
                    (rs \o es)[m].commitmentPending = c
<1> DEFINE k   == Len(rs)
           l   == Len(es)
           all == rs \o es
<1>1. /\ all \in Seq(Requests) /\ Len(all) = k + l
      /\ k \in Nat /\ l \in Nat
      /\ \A n \in 1 .. k : all[n] = rs[n]
      /\ \A n \in 1 .. l : all[k + n] = es[n]
  OBVIOUS
<1>2. l \in 1 .. 2 /\ \A n \in 1 .. l : es[n].commitmentPending = c
  BY DEF IsTransaction
<1>3. SubSeq(all, 1, k) = rs
  <2> DEFINE first == SubSeq(all, 1, k)
  <2> HIDE DEF k, l, all
  <2>1. \A n \in 1 .. k : all[n] \in Requests
    BY <1>1, ElementOfSeq
  <2>2. /\ first \in Seq(Requests)
        /\ Len(first) = IF 1 <= k THEN k - 1 + 1 ELSE 0
        /\ \A n \in 1 .. k - 1 + 1 : first[n] = all[1 + n - 1]
    BY <1>1, <2>1, SubSeqProperties
  <2> HIDE DEF first
  <2>3. Len(first) = k
    BY <1>1, <2>2
  <2>4. \A n \in 1 .. k : first[n] = rs[n]
    <3>1. \A n \in 1 .. k : n \in 1 .. k - 1 + 1 /\ 1 + n - 1 = n
      BY <1>1
    <3> QED
      BY <1>1, <2>2, <3>1
  <2>5. first = rs
    BY <2>2, <2>3, <2>4, SeqEqual DEF k
  <2> QED
    BY <2>5 DEF first
<1>4. ASSUME NEW m \in k + 1 .. k + l
      PROVE  all[m].commitmentPending = c
  <2> HIDE DEF k, l, all
  <2>1. m - k \in 1 .. l /\ m = k + (m - k)
    BY <1>1
  <2> QED
    BY <1>1, <1>2, <2>1
<1> HIDE DEF k, l, all
<1> QED
  BY <1>1, <1>2, <1>3, <1>4 DEF k, all

\* What a step has to show.
Simulated ==
    RequestInv' /\ [Settling!SettlementNext]_(Settling!settlementVars)

\* A transaction of requests is a request of Settlement.
LEMMA TransactionStep ==
    ASSUME StepInv, RequestInv, pc = "ready",
           NEW es, IsTransaction(es, commitment), Emit(es),
           UNCHANGED <<commitment, numEvents, runner, storage, pending, todo,
                       assertion, authorized>>
    PROVE  Simulated
<1>1. numEvents = Len(archive) /\ archive \in Seq(Events)
  BY DEF StepInv, Phases, TypeOK
<1>2. archive # <<>> /\ IsClosed(archive, 1)
  BY DEF RequestInv
<1>3. /\ es \in Seq(Requests) /\ es \in Seq(Events) /\ es # <<>>
      /\ WellFormed(es, commitment) /\ Announced(ElementsOf(es), commitment)
      /\ es[Len(es)].type = "storage:pending"
  <2>1. Requests \subseteq Events
    BY DEF Requests, Events
  <2> QED
    BY <2>1, SeqMonotonic DEF IsTransaction, RequestEvents
<1>4. archive' = archive \o es /\ pc' = "events"
  BY DEF Emit
<1>5. NewEvents' = es /\ LastType' = "storage:pending"
  BY <1>1, <1>3, <1>4, Emitted
<1>6. OpenRequests' = OpenRequests \o es
  BY <1>1, <1>2, <1>3, <1>4, RequestsAppended DEF OpenRequests
<1>7. AreRequests(OpenRequests, ElementsOf(pending), commitment)
  BY DEF RequestInv
<1>8. AreRequests(OpenRequests \o es, ElementsOf(es) \cup ElementsOf(pending),
                  commitment)
  BY <1>3, <1>7, RequestsJoin
<1>9. archive' # <<>> /\ IsClosed(archive', 1)
  <2>1. Len(archive) \in Nat /\ 1 \in 1 .. Len(archive)
    BY <1>1, <1>2, EmptySeq
  <2>2. archive'[1] = archive[1] /\ Len(archive') # 0
    BY <1>1, <1>3, <1>4, <2>1
  <2> QED
    BY <1>2, <2>2, EmptySeq DEF IsClosed
<1>10. RequestInv'
  BY <1>4, <1>5, <1>6, <1>8, <1>9 DEF RequestInv
<1>11. Settling!Request
  <2>1. OpenRequests \in Seq(Requests)
    BY <1>7 DEF AreRequests
  <2>2. \E n \in 1 .. 2 :
           /\ Len(OpenRequests \o es) = Len(OpenRequests) + n
           /\ SubSeq(OpenRequests \o es, 1, Len(OpenRequests)) = OpenRequests
           /\ \A m \in Len(OpenRequests) + 1 .. Len(OpenRequests) + n :
                 (OpenRequests \o es)[m].commitmentPending = commitment
    BY <1>3, <2>1, TransactionRequests
  <2> QED
    BY <1>6, <2>2 DEF Settling!Request
<1> QED
  BY <1>10, <1>11 DEF Simulated, Settling!SettlementNext

\* A step that makes and settles no request.
LEMMA OtherSimulated ==
    ASSUME RequestInv', UNCHANGED <<commitment, archive>>
    PROVE  Simulated
<1>1. OpenRequests' = OpenRequests
  BY DEF OpenRequests
<1> QED
  BY <1>1 DEF Simulated, Settling!settlementVars

LEMMA ProcessEventsSimulates ==
    ASSUME StepInv, RequestInv, ProcessEvents
    PROVE  Simulated
<1>1. /\ pc = "events" /\ (Deployed \/ Requested \/ Committed)
      /\ pending \in Seq(Requests)
  BY DEF StepInv, Phases, ProcessEvents, TypeOK, Requests
<1>2. UNCHANGED <<commitment, archive>>
  BY DEF ProcessEvents
<1>3. OpenRequests' = OpenRequests /\ archive' # <<>> /\ IsClosed(archive', 1)
  BY <1>2 DEF RequestInv, OpenRequests
<1>4. CASE Deployed
  <2>1. pc' = "ready" /\ pending' = <<>>
    BY <1>4 DEF Deployed, LastType, ProcessEvents
  <2>2. OpenRequests = <<>>
    BY <1>1, <1>4 DEF RequestInv, Deployed
  <2>3. AreRequests(OpenRequests, ElementsOf(<<>>), commitment)
    BY <2>2, NoRequests
  <2>4. RequestInv'
    BY <1>2, <1>3, <2>1, <2>3 DEF RequestInv
  <2> QED
    BY <1>2, <2>4, OtherSimulated
<1>5. CASE Requested
  <2>1. pc' = "ready" /\ pending' = NewEvents \o pending
    BY <1>5 DEF Requested, LastType, ProcessEvents, Unshifted
  <2>2. AreRequests(OpenRequests,
                    ElementsOf(NewEvents) \cup ElementsOf(pending), commitment)
    BY <1>1, <1>5 DEF RequestInv, Requested
  <2>3. ElementsOf(pending') = ElementsOf(NewEvents) \cup ElementsOf(pending)
    BY <1>1, <1>5, <2>1, ElementsTogether DEF Requested
  <2>4. RequestInv'
    BY <1>2, <1>3, <2>1, <2>2, <2>3 DEF RequestInv
  <2> QED
    BY <1>2, <2>4, OtherSimulated
<1>6. CASE Committed
  <2>1. pc' = "storage"
    BY <1>6 DEF Committed, LastType, ProcessEvents
  <2>2. OpenRequests = <<>>
    BY <1>1, <1>6 DEF RequestInv, Committed
  <2>3. RequestInv'
    BY <1>3, <2>1, <2>2 DEF RequestInv
  <2> QED
    BY <1>2, <2>3, OtherSimulated
<1> QED
  BY <1>1, <1>4, <1>5, <1>6

LEMMA PrepareCommitSimulates ==
    ASSUME StepInv, RequestInv, PrepareCommit
    PROVE  Simulated
<1>1. Synced /\ TypeOK
  BY DEF StepInv, Phases, PrepareCommit
<1>2. /\ UNCHANGED <<commitment, archive, runner, pending>>
      /\ pending # <<>> /\ pc = "ready" /\ pc' = "runner"
  BY DEF PrepareCommit
<1>3. Done' = 0
  BY <1>1 DEF PrepareCommit, Done, TypeOK
<1>4. HoldsRequests(runner, pending, 0, commitment)
  BY <1>1, SyncedTypes, HoldsAtStart DEF Synced
<1>5. OpenRequests' = OpenRequests /\ archive' # <<>> /\ IsClosed(archive', 1)
  BY <1>2 DEF RequestInv, OpenRequests
<1>6. AreRequests(OpenRequests, ElementsOf(pending), commitment)
  BY <1>2 DEF RequestInv
<1>7. RequestInv'
  BY <1>2, <1>3, <1>4, <1>5, <1>6 DEF RequestInv
<1> QED
  BY <1>2, <1>7, OtherSimulated

LEMMA ProcessPendingSimulates ==
    ASSUME StepInv, RequestInv, ProcessPending
    PROVE  Simulated
<1>1. UNCHANGED <<commitment, archive, pending, pc>>
  BY DEF ProcessPending
<1>2. OpenRequests' = OpenRequests /\ archive' # <<>> /\ IsClosed(archive', 1)
  BY <1>1 DEF RequestInv, OpenRequests
<1>3. CASE pc = "runner"
  <2>1. Running /\ TypeOK
    BY <1>3 DEF StepInv, Phases
  <2>2. /\ todo # <<>> /\ todo' = Tail(todo)
        /\ runner' = Processed(runner, Head(todo))
    BY <1>3 DEF ProcessPending
  <2>3. /\ pending \in Seq(Requests) /\ Done \in Nat
        /\ Done + 1 \in 1 .. Len(pending)
        /\ Head(todo) = pending[Done + 1] /\ Done' = Done + 1
    BY <1>1, <2>1, <2>2, NextTodo DEF Running
  <2>4. /\ runner \in Maps /\ commitment \in Commitments
        /\ WellFormed(pending, commitment)
    BY <2>1 DEF TypeOK, Maps, Running
  <2>5. /\ pending # <<>> /\ HoldsRequests(runner, pending, Done, commitment)
        /\ AreRequests(OpenRequests, ElementsOf(pending), commitment)
    BY <1>3 DEF RequestInv
  <2>6. HoldsRequests(Processed(runner, pending[Done + 1]), pending, Done + 1,
                      commitment)
    BY <2>3, <2>4, <2>5, HoldsStep
  <2>7. RequestInv'
    BY <1>1, <1>2, <1>3, <2>2, <2>3, <2>5, <2>6 DEF RequestInv
  <2> QED
    BY <1>1, <2>7, OtherSimulated
<1>4. CASE pc = "storage"
  <2>1. OpenRequests = <<>>
    BY <1>4 DEF RequestInv
  <2>2. RequestInv'
    BY <1>1, <1>2, <1>4, <2>1 DEF RequestInv
  <2> QED
    BY <1>1, <2>2, OtherSimulated
<1> QED
  BY <1>3, <1>4 DEF ProcessPending

LEMMA CommitProcessedSimulates ==
    ASSUME RequestInv, CommitProcessed
    PROVE  Simulated
<1>1. /\ UNCHANGED <<commitment, archive>> /\ pending' = <<>>
      /\ pc = "storage" /\ pc' = "ready"
  BY DEF CommitProcessed
<1>2. OpenRequests' = <<>> /\ archive' # <<>> /\ IsClosed(archive', 1)
  BY <1>1 DEF RequestInv, OpenRequests
<1>3. AreRequests(<<>>, ElementsOf(<<>>), commitment)
  BY NoRequests
<1>4. RequestInv'
  BY <1>1, <1>2, <1>3 DEF RequestInv
<1> QED
  BY <1>1, <1>4, OtherSimulated

\* A commit settles the requests.
LEMMA CommitSimulates ==
    ASSUME StepInv, RequestInv, Commit
    PROVE  Simulated
<1>1. Running /\ TypeOK /\ todo = <<>> /\ pc = "runner"
  BY DEF StepInv, Phases, Commit
<1>2. /\ archive \in Seq(Events) /\ numEvents = Len(archive)
      /\ archive # <<>> /\ IsClosed(archive, 1)
      /\ runner \in Maps /\ runner.mgr \in Commitments
      /\ commitment \in Commitments
      /\ pending \in Seq(Requests) /\ pending # <<>>
  BY <1>1 DEF StepInv, Phases, TypeOK, Maps, MapsOf, Requests, RequestInv
<1>3. Done = Len(pending)
  BY <1>1, <1>2, EmptySeq DEF Done
<1>4. /\ HoldsRequests(runner, pending, Len(pending), commitment)
      /\ AreRequests(OpenRequests, ElementsOf(pending), commitment)
  BY <1>1, <1>3 DEF RequestInv
<1>5. Agree(runner)
  BY <1>1, <1>2, <1>3, AgreeAtEnd DEF Running
<1>6. commitment' = Settling!AfterRequests(OpenRequests, commitment)
  BY <1>2, <1>4, <1>5, CommitsRequests DEF Commit
<1>7. OpenRequests # <<>>
  <2>1. 1 \in 1 .. Len(pending)
    BY <1>2, EmptySeq
  <2>2. ElementsOf(OpenRequests) # {}
    BY <1>4, <2>1 DEF AreRequests, ElementsOf
  <2> QED
    BY <2>2, EmptySeq DEF ElementsOf
<1> DEFINE e == EventStorageCommit(commitment, runner.mgr)
<1>8. e \in CommitEvents /\ e.type = "storage:commit"
  BY <1>2 DEF EventStorageCommit, CommitEvents
<1>9. archive' = archive \o <<e>> /\ pc' = "events" /\ UNCHANGED numEvents
  BY DEF Commit, Emit
<1> HIDE DEF e
<1>10. OpenRequests' = <<>>
  BY <1>2, <1>8, <1>9, RequestsCommitted DEF OpenRequests
<1>11. LastType' = "storage:commit"
  <2>1. e \in Events /\ <<e>> \in Seq(Events) /\ <<e>> # <<>>
        /\ <<e>>[Len(<<e>>)].type = "storage:commit"
    BY <1>8 DEF Events
  <2> QED
    BY <1>2, <1>9, <2>1, Emitted
<1>12. archive' # <<>> /\ IsClosed(archive', 1)
  <2>1. Len(archive) \in Nat /\ 1 \in 1 .. Len(archive)
    BY <1>2, EmptySeq
  <2>2. archive'[1] = archive[1] /\ Len(archive') # 0
    BY <1>2, <1>9, <2>1
  <2> QED
    BY <1>2, <2>2, EmptySeq DEF IsClosed
<1>13. RequestInv'
  BY <1>9, <1>10, <1>11, <1>12 DEF RequestInv
<1>14. Settling!Settle
  BY <1>6, <1>7, <1>10 DEF Settling!Settle
<1> QED
  BY <1>13, <1>14 DEF Simulated, Settling!SettlementNext

\* A step of none of the variables that RequestInv is about.
LEMMA FrameSimulates ==
    ASSUME RequestInv,
           UNCHANGED <<commitment, archive, numEvents, runner, pending, todo, pc>>
    PROVE  Simulated
<1>1. RequestInv'
  BY DEF RequestInv, OpenRequests, NewEvents, LastType, Done
<1> QED
  BY <1>1, OtherSimulated

-----------------------------------------------------------------------------
(***************************************************************************)
(* The theorem.                                                            *)
(***************************************************************************)
LEMMA RequestInit == Init => RequestInv /\ Settling!SettlementInit
<1> SUFFICES ASSUME Init PROVE RequestInv /\ Settling!SettlementInit
  OBVIOUS
<1> DEFINE e == EventStorageCreate(MANAGER, NoIdentities)
<1>1. e \in Events /\ e.type = "storage:create"
  BY KeyFacts DEF EventStorageCreate, Events, CreateEvents
<1>2. archive = <<e>>
  BY DEF Init
<1> HIDE DEF e
<1>3. archive \in Seq(Events) /\ Len(archive) = 1 /\ archive[1] = e
  BY <1>1, <1>2
<1>4. archive # <<>> /\ IsClosed(archive, 1) /\ LastType = "storage:create"
  BY <1>1, <1>3, EmptySeq DEF IsClosed, LastType
<1>5. OpenRequests = <<>>
  <2>1. 1 \in 1 .. Len(archive) /\ \A n \in 1 + 1 .. Len(archive) : ~IsClosed(archive, n)
    BY <1>3
  <2>2. OpenRequests = SubSeq(archive, 1 + 1, Len(archive))
    BY <1>3, <1>4, <2>1, RequestsFrom DEF OpenRequests
  <2>3. 1 + 1 \in Int /\ Len(archive) \in Int /\ Len(archive) < 1 + 1
    BY <1>3
  <2> QED
    BY <2>2, <2>3, SubSeqEmpty
<1>6. RequestInv
  BY <1>4, <1>5 DEF Init, RequestInv
<1>7. Settling!NoIdentities = NoIdentities
  BY DEF Settling!NoIdentities, NoIdentities, Settling!Level2, Level2
<1> QED
  BY <1>5, <1>6, <1>7 DEF Init, Settling!SettlementInit

LEMMA RequestStepSimulates ==
    StepInv /\ RequestInv /\ [Next]_vars => Simulated
<1> SUFFICES ASSUME StepInv, RequestInv, [Next]_vars PROVE Simulated
  OBVIOUS
<1>1. CASE ProcessEvents
  BY <1>1, ProcessEventsSimulates
<1>2. CASE ProcessPending
  BY <1>2, ProcessPendingSimulates
<1>3. CASE CommitProcessed
  BY <1>3, CommitProcessedSimulates
<1>4. ASSUME NEW i \in Ids, AddIdentity(i)
      PROVE  Simulated
  <2>1. Synced /\ TypeOK /\ pc = "ready"
    BY <1>4 DEF StepInv, Phases, AddIdentity
  <2>2. commitment[i] = EMPTY /\ commitment \in Commitments
    BY <1>4, <2>1, SyncedTypes, KeyFacts
    DEF AddIdentity, AddStoreAsserts, Maps, MapsOf, Commitments
  <2>3. IsTransaction(ExampleIdentityEvents(i, commitment), commitment)
    BY <2>2, AddIdentityRequests
  <2> QED
    BY <1>4, <2>1, <2>3, TransactionStep DEF AddIdentity
<1>5. ASSUME NEW i \in Ids, AssertIdentity(i)
      PROVE  Simulated
  BY <1>5, FrameSimulates DEF AssertIdentity
<1>6. ASSUME NEW f \in Factors, AddAuthNFactor(f)
      PROVE  Simulated
  <2>1. TypeOK /\ pc = "ready" /\ Accepted(f) /\ f \in Enrols[assertion.id]
    BY <1>6 DEF StepInv, AddAuthNFactor
  <2>2. /\ assertion.id \in Ids /\ commitment[assertion.id] # EMPTY
        /\ commitment \in Commitments
    BY <2>1 DEF Accepted, TypeOK, StepInv, AssertionOK, Assertions
  <2>3. IsTransaction(AddAuthNFactorEvents(assertion.id, f, commitment), commitment)
    BY <2>1, <2>2, AddAuthNFactorRequests
  <2> QED
    BY <1>6, <2>1, <2>3, TransactionStep DEF AddAuthNFactor
<1>7. CASE PrepareCommit
  BY <1>7, PrepareCommitSimulates
<1>8. CASE Commit
  BY <1>8, CommitSimulates
<1>9. ASSUME NEW i \in Ids, NEW f \in Factors, RequireAuth(i, f)
      PROVE  Simulated
  BY <1>9, FrameSimulates DEF RequireAuth
<1>10. CASE UNCHANGED vars
  BY <1>10, FrameSimulates DEF vars
<1> QED
  BY <1>1, <1>2, <1>3, <1>4, <1>5, <1>6, <1>7, <1>8, <1>9, <1>10 DEF Next

\* The example implements Settlement: each commit settles the requests made
\* since the one before, all of them, in the order they were made, and nothing
\* else.
THEOREM ExampleSettles == Spec => ImplementsSettlement
<1>1. Init => RequestInv /\ Settling!SettlementInit
  BY RequestInit
<1>2. StepInv /\ RequestInv /\ [Next]_vars =>
         RequestInv' /\ [Settling!SettlementNext]_(Settling!settlementVars)
  BY RequestStepSimulates DEF Simulated
<1>3. Spec => [](StepInv /\ AuthorizedByMember)
  BY ExampleInvariant
<1> QED
  BY <1>1, <1>2, <1>3, PTL DEF Spec, ImplementsSettlement, Settling!SettlementSpec

-----------------------------------------------------------------------------
(***************************************************************************)
(* The commit with a recursive proof: the steps of the rollup go the way of*)
(* the runner, as long as no identity is requested twice, and the second   *)
(* request of one has no step.                                             *)
(***************************************************************************)

\* a[n] is the step of the rollup for event n of es, and the maps after it.
IsRollup(a, maps, es, m) ==
    a = [n \in 1 .. m |-> StepOf(IF n = 1 THEN maps ELSE a[n - 1].maps, es[n])]

\* g[n] merges the first n of the proofs ps.
IsMerged(g, ps, m) ==
    g = [n \in 1 .. m |->
            IF n = 1 THEN ps[1] ELSE CreateMerged(g[n - 1], ps[n])]

\* The steps of a rollup exist ...
LEMMA StepsExist ==
    ASSUME NEW maps, NEW es, NEW m \in Nat
    PROVE  \E a : IsRollup(a, maps, es, m)
<1> DEFINE T == {n \in 1 .. m : ~\E a : IsRollup(a, maps, es, n)}
<1>1. \E a : IsRollup(a, maps, es, 0)
  <2> DEFINE a == [n \in 1 .. 0 |-> maps]
  <2>1. 1 .. 0 = {}
    OBVIOUS
  <2>2. a = [n \in 1 .. 0 |-> StepOf(IF n = 1 THEN maps ELSE a[n - 1].maps, es[n])]
    BY <2>1
  <2> HIDE DEF a
  <2> QED  BY <2>2 DEF IsRollup
<1>2. CASE T = {}
  BY <1>1, <1>2
<1>3. CASE T # {}
  <2>1. PICK n \in T : \A k \in T : n <= k
    <3>1. T \in SUBSET (1 .. m)
      OBVIOUS
    <3> HIDE DEF T
    <3> QED  BY <1>3, <3>1, FirstExists
  <2>2. n \in 1 .. m /\ n - 1 \in 0 .. m /\ ~(n <= n - 1)
    BY <2>1
  <2>3. n - 1 = 0 \/ (n - 1 \in 1 .. m /\ n - 1 \notin T)
    BY <2>1, <2>2
  <2>4. PICK a : IsRollup(a, maps, es, n - 1)
    BY <1>1, <2>3
  <2> DEFINE last == StepOf(IF n = 1 THEN maps ELSE a[n - 1].maps, es[n])
             b == [l \in 1 .. n |-> IF l = n THEN last ELSE a[l]]
  <2>5. ASSUME NEW l \in 1 .. n
        PROVE  b[l] = StepOf(IF l = 1 THEN maps ELSE b[l - 1].maps, es[l])
    <3>1. l # 1 => b[l - 1] = a[l - 1]
      BY <2>2
    <3>2. CASE l = n
      BY <3>1, <3>2
    <3>3. CASE l # n
      <4>1. l \in 1 .. n - 1 /\ b[l] = a[l]
        BY <2>2, <3>3
      <4>2. a[l] = StepOf(IF l = 1 THEN maps ELSE a[l - 1].maps, es[l])
        BY <2>4, <4>1 DEF IsRollup
      <4> QED  BY <3>1, <4>1, <4>2
    <3> QED  BY <3>2, <3>3
  <2>6. b = [l \in 1 .. n |-> b[l]]
    OBVIOUS
  <2> HIDE DEF b, last
  <2>7. IsRollup(b, maps, es, n)
    BY <2>5, <2>6 DEF IsRollup
  <2> QED  BY <2>1, <2>7
<1> QED  BY <1>2, <1>3

\* ... and so do their merged proofs.
LEMMA MergedExists ==
    ASSUME NEW ps, NEW m \in Nat
    PROVE  \E g : IsMerged(g, ps, m)
<1> DEFINE T == {n \in 1 .. m : ~\E g : IsMerged(g, ps, n)}
<1>1. \E g : IsMerged(g, ps, 0)
  <2> DEFINE g == [n \in 1 .. 0 |-> ps]
  <2>1. 1 .. 0 = {}
    OBVIOUS
  <2>2. g = [n \in 1 .. 0 |->
                IF n = 1 THEN ps[1] ELSE CreateMerged(g[n - 1], ps[n])]
    BY <2>1
  <2> HIDE DEF g
  <2> QED  BY <2>2 DEF IsMerged
<1>2. CASE T = {}
  BY <1>1, <1>2
<1>3. CASE T # {}
  <2>1. PICK n \in T : \A k \in T : n <= k
    <3>1. T \in SUBSET (1 .. m)
      OBVIOUS
    <3> HIDE DEF T
    <3> QED  BY <1>3, <3>1, FirstExists
  <2>2. n \in 1 .. m /\ n - 1 \in 0 .. m /\ ~(n <= n - 1)
    BY <2>1
  <2>3. n - 1 = 0 \/ (n - 1 \in 1 .. m /\ n - 1 \notin T)
    BY <2>1, <2>2
  <2>4. PICK g : IsMerged(g, ps, n - 1)
    BY <1>1, <2>3
  <2> DEFINE last == IF n = 1 THEN ps[1] ELSE CreateMerged(g[n - 1], ps[n])
             h == [l \in 1 .. n |-> IF l = n THEN last ELSE g[l]]
  <2>5. ASSUME NEW l \in 1 .. n
        PROVE  h[l] = IF l = 1 THEN ps[1] ELSE CreateMerged(h[l - 1], ps[l])
    <3>1. l # 1 => h[l - 1] = g[l - 1]
      BY <2>2
    <3>2. CASE l = n
      BY <3>1, <3>2
    <3>3. CASE l # n
      <4>1. l \in 1 .. n - 1 /\ h[l] = g[l]
        BY <2>2, <3>3
      <4>2. g[l] = IF l = 1 THEN ps[1] ELSE CreateMerged(g[l - 1], ps[l])
        BY <2>4, <4>1 DEF IsMerged
      <4> QED  BY <3>1, <4>1, <4>2
    <3> QED  BY <3>2, <3>3
  <2>6. h = [l \in 1 .. n |-> h[l]]
    OBVIOUS
  <2> HIDE DEF h, last
  <2>7. IsMerged(h, ps, n)
    BY <2>5, <2>6 DEF IsMerged
  <2> QED  BY <2>1, <2>7
<1> QED  BY <1>2, <1>3

StepsOf(maps, es) ==
    LET at[n \in 1 .. Len(es)] ==
            StepOf(IF n = 1 THEN maps ELSE at[n - 1].maps, es[n])
    IN at

MergedOf(ps, es) ==
    LET merged[n \in 1 .. Len(es)] ==
            IF n = 1 THEN ps[1] ELSE CreateMerged(merged[n - 1], ps[n])
    IN merged

ProofsOf(a, es) ==
    [n \in 1 .. Len(es) |-> RollupState(a[n].step.root0, a[n].step.root1)]

\* What the proofs of the steps and of their merging assert.
AllAssert(a, g, ps, es) ==
    /\ \A n \in 1 .. Len(es) : OneStepAsserts(a[n].step)
    /\ \A n \in 2 .. Len(es) : MergeAsserts(g[n], g[n - 1], ps[n])

LEMMA RollupOfParts ==
    ASSUME NEW maps, NEW es
    PROVE  LET a  == StepsOf(maps, es)
               ps == ProofsOf(a, es)
               g  == MergedOf(ps, es)
           IN  RollupOf(maps, es) = [proof    |-> g[Len(es)],
                                     verifies |-> AllAssert(a, g, ps, es)]
BY DEF RollupOf, StepsOf, ProofsOf, MergedOf, AllAssert

LEMMA StepsFacts ==
    ASSUME NEW maps, NEW es, Len(es) \in Nat
    PROVE  IsRollup(StepsOf(maps, es), maps, es, Len(es))
<1>1. \E a : IsRollup(a, maps, es, Len(es))
  BY StepsExist
<1>2. StepsOf(maps, es) = CHOOSE a : IsRollup(a, maps, es, Len(es))
  BY DEF StepsOf, IsRollup
<1> QED  BY <1>1, <1>2, Zenon

LEMMA MergedFacts ==
    ASSUME NEW ps, NEW es, Len(es) \in Nat
    PROVE  IsMerged(MergedOf(ps, es), ps, Len(es))
<1>1. \E g : IsMerged(g, ps, Len(es))
  BY MergedExists
<1>2. MergedOf(ps, es) = CHOOSE g : IsMerged(g, ps, Len(es))
  BY DEF MergedOf, IsMerged
<1> QED  BY <1>1, <1>2, Zenon

\* a[n] is the step of the rollup of es for event n.
IsStepsOf(a, maps, es) ==
    \A n \in 1 .. Len(es) :
        a[n] = StepOf(IF n = 1 THEN maps ELSE a[n - 1].maps, es[n])

\* A rollup of events: its steps follow one another, so that merging them
\* asserts nothing more, and its proof is from the first to the last.
LEMMA RollupFacts ==
    ASSUME NEW maps, NEW es, Len(es) \in Nat, Len(es) >= 1
    PROVE  \E a :
              /\ IsStepsOf(a, maps, es)
              /\ RollupOf(maps, es).verifies
                    <=> \A n \in 1 .. Len(es) : OneStepAsserts(a[n].step)
              /\ RollupOf(maps, es).proof.root0 = maps.mgr
              /\ RollupOf(maps, es).proof.root1 = a[Len(es)].maps.mgr
<1> DEFINE a  == StepsOf(maps, es)
           ps == ProofsOf(a, es)
           g  == MergedOf(ps, es)
           L  == Len(es)
<1>1. \A n \in 1 .. L :
         a[n] = StepOf(IF n = 1 THEN maps ELSE a[n - 1].maps, es[n])
  <2>1. IsRollup(a, maps, es, L)
    BY StepsFacts
  <2> HIDE DEF a
  <2> QED  BY <2>1 DEF IsRollup
<1>2. \A n \in 1 .. L :
         g[n] = IF n = 1 THEN ps[1] ELSE CreateMerged(g[n - 1], ps[n])
  <2>1. IsMerged(g, ps, L)
    <3> HIDE DEF ps
    <3> QED  BY MergedFacts
  <2> HIDE DEF g, ps
  <2> QED  BY <2>1 DEF IsMerged
<1>3. /\ RollupOf(maps, es).proof = g[L]
      /\ RollupOf(maps, es).verifies = AllAssert(a, g, ps, es)
  <2>1. RollupOf(maps, es) = [proof |-> g[L], verifies |-> AllAssert(a, g, ps, es)]
    BY RollupOfParts
  <2> HIDE DEF a, ps, g
  <2> QED  BY <2>1
<1>4. \A n \in 1 .. L :
         ps[n] = RollupState(a[n].step.root0, a[n].step.root1)
  BY DEF ProofsOf
<1> HIDE DEF a, ps, g
<1>5. \A n \in 1 .. L :
         /\ a[n].step.root0 = IF n = 1 THEN maps.mgr ELSE a[n - 1].maps.mgr
         /\ a[n].step.root1 = a[n].maps.mgr
  <2>1. \A mm, e : /\ StepOf(mm, e).step.root0 = mm.mgr
                   /\ StepOf(mm, e).step.root1 = StepOf(mm, e).maps.mgr
    BY DEF StepOf, RollupStep
  <2> QED  BY <1>1, <2>1
<1>6. \A n \in 1 .. L : /\ ps[n].root0 = a[n].step.root0
                        /\ ps[n].root1 = a[n].maps.mgr
  <2>1. \A r0, r1 : RollupState(r0, r1).root0 = r0 /\ RollupState(r0, r1).root1 = r1
    BY DEF RollupState
  <2> SUFFICES ASSUME NEW n \in 1 .. L
               PROVE  ps[n].root0 = a[n].step.root0 /\ ps[n].root1 = a[n].maps.mgr
    OBVIOUS
  <2>2. ps[n] = RollupState(a[n].step.root0, a[n].step.root1)
    BY <1>4
  <2>3. a[n].step.root1 = a[n].maps.mgr
    BY <1>5
  <2> QED  BY <2>1, <2>2, <2>3
<1>7. \A n \in 1 .. L : g[n].root0 = maps.mgr /\ g[n].root1 = a[n].maps.mgr
  <2> DEFINE Bad == {n \in 1 .. L : ~(g[n].root0 = maps.mgr /\ g[n].root1 = a[n].maps.mgr)}
  <2> SUFFICES ASSUME Bad # {} PROVE FALSE
    OBVIOUS
  <2>1. PICK n \in Bad : \A k \in Bad : n <= k
    <3>1. Bad \in SUBSET (1 .. L)
      OBVIOUS
    <3> HIDE DEF Bad
    <3> QED  BY <3>1, FirstExists
  <2>2. CASE n = 1
    <3>1. 1 \in 1 .. L
      OBVIOUS
    <3>2. g[1] = ps[1]
      BY <1>2, <3>1
    <3> QED  BY <1>5, <1>6, <2>1, <2>2, <3>1, <3>2
  <2>3. CASE n # 1
    <3>1. n \in 1 .. L /\ n - 1 \in 1 .. L /\ n - 1 \notin Bad
      BY <2>1, <2>3
    <3>2. g[n] = CreateMerged(g[n - 1], ps[n])
      BY <1>2, <2>3, <3>1
    <3>3. g[n].root0 = g[n - 1].root0 /\ g[n].root1 = ps[n].root1
      BY <3>2 DEF CreateMerged, RollupState
    <3> QED  BY <1>6, <2>1, <3>1, <3>3
  <2> QED  BY <2>2, <2>3
<1>8. \A n \in 2 .. L : MergeAsserts(g[n], g[n - 1], ps[n])
  <2> SUFFICES ASSUME NEW n \in 2 .. L PROVE MergeAsserts(g[n], g[n - 1], ps[n])
    OBVIOUS
  <2>1. n \in 1 .. L /\ n - 1 \in 1 .. L /\ n # 1
    OBVIOUS
  <2> QED  BY <1>5, <1>6, <1>7, <2>1 DEF MergeAsserts
<1>9. RollupOf(maps, es).verifies <=> \A n \in 1 .. L : OneStepAsserts(a[n].step)
  BY <1>3, <1>8 DEF AllAssert
<1>10. /\ RollupOf(maps, es).proof.root0 = maps.mgr
       /\ RollupOf(maps, es).proof.root1 = a[L].maps.mgr
  BY <1>3, <1>7
<1>11. IsStepsOf(a, maps, es)
  BY <1>1 DEF IsStepsOf
<1> QED  BY <1>9, <1>10, <1>11, Zenon

-----------------------------------------------------------------------------
(***************************************************************************)
(* The rollup and the runner.                                              *)
(***************************************************************************)

\* The event that requests identity i on the commitment c.
NewIdentity(c, i) == EventStoragePending(c, MANAGER, i, EmptyMap, NoMeta)

\* Event n of es is that of a new identity; or it is about an identity of c,
\* or the one that the event before it requests.
FormedAt(es, n, c) ==
    IF es[n].id = MANAGER
    THEN es[n] = NewIdentity(c, es[n].key)
    ELSE c[es[n].id] = EMPTY => n > 1 /\ AddsIdentity(es, n - 1, es[n].id)

Formed(es, c) == \A n \in 1 .. Len(es) : FormedAt(es, n, c)

\* The first n of the events es request no identity twice.
Distinct(es, n) ==
    \A l, m \in 1 .. n : \A i \in Ids :
        AddsIdentity(es, l, i) /\ AddsIdentity(es, m, i) => l = m

\* The maps b of the rollup and q of the runner, after n of the events es on
\* the commitment c: they differ in the stores of factors only, and hold the
\* identities of c and those requested.
Together(b, q, es, n, c) ==
    /\ b \in Maps /\ q \in Maps
    /\ b.mgr = q.mgr
    /\ \A i \in Ids :
          /\ b.stores[i] = q.stores[i]
          /\ b.stores[i] = IF b.mgr[i] = EMPTY THEN NULL ELSE b.mgr[i]
          /\ b.mgr[i] = EMPTY
                <=> c[i] = EMPTY /\ \A m \in 1 .. n : ~AddsIdentity(es, m, i)

\* The step of an event, without the LETs.
LEMMA StepOfIdentity ==
    ASSUME NEW b \in Maps, NEW e, e.id = MANAGER, e.key \in Ids
    PROVE  LET store == MapFor(b.stores, e.key)
               mgr   == [b.mgr EXCEPT ![e.key] = store]
           IN  /\ StepOf(b, e).maps =
                     [mgr |-> mgr, stores |-> [b.stores EXCEPT ![e.key] = store]]
               /\ OneStepAsserts(StepOf(b, e).step) <=> b.mgr[e.key] = EMPTY
<1> DEFINE store == MapFor(b.stores, e.key)
           mgr   == [b.mgr EXCEPT ![e.key] = store]
           step  == RollupStep(b.mgr, mgr, e.key, EMPTY, store, b.mgr)
<1>1. StepOf(b, e) =
         [maps |-> [mgr |-> mgr, stores |-> [b.stores EXCEPT ![e.key] = store]],
          step |-> step]
  BY DEF StepOf
<1>2. /\ step.root0 = b.mgr /\ step.root1 = mgr /\ step.key = e.key
      /\ step.value0 = EMPTY /\ step.value1 = store
      /\ step.witnessManager = b.mgr
  BY DEF RollupStep
<1>3. OneStepAsserts(step) <=> b.mgr = [b.mgr EXCEPT ![e.key] = EMPTY]
  <2> HIDE DEF step
  <2> QED  BY <1>2 DEF OneStepAsserts
<1>4. b.mgr = [b.mgr EXCEPT ![e.key] = EMPTY] <=> b.mgr[e.key] = EMPTY
  BY KeyFacts DEF Maps, MapsOf, Commitments
<1>5. /\ StepOf(b, e).maps =
            [mgr |-> mgr, stores |-> [b.stores EXCEPT ![e.key] = store]]
      /\ StepOf(b, e).step = step
  <2> HIDE DEF step, mgr, store
  <2> QED  BY <1>1
<1> QED  BY <1>3, <1>4, <1>5

LEMMA StepOfFactor ==
    ASSUME NEW b \in Maps, NEW e, e.id # MANAGER, e.id \in Ids
    PROVE  LET store == MapFor(b.stores, e.id)
               ring  == [store EXCEPT ![e.key] = e.value]
           IN  /\ StepOf(b, e).maps =
                     [mgr    |-> [b.mgr EXCEPT ![e.id] = ring],
                      stores |-> [b.stores EXCEPT ![e.id] = ring]]
               /\ OneStepAsserts(StepOf(b, e).step) <=> b.mgr[e.id] = store
<1> DEFINE store == MapFor(b.stores, e.id)
           ring  == [store EXCEPT ![e.key] = e.value]
           mgr   == [b.mgr EXCEPT ![e.id] = ring]
           step  == RollupStep(b.mgr, mgr, e.id, store, ring, b.mgr)
<1>1. StepOf(b, e) =
         [maps |-> [mgr |-> mgr, stores |-> [b.stores EXCEPT ![e.id] = ring]],
          step |-> step]
  BY DEF StepOf
<1>2. /\ step.root0 = b.mgr /\ step.root1 = mgr /\ step.key = e.id
      /\ step.value0 = store /\ step.value1 = ring
      /\ step.witnessManager = b.mgr
  BY DEF RollupStep
<1>3. OneStepAsserts(step) <=> b.mgr = [b.mgr EXCEPT ![e.id] = store]
  <2> HIDE DEF step, ring, store
  <2> QED  BY <1>2 DEF OneStepAsserts
<1>4. b.mgr = [b.mgr EXCEPT ![e.id] = store] <=> b.mgr[e.id] = store
  <2> HIDE DEF store
  <2> QED  BY KeyFacts DEF Maps, MapsOf, Commitments
<1>5. /\ StepOf(b, e).maps =
            [mgr |-> mgr, stores |-> [b.stores EXCEPT ![e.id] = ring]]
      /\ StepOf(b, e).step = step
  <2> HIDE DEF step, mgr, ring, store
  <2> QED  BY <1>1
<1> QED  BY <1>3, <1>4, <1>5

\* An event that requests no identity again keeps them together, and what its
\* step asserts holds.
LEMMA TogetherStep ==
    ASSUME NEW es \in Seq(Requests), NEW n \in Nat, n + 1 \in 1 .. Len(es),
           NEW c \in Commitments, WellFormed(es, c), Formed(es, c),
           Distinct(es, n + 1), NEW b, NEW q, Together(b, q, es, n, c)
    PROVE  /\ Together(StepOf(b, es[n + 1]).maps, Processed(q, es[n + 1]),
                       es, n + 1, c)
           /\ OneStepAsserts(StepOf(b, es[n + 1]).step)
<1> USE KeyFacts
<1> DEFINE e == es[n + 1]
           B == StepOf(b, e).maps
           Q == Processed(q, e)
<1>1. WellFormedAt(es, n + 1, c) /\ FormedAt(es, n + 1, c) /\ e \in Requests
  BY ElementOfSeq DEF WellFormed, Formed
<1>2. /\ b \in Maps /\ q \in Maps /\ b.mgr = q.mgr
      /\ b.mgr \in Commitments
      /\ b.stores \in [Level2 -> Keyrings \cup {NULL}]
      /\ q.stores \in [Level2 -> Keyrings \cup {NULL}]
  BY DEF Together, Maps, MapsOf
<1>3. \A i \in Ids :
         /\ b.stores[i] = q.stores[i]
         /\ b.stores[i] = IF b.mgr[i] = EMPTY THEN NULL ELSE b.mgr[i]
         /\ b.mgr[i] = EMPTY
               <=> c[i] = EMPTY /\ \A m \in 1 .. n : ~AddsIdentity(es, m, i)
  BY DEF Together
<1>4. Q \in Maps
  BY <1>1, <1>2, ProcessedFacts
<1>5. \A i : (\A m \in 1 .. n + 1 : ~AddsIdentity(es, m, i))
               <=> /\ \A m \in 1 .. n : ~AddsIdentity(es, m, i)
                   /\ ~AddsIdentity(es, n + 1, i)
  <2> SUFFICES ASSUME NEW i
               PROVE  (\A m \in 1 .. n + 1 : ~AddsIdentity(es, m, i))
                        <=> /\ \A m \in 1 .. n : ~AddsIdentity(es, m, i)
                            /\ ~AddsIdentity(es, n + 1, i)
    OBVIOUS
  <2>1. \A m : m \in 1 .. n + 1 <=> m \in 1 .. n \/ m = n + 1
    OBVIOUS
  <2> QED  BY <2>1, Zenon
<1>6. CASE e.id = MANAGER
  <2>1. e.key \in Ids /\ c[e.key] = EMPTY /\ e.value = EmptyMap
    BY <1>1, <1>6 DEF WellFormedAt
  <2>2. b.mgr[e.key] = EMPTY
    <3>1. ASSUME NEW m \in 1 .. n, AddsIdentity(es, m, e.key)
          PROVE  FALSE
      <4>1. AddsIdentity(es, n + 1, e.key)
        BY <1>6 DEF AddsIdentity
      <4>2. m \in 1 .. n + 1 /\ n + 1 \in 1 .. n + 1 /\ m # n + 1
        OBVIOUS
      <4> QED  BY <2>1, <3>1, <4>1, <4>2 DEF Distinct
    <3> QED  BY <1>3, <2>1, <3>1
  <2>3. MapFor(b.stores, e.key) = EmptyMap /\ MapFor(q.stores, e.key) = EmptyMap
    BY <1>3, <2>1, <2>2 DEF MapFor
  <2>4. /\ B = [mgr    |-> [b.mgr EXCEPT ![e.key] = EmptyMap],
                stores |-> [b.stores EXCEPT ![e.key] = EmptyMap]]
        /\ OneStepAsserts(StepOf(b, e).step)
    <3> DEFINE store == MapFor(b.stores, e.key)
    <3>1. /\ B = [mgr    |-> [b.mgr EXCEPT ![e.key] = store],
                  stores |-> [b.stores EXCEPT ![e.key] = store]]
          /\ OneStepAsserts(StepOf(b, e).step) <=> b.mgr[e.key] = EMPTY
      <4> HIDE DEF e
      <4> QED  BY <1>2, <1>6, <2>1, StepOfIdentity
    <3>2. store = EmptyMap
      BY <2>3
    <3> HIDE DEF B, store
    <3> QED  BY <2>2, <3>1, <3>2
  <2>5. Q = [mgr    |-> [q.mgr EXCEPT ![e.key] = EmptyMap],
             stores |-> [q.stores EXCEPT ![e.key] = EmptyMap]]
    BY <1>6, <2>1, <2>3 DEF Processed
  <2> HIDE DEF B, Q
  <2>6. /\ B.mgr = [b.mgr EXCEPT ![e.key] = EmptyMap]
        /\ B.stores = [b.stores EXCEPT ![e.key] = EmptyMap]
        /\ Q.mgr = [q.mgr EXCEPT ![e.key] = EmptyMap]
        /\ Q.stores = [q.stores EXCEPT ![e.key] = EmptyMap]
    BY <2>4, <2>5
  <2>7. B \in Maps
    <3>1. B.mgr \in Commitments
      BY <1>2, <2>1, <2>6 DEF Commitments
    <3>2. B.stores \in [Level2 -> Keyrings \cup {NULL}]
      BY <1>2, <2>1, <2>6
    <3> QED  BY <2>4, <2>6, <3>1, <3>2 DEF Maps, MapsOf
  <2>8. \A i \in Ids :
           /\ B.mgr[i] = IF i = e.key THEN EmptyMap ELSE b.mgr[i]
           /\ B.stores[i] = IF i = e.key THEN EmptyMap ELSE b.stores[i]
           /\ Q.stores[i] = IF i = e.key THEN EmptyMap ELSE q.stores[i]
    BY <1>2, <2>1, <2>6 DEF Commitments
  <2>9. \A i \in Ids : AddsIdentity(es, n + 1, i) <=> i = e.key
    BY <1>6 DEF AddsIdentity
  <2>10. \A i \in Ids :
           /\ B.stores[i] = Q.stores[i]
           /\ B.stores[i] = IF B.mgr[i] = EMPTY THEN NULL ELSE B.mgr[i]
    <3> SUFFICES ASSUME NEW i \in Ids
                 PROVE  /\ B.stores[i] = Q.stores[i]
                        /\ B.stores[i] = IF B.mgr[i] = EMPTY THEN NULL ELSE B.mgr[i]
      OBVIOUS
    <3>1. CASE i = e.key
      <4>1. EmptyMap # EMPTY
        OBVIOUS
      <4> QED  BY <2>8, <3>1, <4>1
    <3>2. CASE i # e.key
      <4>1. /\ b.stores[i] = q.stores[i]
            /\ b.stores[i] = IF b.mgr[i] = EMPTY THEN NULL ELSE b.mgr[i]
        BY <1>3
      <4> QED  BY <2>8, <3>2, <4>1
    <3> QED  BY <3>1, <3>2
  <2>11. \A i \in Ids :
           B.mgr[i] = EMPTY
             <=> c[i] = EMPTY /\ \A m \in 1 .. n + 1 : ~AddsIdentity(es, m, i)
    <3> SUFFICES ASSUME NEW i \in Ids
                 PROVE  B.mgr[i] = EMPTY
                          <=> /\ c[i] = EMPTY
                              /\ \A m \in 1 .. n + 1 : ~AddsIdentity(es, m, i)
      OBVIOUS
    <3> DEFINE Never(m) == \A l \in 1 .. m : ~AddsIdentity(es, l, i)
    <3>1. b.mgr[i] = EMPTY <=> c[i] = EMPTY /\ Never(n)
      BY <1>3
    <3>2. Never(n + 1) <=> Never(n) /\ i # e.key
      BY <1>5, <2>9
    <3>3. B.mgr[i] = IF i = e.key THEN EmptyMap ELSE b.mgr[i]
      BY <2>8
    <3>4. EmptyMap # EMPTY
      OBVIOUS
    <3> HIDE DEF Never
    <3>5. B.mgr[i] = EMPTY <=> c[i] = EMPTY /\ Never(n + 1)
      BY <3>1, <3>2, <3>3, <3>4
    <3> QED  BY <3>5 DEF Never
  <2>12. B.mgr = Q.mgr
    BY <1>2, <2>6
  <2>13. Together(B, Q, es, n + 1, c)
    BY <1>4, <2>7, <2>10, <2>11, <2>12 DEF Together, Q
  <2> QED  BY <2>4, <2>13 DEF B, Q
<1>7. CASE e.id # MANAGER
  <2> DEFINE store == MapFor(b.stores, e.id)
             ring  == [store EXCEPT ![e.key] = e.value]
  <2>1. e.id \in Ids /\ e.key \in Factors /\ e.value = PRESENT
    BY <1>1, <1>7 DEF WellFormedAt
  <2>2. b.mgr[e.id] # EMPTY
    <3>1. CASE c[e.id] = EMPTY
      <4>1. n \in 1 .. n /\ AddsIdentity(es, n, e.id)
        BY <1>1, <1>7, <3>1 DEF FormedAt
      <4> QED  BY <1>3, <2>1, <4>1
    <3>2. CASE c[e.id] # EMPTY
      BY <1>3, <2>1, <3>2
    <3> QED  BY <3>1, <3>2
  <2>3. store = b.mgr[e.id] /\ store = MapFor(q.stores, e.id) /\ store \in Keyrings
    <3>1. b.mgr[e.id] \in Keyrings
      BY <1>2, <2>1, <2>2 DEF Commitments
    <3> QED  BY <1>3, <2>1, <2>2, <3>1 DEF MapFor
  <2>4. /\ B = [mgr    |-> [b.mgr EXCEPT ![e.id] = ring],
                stores |-> [b.stores EXCEPT ![e.id] = ring]]
        /\ OneStepAsserts(StepOf(b, e).step)
    BY <1>2, <1>7, <2>1, <2>3, StepOfFactor
  <2>5. Q = [mgr    |-> [q.mgr EXCEPT ![e.id] = ring],
             stores |-> [q.stores EXCEPT
                            ![e.id]  = ring,
                            ![e.key] = MapFor(q.stores, e.key)]]
    BY <1>7, <2>3 DEF Processed
  <2>6. ring \in Keyrings
    <3> HIDE DEF store
    <3> QED  BY <2>1, <2>3 DEF Keyrings, Leaves
  <2> HIDE DEF B, Q, ring, store
  <2>7. /\ B.mgr = [b.mgr EXCEPT ![e.id] = ring]
        /\ B.stores = [b.stores EXCEPT ![e.id] = ring]
        /\ Q.mgr = [q.mgr EXCEPT ![e.id] = ring]
        /\ Q.stores = [q.stores EXCEPT
                          ![e.id]  = ring,
                          ![e.key] = MapFor(q.stores, e.key)]
    BY <2>4, <2>5
  <2>8. B \in Maps
    <3>1. B.mgr \in Commitments
      BY <1>2, <2>1, <2>6, <2>7 DEF Commitments
    <3>2. B.stores \in [Level2 -> Keyrings \cup {NULL}]
      BY <1>2, <2>1, <2>6, <2>7
    <3> QED  BY <2>4, <2>7, <3>1, <3>2 DEF Maps, MapsOf
  <2>9. \A i \in Ids :
           /\ B.mgr[i] = IF i = e.id THEN ring ELSE b.mgr[i]
           /\ B.stores[i] = IF i = e.id THEN ring ELSE b.stores[i]
    BY <1>2, <2>1, <2>7 DEF Commitments
  <2>10. \A i \in Ids : Q.stores[i] = IF i = e.id THEN ring ELSE q.stores[i]
    <3>1. \A i \in Ids : i \in Level2 /\ i # e.key
      BY <2>1
    <3> DEFINE kept == MapFor(q.stores, e.key)
    <3>2. Q.stores = [[q.stores EXCEPT ![e.id] = ring] EXCEPT ![e.key] = kept]
      BY <2>7
    <3> HIDE DEF kept
    <3> QED  BY <1>2, <3>1, <3>2
  <2>11. \A i \in Ids : ~AddsIdentity(es, n + 1, i)
    BY <1>7 DEF AddsIdentity
  <2>12. \A i \in Ids :
           /\ B.stores[i] = Q.stores[i]
           /\ B.stores[i] = IF B.mgr[i] = EMPTY THEN NULL ELSE B.mgr[i]
    <3> SUFFICES ASSUME NEW i \in Ids
                 PROVE  /\ B.stores[i] = Q.stores[i]
                        /\ B.stores[i] = IF B.mgr[i] = EMPTY THEN NULL ELSE B.mgr[i]
      OBVIOUS
    <3>1. CASE i = e.id
      <4>1. ring # EMPTY
        BY <2>6
      <4> QED  BY <2>9, <2>10, <3>1, <4>1
    <3>2. CASE i # e.id
      <4>1. /\ b.stores[i] = q.stores[i]
            /\ b.stores[i] = IF b.mgr[i] = EMPTY THEN NULL ELSE b.mgr[i]
        BY <1>3
      <4> QED  BY <2>9, <2>10, <3>2, <4>1
    <3> QED  BY <3>1, <3>2
  <2>13. \A i \in Ids :
           B.mgr[i] = EMPTY
             <=> c[i] = EMPTY /\ \A m \in 1 .. n + 1 : ~AddsIdentity(es, m, i)
    <3>1. \A i \in Ids : B.mgr[i] = EMPTY <=> b.mgr[i] = EMPTY
      BY <2>2, <2>6, <2>9
    <3> QED  BY <1>3, <1>5, <2>11, <3>1
  <2>14. B.mgr = Q.mgr
    BY <1>2, <2>7
  <2>15. Together(B, Q, es, n + 1, c)
    BY <1>4, <2>8, <2>12, <2>13, <2>14 DEF Together, Q
  <2> QED  BY <2>4, <2>15 DEF B, Q
<1> QED  BY <1>6, <1>7

\* The maps of the rollup a after n events.
MapsAt(a, maps, n) == IF n = 0 THEN maps ELSE a[n].maps

\* The rollup and the runner stay together as long as no identity is requested
\* twice.
LEMMA TogetherAlong ==
    ASSUME NEW maps \in Maps, pending \in Seq(Requests), Agree(maps),
           WellFormed(pending, maps.mgr), Formed(pending, maps.mgr),
           NEW a, IsStepsOf(a, maps, pending),
           NEW p, NEW to, IsPath(p, maps, to, 0, Len(pending)),
           NEW k \in 0 .. Len(pending), Distinct(pending, k)
    PROVE  /\ Together(MapsAt(a, maps, k), p[k], pending, k, maps.mgr)
           /\ \A n \in 1 .. k : OneStepAsserts(a[n].step)
<1> DEFINE c == maps.mgr
           At(n) == Together(MapsAt(a, maps, n), p[n], pending, n, c)
           Bad == {n \in 1 .. k : ~At(n)}
<1>1. c \in Commitments /\ Len(pending) \in Nat
  BY DEF Maps, MapsOf
<1>2. At(0)
  <2>1. p[0] = maps /\ MapsAt(a, maps, 0) = maps
    BY DEF IsPath, MapsAt
  <2>2. 1 .. 0 = {}
    OBVIOUS
  <2>3. ASSUME NEW i \in Ids
        PROVE  maps.stores[i] = IF maps.mgr[i] = EMPTY THEN NULL ELSE maps.mgr[i]
    BY DEF Agree, AgreesOn
  <2> QED  BY <2>1, <2>2, <2>3 DEF Together
<1>3. ASSUME NEW n \in 1 .. k
      PROVE  /\ n \in 1 .. Len(pending) /\ n - 1 \in Nat /\ n - 1 + 1 = n
             /\ a[n] = StepOf(MapsAt(a, maps, n - 1), pending[n])
             /\ MapsAt(a, maps, n) = StepOf(MapsAt(a, maps, n - 1), pending[n]).maps
             /\ p[n] = Processed(p[n - 1], pending[n])
             /\ Distinct(pending, n)
  <2>1. n \in 1 .. Len(pending) /\ n - 1 \in Nat /\ n - 1 + 1 = n /\ n # 0
    BY <1>1
  <2>2. a[n] = StepOf(MapsAt(a, maps, n - 1), pending[n])
    <3>1. n - 1 = 0 <=> n = 1
      OBVIOUS
    <3> QED  BY <2>1, <3>1 DEF IsStepsOf, MapsAt
  <2>3. MapsAt(a, maps, n) = a[n].maps
    BY <2>1 DEF MapsAt
  <2>4. p[n] = Processed(p[n - 1], pending[n])
    BY <2>1 DEF IsPath
  <2>5. Distinct(pending, n)
    <3>1. 1 .. n \subseteq 1 .. k
      OBVIOUS
    <3> QED  BY <3>1 DEF Distinct
  <2> QED  BY <2>1, <2>2, <2>3, <2>4, <2>5
<1>4. ASSUME NEW n \in 1 .. k, At(n - 1)
      PROVE  At(n) /\ OneStepAsserts(a[n].step)
  <2> DEFINE b == MapsAt(a, maps, n - 1)
             q == p[n - 1]
             l == n - 1
  <2>1. Together(b, q, pending, l, c)
    BY <1>4
  <2>2. /\ l \in Nat /\ l + 1 = n /\ l + 1 \in 1 .. Len(pending)
        /\ Distinct(pending, l + 1)
    BY <1>3
  <2>3. /\ Together(StepOf(b, pending[l + 1]).maps, Processed(q, pending[l + 1]),
                    pending, l + 1, c)
        /\ OneStepAsserts(StepOf(b, pending[l + 1]).step)
    <3> HIDE DEF b, q, l, c
    <3> QED  BY <1>1, <2>1, <2>2, TogetherStep DEF c
  <2> QED  BY <1>3, <2>2, <2>3
<1>5. Bad = {}
  <2> SUFFICES ASSUME Bad # {} PROVE FALSE
    OBVIOUS
  <2>1. PICK n \in Bad : \A j \in Bad : n <= j
    <3>1. Bad \in SUBSET (1 .. k) /\ k \in Nat
      BY <1>1
    <3> HIDE DEF Bad
    <3> QED  BY <3>1, FirstExists
  <2>2. n \in 1 .. k /\ ~At(n) /\ (n - 1 = 0 \/ n - 1 \in 1 .. k) /\ n - 1 \notin Bad
    BY <2>1
  <2> HIDE DEF At
  <2>3. At(n - 1)
    BY <1>2, <2>2
  <2> QED  BY <1>4, <2>2, <2>3
<1>6. \A n \in 0 .. k : At(n)
  <2> HIDE DEF At
  <2>1. \A n \in 0 .. k : n = 0 \/ n \in 1 .. k
    OBVIOUS
  <2> QED  BY <1>2, <1>5, <2>1
<1>7. \A n \in 1 .. k : OneStepAsserts(a[n].step)
  <2> HIDE DEF At
  <2>1. \A n \in 1 .. k : n - 1 \in 0 .. k
    OBVIOUS
  <2> QED  BY <1>4, <1>6, <2>1
<1> QED  BY <1>6, <1>7

\* Requests of the same identity are the same event.
LEMMA TwiceIsSame ==
    ASSUME NEW c, Formed(pending, c), WellFormed(pending, c)
    PROVE  RequestedTwice <=> ~Distinct(pending, Len(pending))
<1>1. ASSUME RequestedTwice
      PROVE  ~Distinct(pending, Len(pending))
  <2>1. PICK m, n \in 1 .. Len(pending) :
           m # n /\ pending[m].id = MANAGER /\ pending[n] = pending[m]
    BY <1>1 DEF RequestedTwice
  <2>2. pending[m].key \in Ids
    <3>1. WellFormedAt(pending, m, c)
      BY DEF WellFormed
    <3> QED  BY <2>1, <3>1, KeyFacts DEF WellFormedAt
  <2> QED  BY <2>1, <2>2 DEF Distinct, AddsIdentity
<1>2. ASSUME ~Distinct(pending, Len(pending))
      PROVE  RequestedTwice
  <2>1. PICK l, m \in 1 .. Len(pending) : \E i \in Ids :
           AddsIdentity(pending, l, i) /\ AddsIdentity(pending, m, i) /\ l # m
    BY <1>2 DEF Distinct
  <2>2. /\ pending[l] = NewIdentity(c, pending[l].key)
        /\ pending[m] = NewIdentity(c, pending[m].key)
    BY <2>1 DEF Formed, FormedAt, AddsIdentity
  <2> QED  BY <2>1, <2>2 DEF RequestedTwice, AddsIdentity
<1> QED  BY <1>1, <1>2

\* What a rollup of the pending events proves.
LEMMA RollupProves ==
    ASSUME storage \in Maps, pending \in Seq(Requests), pending # <<>>,
           Agree(storage), WellFormed(pending, storage.mgr),
           Formed(pending, storage.mgr),
           NEW to, Path(storage, to, 0, Len(pending))
    PROVE  IF RequestedTwice
           THEN ~RollupOf(storage, pending).verifies
           ELSE /\ RollupOf(storage, pending).verifies
                /\ RollupOf(storage, pending).proof.root0 = storage.mgr
                /\ RollupOf(storage, pending).proof.root1 = to.mgr
<1> DEFINE L == Len(pending)
           c == storage.mgr
           R == RollupOf(storage, pending)
<1>1. L \in Nat /\ L >= 1
  BY EmptySeq
<1>2. PICK a :
         /\ IsStepsOf(a, storage, pending)
         /\ R.verifies <=> \A n \in 1 .. L : OneStepAsserts(a[n].step)
         /\ R.proof.root0 = storage.mgr
         /\ R.proof.root1 = a[L].maps.mgr
  BY <1>1, RollupFacts, Zenon
<1>3. PICK p : IsPath(p, storage, to, 0, L)
  BY DEF Path
<1>4. ASSUME NEW k \in 0 .. L, Distinct(pending, k)
      PROVE  /\ Together(MapsAt(a, storage, k), p[k], pending, k, c)
             /\ \A n \in 1 .. k : OneStepAsserts(a[n].step)
  BY <1>2, <1>3, <1>4, TogetherAlong
<1> HIDE DEF R
<1>5. CASE ~RequestedTwice
  <2>1. Distinct(pending, L) /\ L \in 0 .. L /\ L # 0
    BY <1>1, <1>5, TwiceIsSame
  <2>2. a[L].maps.mgr = p[L].mgr
    BY <1>4, <2>1 DEF Together, MapsAt
  <2>3. p[L] = to
    BY <1>3 DEF IsPath
  <2>4. \A n \in 1 .. L : OneStepAsserts(a[n].step)
    BY <1>4, <2>1
  <2> QED  BY <1>2, <1>5, <2>2, <2>3, <2>4 DEF R
<1>6. CASE RequestedTwice
  <2> DEFINE D == {n \in 1 .. L : ~Distinct(pending, n)}
  <2>1. L \in D
    BY <1>1, <1>6, TwiceIsSame
  <2>2. PICK n \in D : \A j \in D : n <= j
    <3>1. D \in SUBSET (1 .. L)
      OBVIOUS
    <3> HIDE DEF D
    <3> QED  BY <1>1, <2>1, <3>1, FirstExists
  <2>3. n \in 1 .. L /\ ~Distinct(pending, n) /\ n - 1 \in 0 .. L /\ n - 1 \notin D
    BY <2>2
  <2>4. Distinct(pending, n - 1)
    <3>1. CASE n = 1
      <4>1. 1 .. n - 1 = {}
        BY <3>1
      <4> QED  BY <4>1 DEF Distinct
    <3>2. CASE n # 1
      <4>1. n - 1 \in 1 .. L
        BY <2>3, <3>2
      <4> QED  BY <2>3, <4>1
    <3> QED  BY <3>1, <3>2
  <2>5. PICK i \in Ids : \E m \in 1 .. n - 1 :
           AddsIdentity(pending, m, i) /\ AddsIdentity(pending, n, i)
    <3>1. PICK l, m \in 1 .. n : \E i \in Ids :
             AddsIdentity(pending, l, i) /\ AddsIdentity(pending, m, i) /\ l # m
      BY <2>3 DEF Distinct
    <3>2. ~(l \in 1 .. n - 1 /\ m \in 1 .. n - 1)
      BY <2>4, <3>1 DEF Distinct
    <3>3. (l = n /\ m \in 1 .. n - 1) \/ (m = n /\ l \in 1 .. n - 1)
      BY <2>3, <3>1, <3>2
    <3> QED  BY <3>1, <3>3
  <2> DEFINE b == MapsAt(a, storage, n - 1)
  <2>6. b \in Maps /\ b.mgr[i] # EMPTY
    <3>1. Together(b, p[n - 1], pending, n - 1, c)
      BY <1>4, <2>3, <2>4
    <3> HIDE DEF b
    <3> QED  BY <2>5, <3>1 DEF Together
  <2>7. a[n] = StepOf(b, pending[n])
    <3>1. n - 1 = 0 <=> n = 1
      BY <2>3
    <3> QED  BY <1>2, <2>3, <3>1 DEF IsStepsOf, MapsAt
  <2>8. pending[n].id = MANAGER /\ pending[n].key = i
    BY <2>5 DEF AddsIdentity
  <2>9. ~OneStepAsserts(StepOf(b, pending[n]).step)
    <3> HIDE DEF b
    <3> QED  BY <2>6, <2>8, StepOfIdentity
  <2>10. ~OneStepAsserts(a[n].step)
    BY <2>7, <2>9
  <2> QED  BY <1>2, <1>6, <2>3, <2>10 DEF R
<1> QED  BY <1>5, <1>6

-----------------------------------------------------------------------------
(***************************************************************************)
(* The pending events, and the theorem.                                    *)
(***************************************************************************)

\* Pending events are formed as transactions emit them.
FormedInv ==
    /\ pc \in {"ready", "runner"} => Formed(pending, commitment)
    /\ pc = "events" /\ LastType = "storage:pending" =>
          Formed(NewEvents, commitment) /\ Formed(pending, commitment)
    /\ CommitProvable

LEMMA FormedTogether ==
    ASSUME NEW es \in Seq(Requests), NEW seq \in Seq(Requests), NEW c,
           Formed(es, c), Formed(seq, c)
    PROVE  Formed(es \o seq, c)
<1> DEFINE all == es \o seq
           k   == Len(es)
<1>1. /\ Len(all) = k + Len(seq)
      /\ \A n \in 1 .. k : all[n] = es[n]
      /\ \A n \in 1 .. Len(seq) : all[k + n] = seq[n]
      /\ k \in Nat /\ Len(seq) \in Nat
  OBVIOUS
<1> HIDE DEF all, k
<1>2. ASSUME NEW n \in 1 .. k
      PROVE  FormedAt(all, n, c)
  <2>1. FormedAt(es, n, c) /\ all[n] = es[n]
    BY <1>1 DEF Formed, k
  <2>2. n > 1 => n - 1 \in 1 .. k
    BY <1>1
  <2> QED  BY <1>1, <2>1, <2>2 DEF FormedAt, AddsIdentity
<1>3. ASSUME NEW n \in 1 .. Len(seq)
      PROVE  FormedAt(all, k + n, c)
  <2>1. FormedAt(seq, n, c) /\ all[k + n] = seq[n]
    BY <1>1 DEF Formed
  <2>2. n > 1 => k + n > 1 /\ n - 1 \in 1 .. Len(seq) /\ k + n - 1 = k + (n - 1)
    BY <1>1
  <2>3. n > 1 => all[k + n - 1] = seq[n - 1]
    BY <1>1, <2>2
  <2>4. CASE seq[n].id = MANAGER
    BY <2>1, <2>4 DEF FormedAt
  <2>5. CASE seq[n].id # MANAGER /\ c[seq[n].id] = EMPTY
    <3>1. n > 1 /\ AddsIdentity(seq, n - 1, seq[n].id)
      BY <2>1, <2>5 DEF FormedAt
    <3>2. k + n > 1 /\ AddsIdentity(all, k + n - 1, seq[n].id)
      BY <2>2, <2>3, <3>1 DEF AddsIdentity
    <3>3. PICK l : l = k + n
      OBVIOUS
    <3>4. /\ l > 1 /\ all[l] = seq[n]
          /\ all[l - 1].id = MANAGER /\ all[l - 1].key = seq[n].id
      BY <1>1, <2>1, <3>2, <3>3 DEF AddsIdentity
    <3> QED  BY <2>5, <3>3, <3>4 DEF FormedAt, AddsIdentity
  <2>6. CASE seq[n].id # MANAGER /\ c[seq[n].id] # EMPTY
    BY <2>1, <2>6 DEF FormedAt
  <2> QED  BY <2>4, <2>5, <2>6
<1>4. ASSUME NEW n \in 1 .. Len(all)
      PROVE  FormedAt(all, n, c)
  <2>1. CASE n <= k
    BY <1>1, <1>2, <2>1
  <2>2. CASE k < n
    <3>1. n - k \in 1 .. Len(seq) /\ n = k + (n - k)
      BY <1>1, <2>2
    <3> QED  BY <1>3, <3>1
  <2> QED  BY <1>1, <2>1, <2>2
<1> QED  BY <1>4 DEF Formed, all

LEMMA AddIdentityFormed ==
    ASSUME NEW i \in Ids, NEW c
    PROVE  Formed(ExampleIdentityEvents(i, c), c)
<1> USE KeyFacts
<1> DEFINE e1 == NewIdentity(c, i)
           e2 == EventStoragePending(c, i, OpKey[i], PRESENT,
                                     <<PRESENT, PROTOCOL, EMPTY>>)
           es == <<e1, e2>>
<1>1. e1.id = MANAGER /\ e1.key = i /\ e2.id = i
  BY DEF EventStoragePending, NewIdentity
<1>2. ExampleIdentityEvents(i, c) = es
  BY DEF ExampleIdentityEvents, NewIdentity
<1>3. e1 = NewIdentity(c, e1.key)
  BY <1>1
<1> HIDE DEF e1, e2
<1>4. Len(es) = 2 /\ es[1] = e1 /\ es[2] = e2
  OBVIOUS
<1> HIDE DEF es
<1>5. FormedAt(es, 1, c)
  BY <1>1, <1>3, <1>4 DEF FormedAt
<1>6. FormedAt(es, 2, c)
  <2>1. es[2].id # MANAGER /\ 2 - 1 = 1 /\ AddsIdentity(es, 1, i)
    BY <1>1, <1>4 DEF AddsIdentity
  <2> QED  BY <1>1, <1>4, <2>1 DEF FormedAt
<1>7. \A n \in 1 .. Len(es) : n = 1 \/ n = 2
  BY <1>4
<1> QED  BY <1>2, <1>5, <1>6, <1>7 DEF Formed

LEMMA AddAuthNFactorFormed ==
    ASSUME NEW i \in Ids, NEW f, NEW c, c[i] # EMPTY
    PROVE  Formed(AddAuthNFactorEvents(i, f, c), c)
<1> DEFINE e  == EventStoragePending(c, i, f, PRESENT,
                                     <<PROTOCOL, PROTOCOL, EMPTY>>)
           es == <<e>>
<1>1. e.id = i /\ i # MANAGER
  BY KeyFacts DEF EventStoragePending
<1>2. AddAuthNFactorEvents(i, f, c) = es
  BY DEF AddAuthNFactorEvents
<1> HIDE DEF e
<1>3. Len(es) = 1 /\ es[1] = e
  OBVIOUS
<1> HIDE DEF es
<1> QED  BY <1>1, <1>2, <1>3 DEF Formed, FormedAt

\* A transaction of requests.
LEMMA FormedTransaction ==
    ASSUME StepInv, FormedInv, pc = "ready", NEW es,
           RequestEvents(es, commitment), Formed(es, commitment), Emit(es),
           UNCHANGED <<commitment, numEvents, pending>>
    PROVE  FormedInv'
<1>1. numEvents = Len(archive) /\ archive \in Seq(Events)
  BY DEF StepInv, Phases, TypeOK
<1>2. es \in Seq(Events) /\ es # <<>>
  <2>1. Requests \subseteq Events
    BY DEF Requests, Events
  <2> QED  BY <2>1, SeqMonotonic DEF RequestEvents
<1>3. NewEvents' = es /\ LastType' = "storage:pending"
  <2>1. archive' = archive \o es
    BY DEF Emit
  <2>2. es[Len(es)].type = "storage:pending"
    BY DEF RequestEvents
  <2> QED  BY <1>1, <1>2, <2>1, <2>2, Emitted
<1>4. pc' = "events"
  BY DEF Emit
<1>5. CommitProvable'
  BY <1>3 DEF CommitProvable, LastType
<1> QED  BY <1>3, <1>4, <1>5 DEF FormedInv

\* A step after which there is no new event.
LEMMA FormedFrame ==
    ASSUME FormedInv, UNCHANGED commitment, pc' # "events",
           pc' = "storage" \/ Formed(pending', commitment)
    PROVE  FormedInv'
BY DEF FormedInv, CommitProvable

\* The last transaction's events are processed.
LEMMA ProcessEventsFormed ==
    ASSUME StepInv, RequestInv, FormedInv, ProcessEvents
    PROVE  FormedInv'
<1>1. /\ UNCHANGED commitment /\ pc = "events"
      /\ Deployed \/ Requested \/ Committed
  BY DEF ProcessEvents, StepInv, Phases
<1>2. CASE Deployed
  <2>1. pending' = <<>> /\ pc' = "ready"
    BY <1>2 DEF Deployed, LastType, ProcessEvents
  <2>2. Formed(pending', commitment)
    BY <2>1, EmptySeq DEF Formed
  <2> QED  BY <1>1, <2>1, <2>2, FormedFrame
<1>3. CASE Requested
  <2>1. pending' = NewEvents \o pending /\ pc' = "ready"
    BY <1>3 DEF Requested, LastType, ProcessEvents, Unshifted
  <2>2. NewEvents \in Seq(Requests) /\ pending \in Seq(Requests)
    BY <1>3, SyncedTypes DEF Requested, StepInv
  <2>3. Formed(NewEvents, commitment) /\ Formed(pending, commitment)
    BY <1>1, <1>3 DEF Requested, FormedInv
  <2>4. Formed(pending', commitment)
    BY <2>1, <2>2, <2>3, FormedTogether
  <2> QED  BY <1>1, <2>1, <2>4, FormedFrame
<1>4. CASE Committed
  <2>1. pc' = "storage"
    BY <1>4 DEF Committed, LastType, ProcessEvents
  <2> QED  BY <1>1, <2>1, FormedFrame
<1> QED  BY <1>1, <1>2, <1>3, <1>4

\* The commit: what the runner did is what the rollup would prove.
LEMMA CommitFormed ==
    ASSUME StepInv, RequestInv, FormedInv, Commit
    PROVE  FormedInv'
<1>1. /\ Running /\ TypeOK /\ pc = "runner" /\ todo = <<>>
      /\ numEvents = Len(archive)
  BY DEF StepInv, Phases, Commit
<1>2. /\ UNCHANGED <<numEvents, runner, storage, pending>>
      /\ commitment' = runner.mgr /\ pc' = "events"
  BY DEF Commit, Emit
<1>3. /\ commitment \in Commitments /\ runner.mgr \in Commitments
      /\ pending \in Seq(Requests) /\ Len(pending) \in Nat
  BY <1>1 DEF TypeOK, MapsOf, Requests
<1>4. Done = Len(pending)
  BY <1>1, <1>3, EmptySeq DEF Done
<1>5. /\ storage.mgr = commitment /\ Agree(storage)
      /\ WellFormed(pending, commitment)
      /\ Path(storage, runner, 0, Len(pending))
  BY <1>1, <1>4 DEF Running
<1>6. storage \in Maps
  <2>1. 0 \in Nat /\ 0 <= Len(pending)
    BY <1>3
  <2> QED  BY <1>3, <1>5, <2>1, PathTyped
<1>7. pending # <<>> /\ Formed(pending, commitment)
  BY <1>1 DEF RequestInv, FormedInv
<1>8. IF RequestedTwice
      THEN ~RollupOf(storage, pending).verifies
      ELSE /\ RollupOf(storage, pending).verifies
           /\ RollupOf(storage, pending).proof.root0 = commitment
           /\ RollupOf(storage, pending).proof.root1 = runner.mgr
  BY <1>3, <1>5, <1>6, <1>7, RollupProves
<1> DEFINE e == EventStorageCommit(commitment, runner.mgr)
<1>9. archive' = Append(archive, e) /\ archive \in Seq(Events) /\ e \in Events
  <2>1. e \in Events
    BY <1>3 DEF EventStorageCommit, Events, CommitEvents
  <2>2. archive' = archive \o <<e>> /\ archive \in Seq(Events)
    BY <1>1 DEF Commit, Emit, TypeOK
  <2> HIDE DEF e
  <2> QED  BY <2>1, <2>2
<1>10. e.type = "storage:commit" /\ e.commitmentPending = commitment
  BY DEF EventStorageCommit
<1> HIDE DEF e
<1>11. archive'[Len(archive')] = e
  BY <1>9
<1>12. RequestedTwice' <=> RequestedTwice
  BY <1>2 DEF RequestedTwice
<1>13. CommitProvable'
  BY <1>2, <1>8, <1>10, <1>11, <1>12 DEF CommitProvable
<1>14. LastType' = "storage:commit"
  BY <1>10, <1>11 DEF LastType
<1> QED  BY <1>2, <1>13, <1>14 DEF FormedInv

\* A step of none of the variables that FormedInv is about.
LEMMA FormedUnchanged ==
    ASSUME FormedInv,
           UNCHANGED <<commitment, archive, numEvents, storage, pending, pc>>
    PROVE  FormedInv'
<1>1. /\ CommitProvable' <=> CommitProvable
      /\ LastType' = LastType /\ NewEvents' = NewEvents
  BY DEF CommitProvable, RequestedTwice, LastType, NewEvents
<1> QED  BY <1>1 DEF FormedInv

LEMMA FormedStep ==
    StepInv /\ RequestInv /\ FormedInv /\ [Next]_vars => FormedInv'
<1> SUFFICES ASSUME StepInv, RequestInv, FormedInv, [Next]_vars
             PROVE  FormedInv'
  OBVIOUS
<1>1. CASE ProcessEvents
  BY <1>1, ProcessEventsFormed
<1>2. CASE ProcessPending
  BY <1>2, FormedFrame DEF ProcessPending, FormedInv
<1>3. CASE CommitProcessed
  <2>1. Formed(pending', commitment)
    BY <1>3, EmptySeq DEF CommitProcessed, Formed
  <2> QED  BY <1>3, <2>1, FormedFrame DEF CommitProcessed
<1>4. ASSUME NEW i \in Ids, AddIdentity(i)
      PROVE  FormedInv'
  <2>1. Synced /\ TypeOK /\ pc = "ready"
    BY <1>4 DEF StepInv, Phases, AddIdentity
  <2>2. commitment[i] = EMPTY /\ commitment \in Commitments
    BY <1>4, <2>1, SyncedTypes, KeyFacts
    DEF AddIdentity, AddStoreAsserts, Maps, MapsOf, Commitments
  <2>3. /\ RequestEvents(ExampleIdentityEvents(i, commitment), commitment)
        /\ Formed(ExampleIdentityEvents(i, commitment), commitment)
    BY <2>2, AddIdentityWellFormed, AddIdentityFormed
  <2> QED  BY <1>4, <2>1, <2>3, FormedTransaction DEF AddIdentity
<1>5. ASSUME NEW i \in Ids, AssertIdentity(i)
      PROVE  FormedInv'
  BY <1>5, FormedUnchanged DEF AssertIdentity
<1>6. ASSUME NEW f \in Factors, AddAuthNFactor(f)
      PROVE  FormedInv'
  <2>1. Synced /\ TypeOK /\ pc = "ready" /\ Accepted(f) /\ f \in Enrols[assertion.id]
    BY <1>6 DEF StepInv, Phases, AddAuthNFactor
  <2>2. /\ assertion.id \in Ids /\ commitment[assertion.id] # EMPTY
        /\ commitment \in Commitments
    BY <2>1 DEF Accepted, TypeOK, StepInv, AssertionOK, Assertions
  <2>3. /\ RequestEvents(AddAuthNFactorEvents(assertion.id, f, commitment), commitment)
        /\ Formed(AddAuthNFactorEvents(assertion.id, f, commitment), commitment)
    BY <2>1, <2>2, AddAuthNFactorWellFormed, AddAuthNFactorFormed
  <2> QED  BY <1>6, <2>1, <2>3, FormedTransaction DEF AddAuthNFactor
<1>7. CASE PrepareCommit
  BY <1>7, FormedFrame DEF PrepareCommit, FormedInv
<1>8. CASE Commit
  BY <1>8, CommitFormed
<1>9. ASSUME NEW i \in Ids, NEW f \in Factors, RequireAuth(i, f)
      PROVE  FormedInv'
  BY <1>9, FormedUnchanged DEF RequireAuth
<1>10. CASE UNCHANGED vars
  BY <1>10, FormedUnchanged DEF vars
<1> QED
  BY <1>1, <1>2, <1>3, <1>4, <1>5, <1>6, <1>7, <1>8, <1>9, <1>10 DEF Next

\* The commit made with the auth token is the transformation that the rollup
\* of the pending events would prove, unless an identity was requested twice:
\* then there is no proof.
THEOREM CommitAlwaysProvable == Spec => []CommitProvable
<1>1. Init => FormedInv
  <2> SUFFICES ASSUME Init PROVE FormedInv
    OBVIOUS
  <2>1. archive[Len(archive)].type = "storage:create" /\ pc = "events"
    BY DEF Init, EventStorageCreate
  <2> QED  BY <2>1 DEF FormedInv, CommitProvable, LastType
<1>2. Init => RequestInv
  BY RequestInit
<1>3. StepInv /\ RequestInv /\ [Next]_vars => RequestInv'
  BY RequestStepSimulates DEF Simulated
<1>4. StepInv /\ RequestInv /\ FormedInv /\ [Next]_vars => FormedInv'
  BY FormedStep
<1>5. FormedInv => CommitProvable
  BY DEF FormedInv
<1> QED
  BY <1>1, <1>2, <1>3, <1>4, <1>5, ExampleInvariant, PTL DEF Spec

=============================================================================
