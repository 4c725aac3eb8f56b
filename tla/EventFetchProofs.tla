-------------------------- MODULE EventFetchProofs --------------------------
(***************************************************************************)
(* Theorems about the indexer's scan for events, for any heights, events   *)
(* and crashes.                                                            *)
(*                                                                         *)
(* That no event is skipped depends on how far the archive lags: a cycle   *)
(* scans one block twice, which makes up for two blocks the archive had    *)
(* not ingested.  The invariant follows a cycle: which events are missing  *)
(* once it has read the zkApp's row, once it has fetched, and once it has  *)
(* recorded what it fetched.  That it waits for blocks only where it should*)
(* depends on how heights compare as strings, and on nothing else.         *)
(***************************************************************************)
EXTENDS EventFetch, SequenceLemmas

\* The heights of events never decrease.
Sorted ==
    /\ \A m, n \in 1 .. Len(log) : m <= n => log[m] <= log[n]
    /\ \A n \in 1 .. Len(log) : log[n] <= length

\* The events not recorded yet are in block h - 1 or later.
MissingFrom(h) == \A n \in 1 .. Len(log) : Len(events) < n => h <= log[n] + 1

\* What was fetched continues the table, but for events known already, and
\* holds all that is missing before block h - 1.
FetchedFrom(h) ==
    /\ \A n \in 1 .. Len(fetched) : fetched[n] = fetched[1] + n - 1
    /\ fetched # <<>> => fetched[1] <= Len(events) + 1
    /\ \A n \in 1 .. Len(log) :
          Len(events) < n => \/ h <= log[n] + 1
                             \/ \E m \in 1 .. Len(fetched) : fetched[m] = n

Tables ==
    /\ Len(events) <= Len(log) /\ RecordedIsPrefix
    /\ Len(done) <= Len(events) /\ ProcessedInOrder

Cycle ==
    /\ pc \in {"lastBlock", "compare"} =>
          start = IF blockLast = 0 THEN UNDEFINED ELSE blockLast
    /\ pc \in {"compare", "record", "process"} =>
          upTo \in Heights /\ blockLast <= upTo /\ upTo <= length
    /\ pc = "compare" => upTo <= archived + 2
    /\ pc = "record"  => FetchedFrom(upTo)
    /\ pc = "process" => MissingFrom(upTo)

FetchInv ==
    /\ Sorted
    /\ length <= archived + 2
    /\ blockLast <= length /\ MissingFrom(blockLast)
    /\ Tables
    /\ Cycle

-----------------------------------------------------------------------------
\* Heights are numbers from the first on, which is not 0.
LEMMA HeightFacts ==
    /\ FirstHeight \in Nat /\ FirstHeight > 0 /\ MaxBlocks \in Nat
    /\ Heights \subseteq Nat
    /\ \A h \in Heights : FirstHeight <= h
    /\ UNDEFINED \notin Nat
BY FetchAssumption DEF Heights

\* Appending to the log keeps its numbers, and those of what is recorded.
LEMMA LogGrows ==
    ASSUME TypeOK, NEW k \in 0 .. 2, length + 1 \in Heights,
           Len(log) + k <= MaxEvents,
           log' = log \o [m \in 1 .. k |-> length + 1]
    PROVE  /\ log' \in Seq(Heights)
           /\ Len(log') = Len(log) + k
           /\ \A n \in 1 .. Len(log) : log'[n] = log[n]
           /\ \A n \in Len(log) + 1 .. Len(log) + k : log'[n] = length + 1
           /\ Seq(1 .. Len(log)) \subseteq Seq(1 .. Len(log'))
<1> DEFINE new == [m \in 1 .. k |-> length + 1]
<1>1. new \in Seq(Heights) /\ Len(new) = k
      /\ \A m \in 1 .. k : new[m] = length + 1
  OBVIOUS
<1>2. log \in Seq(Heights) /\ Len(log) \in Nat
  BY DEF TypeOK
<1>3. log' = log \o new
  OBVIOUS
<1> HIDE DEF new
<1>4. /\ log' \in Seq(Heights)
      /\ Len(log') = Len(log) + k
      /\ \A n \in 1 .. Len(log) + k :
            log'[n] = IF n <= Len(log) THEN log[n] ELSE new[n - Len(log)]
  BY <1>1, <1>2, <1>3
<1>5. 1 .. Len(log) \subseteq 1 .. Len(log')
  BY <1>2, <1>4
<1>6. Seq(1 .. Len(log)) \subseteq Seq(1 .. Len(log'))
  BY <1>5, SeqMonotonic
<1> QED
  BY <1>1, <1>2, <1>4, <1>6

\* An event is one of a sequence without gaps up to its length.
LEMMA PrefixMembers ==
    ASSUME TypeOK, Tables
    PROVE  /\ \A n \in Nat : InEvents(n) <=> n \in 1 .. Len(events)
           /\ \A n \in Nat : InDone(n) <=> n \in 1 .. Len(done)
           /\ {Len(log), Len(events), Len(done)} \subseteq Nat
<1>1. Len(log) \in Nat /\ Len(events) \in Nat /\ Len(done) \in Nat
  BY DEF TypeOK
<1> QED
  BY <1>1 DEF Tables, RecordedIsPrefix, ProcessedInOrder, InEvents, InDone

-----------------------------------------------------------------------------
(***************************************************************************)
(* Types.                                                                  *)
(***************************************************************************)
LEMMA TypeInit == Init => TypeOK
<1> SUFFICES ASSUME Init PROVE TypeOK
  OBVIOUS
<1>1. /\ log \in Seq(Heights) /\ Len(log) <= 1
      /\ archived \in 0 .. length /\ length \in Heights
  BY FetchAssumption DEF Init, Heights
<1>2. {events, done, fetched} \subseteq Seq(1 .. Len(log))
  BY EmptySeq DEF Init
<1> QED
  BY <1>1, <1>2, FetchAssumption DEF Init, TypeOK, Pcs

LEMMA TypeStep == TypeOK /\ [Next]_vars => TypeOK'
<1> SUFFICES ASSUME TypeOK, [Next]_vars PROVE TypeOK'
  OBVIOUS
<1> USE HeightFacts
<1>1. CASE Mint
  <2>1. PICK k \in 0 .. 2 : /\ Len(log) + k <= MaxEvents
                            /\ log' = log \o [m \in 1 .. k |-> length + 1]
    BY <1>1 DEF Mint
  <2>2. length' \in Heights /\ length' = length + 1
    BY <1>1 DEF Mint, TypeOK, Heights
  <2>3. /\ log' \in Seq(Heights) /\ Len(log') <= MaxEvents
        /\ Seq(1 .. Len(log)) \subseteq Seq(1 .. Len(log'))
    BY <2>1, <2>2, LogGrows
  <2>4. archived' \in 0 .. length'
    BY <1>1, <2>2 DEF Mint, TypeOK
  <2> QED
    BY <1>1, <2>2, <2>3, <2>4 DEF Mint, TypeOK, dbVars, loopVars
<1>2. CASE Ingest
  BY <1>2 DEF Ingest, TypeOK, dbVars, loopVars
<1>3. CASE ReadZkapp
  BY <1>3 DEF ReadZkapp, TypeOK, Pcs, chainVars, dbVars
<1>4. CASE FetchLastBlock
  BY <1>4 DEF FetchLastBlock, TypeOK, Pcs, chainVars, dbVars
<1>5. CASE WaitForBlocks
  BY <1>5 DEF WaitForBlocks, TypeOK, Pcs, chainVars, dbVars
<1>6. CASE FetchEvents
  <2>1. PICK first, last \in 0 .. Len(log) :
            /\ Scanned = first .. last
            /\ fetched' = [n \in 1 .. last + 1 - first |-> first + n - 1]
    BY <1>6 DEF FetchEvents
  <2>2. \A n \in 1 .. last + 1 - first : first + n - 1 \in Scanned
    BY <2>1 DEF TypeOK
  <2>3. Scanned \subseteq 1 .. Len(log)
    BY DEF Scanned
  <2>4. fetched' \in Seq(1 .. Len(log))
    <3>1. CASE last + 1 - first \in Nat
      <4> DEFINE f == [n \in 1 .. last + 1 - first |-> first + n - 1]
      <4>1. \A n \in 1 .. last + 1 - first : f[n] \in 1 .. Len(log)
        BY <2>2, <2>3
      <4>2. f \in Seq(1 .. Len(log))
        BY <3>1, <4>1
      <4> QED
        BY <2>1, <4>2
    <3>2. CASE last + 1 - first < 0
      <4>1. 1 .. last + 1 - first = {}
        BY <3>2
      <4>2. fetched' = <<>>
        BY <2>1, <4>1
      <4> QED
        BY <4>2, EmptySeq
    <3> QED
      BY <3>1, <3>2
  <2> QED
    BY <1>6, <2>4 DEF FetchEvents, TypeOK, Pcs, chainVars, dbVars
<1>7. CASE RecordEvent
  <2>1. /\ Head(fetched) \in 1 .. Len(log)
        /\ Tail(fetched) \in Seq(1 .. Len(log))
    BY <1>7, HeadTailProperties DEF RecordEvent, TypeOK
  <2>2. log[Head(fetched)] \in Heights
    BY <2>1, ElementOfSeq DEF TypeOK
  <2>3. events' \in Seq(1 .. Len(log))
    <3>1. \/ events' = events
          \/ events' = Append(events, Head(fetched))
      BY <1>7 DEF RecordEvent
    <3>2. events \in Seq(1 .. Len(log))
      BY DEF TypeOK
    <3>3. Append(events, Head(fetched)) \in Seq(1 .. Len(log))
      BY <2>1, <3>2, AppendProperties
    <3> QED
      BY <3>1, <3>2, <3>3
  <2>4. start' \in {UNDEFINED} \cup Heights
    BY <1>7, <2>2 DEF RecordEvent, TypeOK
  <2> QED
    BY <1>7, <2>1, <2>3, <2>4 DEF RecordEvent, TypeOK, chainVars
<1>8. CASE EndRecording
  BY <1>8 DEF EndRecording, TypeOK, Pcs, chainVars, dbVars
<1>9. CASE ProcessEvent
  <2>1. PICK m \in Unprocessed : done' = Append(done, events[m])
    BY <1>9 DEF ProcessEvent
  <2>2. events[m] \in 1 .. Len(log)
    BY <2>1, ElementOfSeq DEF Unprocessed, TypeOK
  <2>3. done' \in Seq(1 .. Len(log))
    BY <2>1, <2>2 DEF TypeOK
  <2> QED
    BY <1>9, <2>3 DEF ProcessEvent, TypeOK, chainVars, loopVars
<1>10. CASE UpdateZkapp
  BY <1>10 DEF UpdateZkapp, TypeOK, Pcs, chainVars
<1>11. CASE Crash
  <2>1. crashes' \in 0 .. MaxCrashes
    BY <1>11, FetchAssumption DEF Crash, TypeOK
  <2>2. fetched' \in Seq(1 .. Len(log))
    BY <1>11, EmptySeq DEF Crash
  <2> QED
    BY <1>11, <2>1, <2>2 DEF Crash, TypeOK, Pcs, chainVars, dbVars
<1>12. CASE UNCHANGED vars
  BY <1>12 DEF vars, TypeOK, chainVars, dbVars, loopVars
<1> QED
  BY <1>1, <1>2, <1>3, <1>4, <1>5, <1>6, <1>7, <1>8, <1>9, <1>10, <1>11, <1>12
  DEF Next, Loop

\* The variables have their types: heights are those of the network, recorded
\* and processed events are events of the log.
THEOREM TypeCorrect == Spec => []TypeOK
BY TypeInit, TypeStep, PTL DEF Spec

-----------------------------------------------------------------------------
(***************************************************************************)
(* No event is skipped.                                                    *)
(***************************************************************************)

\* Heights and lengths are numbers.
Numbers ==
    /\ length \in Nat /\ archived \in Nat /\ blockLast \in Nat /\ upTo \in Nat
    /\ Len(log) \in Nat /\ Len(events) \in Nat /\ Len(done) \in Nat
    /\ Len(fetched) \in Nat
    /\ \A n \in 1 .. Len(log) : log[n] \in Nat

LEMMA NumbersOK == TypeOK => Numbers
<1> SUFFICES ASSUME TypeOK PROVE Numbers
  OBVIOUS
<1>1. log \in Seq(Heights) /\ Heights \subseteq Nat
  BY HeightFacts DEF TypeOK
<1>2. \A n \in 1 .. Len(log) : log[n] \in Nat
  BY <1>1, ElementOfSeq
<1>3. length \in Nat /\ archived \in Nat /\ blockLast \in Nat /\ upTo \in Nat
  BY HeightFacts DEF TypeOK
<1>4. /\ Len(log) \in Nat /\ Len(events) \in Nat /\ Len(done) \in Nat
      /\ Len(fetched) \in Nat
  BY DEF TypeOK
<1> QED
  BY <1>2, <1>3, <1>4 DEF Numbers

\* Where a cycle begins to scan.
LEMMA FetchFromLast ==
    ASSUME TypeOK, start = IF blockLast = 0 THEN UNDEFINED ELSE blockLast
    PROVE  FetchFrom(start) = IF blockLast = 0 THEN 0 ELSE blockLast - 1
BY HeightFacts DEF TypeOK, FetchFrom

\* A scan has no gaps, starts at the latest with the first event that is not
\* recorded, and leaves those out that come in the last two blocks.
LEMMA ScanIsComplete ==
    ASSUME TypeOK, FetchInv, pc = "compare", NEW first \in 0 .. Len(log),
           NEW last \in 0 .. Len(log), Scanned = first .. last,
           fetched' = [n \in 1 .. last + 1 - first |-> first + n - 1],
           UNCHANGED <<log, events, upTo>>
    PROVE  FetchedFrom(upTo)'
<1>1. Numbers
  BY NumbersOK
<1> USE DEF Numbers
<1>2. FetchFrom(start) = IF blockLast = 0 THEN 0 ELSE blockLast - 1
  BY FetchFromLast DEF FetchInv, Cycle
<1>3. ASSUME NEW n \in 1 .. Len(log), Len(events) < n
      PROVE  upTo <= log[n] + 1 \/ n \in Scanned
  <2>1. FetchFrom(start) <= log[n]
    <3>1. blockLast <= log[n] + 1
      BY <1>3 DEF FetchInv, MissingFrom
    <3> QED
      BY <1>1, <1>2, <3>1
  <2>2. upTo <= archived + 2
    BY DEF FetchInv, Cycle
  <2> QED
    BY <1>1, <2>1, <2>2 DEF Scanned
<1>4. ASSUME first <= last
      PROVE  first <= Len(events) + 1
  <2> SUFFICES ASSUME Len(events) + 1 < first PROVE FALSE
    BY <1>1
  <2> DEFINE n == Len(events) + 1
  <2>1. first \in Scanned
    BY <1>1, <1>4
  <2>2. n \in 1 .. Len(log) /\ n < first /\ first \in 1 .. Len(log)
    BY <1>1, <2>1 DEF Scanned
  <2>3. log[n] <= log[first]
    BY <2>2 DEF FetchInv, Sorted
  <2>4. FetchFrom(start) <= log[n]
    <3>1. blockLast <= log[n] + 1
      BY <1>1, <2>2 DEF FetchInv, MissingFrom
    <3> QED
      BY <1>1, <1>2, <2>2, <3>1
  <2>5. n \in Scanned
    BY <1>1, <2>1, <2>2, <2>3, <2>4 DEF Scanned
  <2> QED
    BY <2>2, <2>5, <1>1
<1> DEFINE k == last + 1 - first
<1>5. CASE first <= last
  <2>1. k \in Nat /\ k >= 1 /\ Len(fetched') = k
        /\ \A n \in 1 .. k : fetched'[n] = first + n - 1
    BY <1>1, <1>5
  <2>2. \A n \in 1 .. Len(fetched') : fetched'[n] = fetched'[1] + n - 1
    BY <2>1
  <2>3. fetched'[1] <= Len(events') + 1
    BY <1>4, <1>5, <2>1
  <2>4. ASSUME NEW n \in first .. last
        PROVE  \E m \in 1 .. Len(fetched') : fetched'[m] = n
    <3>1. n - first + 1 \in 1 .. k /\ fetched'[n - first + 1] = n
      BY <1>1, <2>1
    <3> QED
      BY <2>1, <3>1
  <2> QED
    BY <1>3, <2>2, <2>3, <2>4 DEF FetchedFrom
<1>6. CASE last < first
  <2>1. 1 .. k = {} /\ first .. last = {}
    BY <1>1, <1>6
  <2>2. fetched' = <<>>
    BY <2>1
  <2>3. Scanned = {}
    BY <2>1
  <2>4. \A n \in 1 .. Len(log) : Len(events) < n => upTo <= log[n] + 1
    <3> SUFFICES ASSUME NEW n \in 1 .. Len(log), Len(events) < n
                 PROVE  upTo <= log[n] + 1
      OBVIOUS
    <3>1. upTo <= log[n] + 1 \/ n \in Scanned
      BY <1>3
    <3>2. n \notin Scanned
      BY <2>3
    <3> QED
      BY <3>1, <3>2
  <2>5. Len(fetched') = 0
    <3>1. Len(<<>>) = 0
      BY EmptySeq
    <3> QED
      BY <2>2, <3>1, Zenon
  <2>6. 1 .. Len(fetched') = {}
    <3>1. 1 .. 0 = {}
      OBVIOUS
    <3> QED
      BY <2>5, <3>1, Zenon
  <2> QED
    BY <2>2, <2>4, <2>6 DEF FetchedFrom
<1> QED
  BY <1>1, <1>5, <1>6

\* Recording the next event keeps the table a prefix and loses none.
LEMMA RecordingKeeps ==
    ASSUME TypeOK, FetchInv, RecordEvent
    PROVE  Tables' /\ FetchedFrom(upTo)' /\ MissingFrom(blockLast)'
<1> USE HeightFacts
<1> DEFINE n0 == fetched[1]
<1>1. /\ fetched \in Seq(1 .. Len(log)) /\ fetched # <<>>
      /\ Numbers
      /\ n0 = Head(fetched) /\ n0 \in 1 .. Len(log)
      /\ Len(fetched) \in Nat \ {0}
  <2>1. fetched \in Seq(1 .. Len(log)) /\ fetched # <<>>
    BY DEF TypeOK, RecordEvent
  <2> QED
    BY <2>1, NumbersOK
<1> USE DEF Numbers
<1>2. /\ Len(fetched') = Len(fetched) - 1
      /\ \A n \in 1 .. Len(fetched') : fetched'[n] = fetched[n + 1]
  BY <1>1 DEF RecordEvent
<1>3. FetchedFrom(upTo) /\ Tables
  BY DEF RecordEvent, FetchInv, Cycle
<1>4. n0 <= Len(events) + 1 /\ \A n \in 1 .. Len(fetched) : fetched[n] = n0 + n - 1
  BY <1>1, <1>3 DEF FetchedFrom
<1>5. \/ /\ n0 <= Len(events) /\ UNCHANGED events
      \/ /\ n0 = Len(events) + 1
         /\ events' = Append(events, n0)
  BY <1>1, <1>3, <1>4, PrefixMembers DEF RecordEvent
<1>6. /\ Len(events) <= Len(events') /\ Len(events') \in Nat
      /\ n0 <= Len(events') /\ Len(events') <= Len(log)
      /\ \A n \in 1 .. Len(events') : events'[n] = n
      /\ Len(events') = Len(events) \/ Len(events') = n0
  <2>1. events \in Seq(1 .. Len(log)) /\ \A n \in 1 .. Len(events) : events[n] = n
    BY <1>3 DEF TypeOK, Tables, RecordedIsPrefix
  <2>2. Len(events) <= Len(log)
    BY <1>3 DEF Tables
  <2> HIDE DEF n0
  <2>3. CASE n0 <= Len(events) /\ UNCHANGED events
    BY <1>1, <2>1, <2>2, <2>3
  <2>4. CASE n0 = Len(events) + 1 /\ events' = Append(events, n0)
    BY <1>1, <2>1, <2>2, <2>4
  <2> QED
    BY <1>5, <2>3, <2>4
<1>7. UNCHANGED <<log, upTo, done, blockLast>>
  BY DEF RecordEvent, chainVars
<1>8. Tables'
  BY <1>1, <1>3, <1>6, <1>7 DEF Tables, RecordedIsPrefix, ProcessedInOrder
<1>9. MissingFrom(blockLast)'
  BY <1>1, <1>6, <1>7 DEF FetchInv, MissingFrom
<1>10. \A n \in 1 .. Len(fetched') : fetched'[n] = n0 + n
  BY <1>1, <1>2, <1>4
<1>11. \A n \in 1 .. Len(fetched') : fetched'[n] = fetched'[1] + n - 1
  <2>1. ASSUME NEW n \in 1 .. Len(fetched')
        PROVE  fetched'[n] = fetched'[1] + n - 1
    <3>1. 1 \in 1 .. Len(fetched')
      BY <1>1, <1>2
    <3>2. fetched'[1] = n0 + 1 /\ fetched'[n] = n0 + n
      BY <1>10, <3>1
    <3> QED
      BY <1>1, <3>2
  <2> QED
    BY <2>1
<1>12. fetched' # <<>> => fetched'[1] <= Len(events') + 1
  BY <1>1, <1>2, <1>6, <1>10 DEF RecordEvent
<1>13. ASSUME NEW n \in 1 .. Len(log), Len(events') < n, upTo > log[n] + 1
       PROVE  \E m \in 1 .. Len(fetched') : fetched'[m] = n
  <2>1. PICK m \in 1 .. Len(fetched) : fetched[m] = n
    <3>1. Len(events) < n
      BY <1>1, <1>6, <1>13
    <3>2. ~(upTo <= log[n] + 1)
      BY <1>1, <1>13
    <3> QED
      BY <1>3, <3>1, <3>2 DEF FetchedFrom
  <2>2. m # 1
    BY <1>1, <1>6, <1>13, <2>1
  <2>3. m - 1 \in 1 .. Len(fetched') /\ fetched'[m - 1] = n
    BY <1>1, <1>2, <2>1, <2>2
  <2> QED
    BY <2>3
<1>14. ASSUME NEW n \in 1 .. Len(log), Len(events') < n
       PROVE  \/ upTo <= log[n] + 1
              \/ \E m \in 1 .. Len(fetched') : fetched'[m] = n
  BY <1>1, <1>13, <1>14
<1>15. FetchedFrom(upTo)'
  BY <1>7, <1>11, <1>12, <1>14 DEF FetchedFrom
<1> QED
  BY <1>8, <1>9, <1>15

\* Recorded events are processed in their order.
LEMMA ProcessingKeeps ==
    ASSUME TypeOK, FetchInv, ProcessEvent
    PROVE  Tables'
<1>1. Numbers
  BY NumbersOK
<1> USE DEF Numbers
<1>2. PICK m \in Unprocessed : ComesFirst(m) /\ done' = Append(done, events[m])
  BY DEF ProcessEvent
<1>3. /\ Len(events) <= Len(log) /\ Len(done) <= Len(events)
      /\ \A n \in 1 .. Len(events) : events[n] = n
      /\ \A n \in 1 .. Len(done) : done[n] = n
  BY DEF FetchInv, Tables, RecordedIsPrefix, ProcessedInOrder
<1>4. \A n \in 1 .. Len(events) : n \in Unprocessed <=> Len(done) < n
  BY <1>1, <1>3, PrefixMembers DEF FetchInv, Unprocessed
<1>5. m \in 1 .. Len(events) /\ Len(done) < m
  BY <1>2, <1>4 DEF Unprocessed
<1> DEFINE l == Len(done) + 1
<1>6. l \in 1 .. Len(events) /\ l \in Unprocessed /\ l <= m
  BY <1>1, <1>4, <1>5
<1>7. log[l] <= log[m]
  BY <1>1, <1>3, <1>5, <1>6 DEF FetchInv, Sorted
<1>8. m <= l
  <2>1. log[m] < log[l] \/ m <= l
    BY <1>2, <1>3, <1>5, <1>6 DEF ComesFirst
  <2>2. log[l] \in Nat /\ log[m] \in Nat
    BY <1>1, <1>3, <1>5, <1>6
  <2> QED
    BY <1>1, <1>5, <1>7, <2>1, <2>2
<1>9. done' = Append(done, l)
  BY <1>1, <1>2, <1>3, <1>5, <1>6, <1>8
<1>10. done \in Seq(1 .. Len(log)) /\ l \in 1 .. Len(log)
  BY <1>1, <1>3, <1>6 DEF TypeOK
<1>11. /\ Len(done') = l
       /\ \A n \in 1 .. Len(done') : done'[n] = n
  BY <1>1, <1>3, <1>9, <1>10, AppendProperties
<1>12. UNCHANGED <<log, events>>
  BY DEF ProcessEvent, chainVars
<1> QED
  BY <1>3, <1>6, <1>11, <1>12 DEF Tables, RecordedIsPrefix, ProcessedInOrder

\* A new block's events come after those of the blocks before.
LEMMA MintKeeps ==
    ASSUME TypeOK, FetchInv, Mint, MaxLag <= 2
    PROVE  FetchInv'
<1>1. Numbers
  BY NumbersOK
<1> USE DEF Numbers
<1>2. PICK k \in 0 .. 2 : /\ Len(log) + k <= MaxEvents
                          /\ log' = log \o [m \in 1 .. k |-> length + 1]
  BY DEF Mint
<1>3. /\ UNCHANGED <<archived, dbVars, loopVars>>
      /\ length' = length + 1 /\ length + 1 \in Heights
      /\ length + 1 - archived <= MaxLag
  BY HeightFacts DEF Mint, TypeOK, Heights
<1>4. /\ Len(log') = Len(log) + k
      /\ \A n \in 1 .. Len(log) : log'[n] = log[n]
      /\ \A n \in Len(log) + 1 .. Len(log) + k : log'[n] = length + 1
  BY <1>2, <1>3, LogGrows
<1>5. \A n \in 1 .. Len(log) : log[n] <= length
  BY DEF FetchInv, Sorted
<1>6. Sorted'
  <2> SUFFICES ASSUME NEW m \in 1 .. Len(log'), NEW n \in 1 .. Len(log'), m <= n
               PROVE  log'[m] <= log'[n]
    BY <1>1, <1>3, <1>4, <1>5 DEF Sorted
  <2>1. CASE n <= Len(log)
    BY <1>1, <1>4, <2>1 DEF FetchInv, Sorted
  <2>2. CASE Len(log) < n
    <3>1. log'[n] = length + 1
      BY <1>1, <1>4, <2>2
    <3>2. log'[m] <= length + 1
      <4>1. CASE m <= Len(log)
        <5>1. m \in 1 .. Len(log) /\ log'[m] = log[m]
          BY <1>1, <1>4, <4>1
        <5> QED
          BY <1>1, <1>5, <5>1
      <4>2. CASE Len(log) < m
        <5>1. log'[m] = length + 1
          BY <1>1, <1>4, <4>2
        <5> QED
          BY <1>1, <5>1
      <4> QED
        BY <1>1, <4>1, <4>2
    <3> QED
      BY <3>1, <3>2
  <2> QED
    BY <1>1, <1>4, <2>1, <2>2
<1>7. length' <= archived' + 2
  BY <1>1, <1>3, FetchAssumption
<1>8. ASSUME NEW h \in Nat, h <= length, MissingFrom(h)
      PROVE  \A n \in 1 .. Len(log') : Len(events) < n => h <= log'[n] + 1
  <2> SUFFICES ASSUME NEW n \in 1 .. Len(log'), Len(events) < n
               PROVE  h <= log'[n] + 1
    OBVIOUS
  <2>1. CASE n <= Len(log)
    <3>1. n \in 1 .. Len(log) /\ log'[n] = log[n]
      BY <1>1, <1>4, <2>1
    <3> QED
      BY <1>8, <3>1 DEF MissingFrom
  <2>2. CASE Len(log) < n
    <3>1. log'[n] = length + 1
      BY <1>1, <1>4, <2>2
    <3> QED
      BY <1>1, <1>8, <3>1
  <2> QED
    BY <1>1, <1>4, <2>1, <2>2
<1>9. blockLast' <= length' /\ MissingFrom(blockLast)'
  <2>1. UNCHANGED <<blockLast, events>>
    BY <1>3 DEF dbVars
  <2>2. blockLast <= length /\ MissingFrom(blockLast)
    BY DEF FetchInv
  <2>3. \A n \in 1 .. Len(log') : Len(events) < n => blockLast <= log'[n] + 1
    BY <1>1, <1>8, <2>2
  <2>4. MissingFrom(blockLast)'
    BY <2>1, <2>3 DEF MissingFrom
  <2> QED
    BY <1>1, <1>3, <2>1, <2>2, <2>4
<1>10. Tables'
  BY <1>1, <1>3, <1>4
  DEF FetchInv, Tables, RecordedIsPrefix, ProcessedInOrder, dbVars
<1>11. ASSUME FetchedFrom(upTo), upTo <= length
       PROVE  FetchedFrom(upTo)'
  <2>1. ASSUME NEW n \in 1 .. Len(log'), Len(events) < n
        PROVE  \/ upTo <= log'[n] + 1
               \/ \E m \in 1 .. Len(fetched) : fetched[m] = n
    <3>1. CASE n <= Len(log)
      BY <1>1, <1>4, <1>11, <2>1, <3>1 DEF FetchedFrom
    <3>2. CASE Len(log) < n
      BY <1>1, <1>4, <1>11, <2>1, <3>2
    <3> QED
      BY <1>1, <1>4, <3>1, <3>2
  <2> QED
    BY <1>3, <1>11, <2>1 DEF FetchedFrom, dbVars, loopVars
<1>12. ASSUME MissingFrom(upTo), upTo <= length
       PROVE  MissingFrom(upTo)'
  BY <1>1, <1>3, <1>8, <1>12 DEF MissingFrom, dbVars, loopVars
<1>13. Cycle'
  BY <1>1, <1>3, <1>11, <1>12 DEF FetchInv, Cycle, dbVars, loopVars
<1> QED
  BY <1>6, <1>7, <1>9, <1>10, <1>13 DEF FetchInv

\* The invariant holds of the first block.
LEMMA FetchInit == Init => FetchInv
<1> SUFFICES ASSUME Init PROVE FetchInv
  OBVIOUS
<1>1. /\ Len(log) = 1 /\ log[1] = length /\ length \in Nat
      /\ archived \in Nat /\ length <= archived + 2 /\ blockLast = 0
  BY FetchAssumption DEF Init
<1>2. Len(events) = 0 /\ Len(done) = 0
  BY EmptySeq DEF Init
<1> QED
  BY <1>1, <1>2
  DEF Init, FetchInv, Sorted, MissingFrom, Tables, RecordedIsPrefix,
      ProcessedInOrder, Cycle

\* A step of the system keeps the invariant.
LEMMA FetchStep ==
    ASSUME MaxLag <= 2, TypeOK, FetchInv, [Next]_vars
    PROVE  FetchInv'
<1> DEFINE Same == /\ Sorted /\ length <= archived + 2
                   /\ blockLast <= length /\ MissingFrom(blockLast)
                   /\ Tables
<1>0. Numbers /\ Same
  BY NumbersOK DEF FetchInv
<1>1. ASSUME UNCHANGED <<chainVars, dbVars>> PROVE Same'
  BY <1>0, <1>1
  DEF Sorted, MissingFrom, Tables, RecordedIsPrefix, ProcessedInOrder,
      chainVars, dbVars
<1> HIDE DEF Same
<1> USE DEF chainVars, dbVars, loopVars
<1>2. CASE Mint
  BY <1>2, MintKeeps
<1>3. CASE Ingest
  <2>1. Same'
    BY <1>0, <1>3
    DEF Ingest, Same, Sorted, MissingFrom, Tables, RecordedIsPrefix,
        ProcessedInOrder, Numbers
  <2>2. Cycle'
    BY <1>0, <1>3
    DEF Ingest, FetchInv, Cycle, FetchedFrom, MissingFrom, Numbers
  <2> QED
    BY <2>1, <2>2 DEF FetchInv, Same
<1>4. CASE ReadZkapp
  <2>1. Same'
    BY <1>1, <1>4 DEF ReadZkapp
  <2>2. Cycle'
    BY <1>4 DEF ReadZkapp, Cycle
  <2> QED
    BY <2>1, <2>2 DEF FetchInv, Same
<1>5. CASE FetchLastBlock
  <2>1. Same'
    BY <1>1, <1>5 DEF FetchLastBlock
  <2>2. Cycle'
    BY <1>0, <1>5 DEF FetchLastBlock, FetchInv, Cycle, TypeOK, Numbers
  <2> QED
    BY <2>1, <2>2 DEF FetchInv, Same
<1>6. CASE WaitForBlocks
  <2>1. Same'
    BY <1>1, <1>6 DEF WaitForBlocks
  <2>2. Cycle'
    BY <1>6 DEF WaitForBlocks, Cycle
  <2> QED
    BY <2>1, <2>2 DEF FetchInv, Same
<1>7. CASE FetchEvents
  <2>1. Same'
    BY <1>1, <1>7 DEF FetchEvents
  <2>2. FetchedFrom(upTo)'
    BY <1>7, ScanIsComplete DEF FetchEvents
  <2>3. Cycle'
    BY <1>7, <2>2 DEF FetchEvents, FetchInv, Cycle
  <2> QED
    BY <2>1, <2>3 DEF FetchInv, Same
<1>8. CASE RecordEvent
  <2>1. Tables' /\ FetchedFrom(upTo)' /\ MissingFrom(blockLast)'
    BY <1>8, RecordingKeeps
  <2>2. Same'
    BY <1>0, <1>8, <2>1 DEF RecordEvent, Same, Sorted
  <2>3. Cycle'
    BY <1>8, <2>1 DEF RecordEvent, FetchInv, Cycle
  <2> QED
    BY <2>2, <2>3 DEF FetchInv, Same
<1>9. CASE EndRecording
  <2>1. Same'
    BY <1>1, <1>9 DEF EndRecording
  <2>2. 1 .. Len(fetched) = {}
    BY <1>9, EmptySeq DEF EndRecording
  <2>3. MissingFrom(upTo)
    BY <1>9, <2>2 DEF EndRecording, FetchInv, Cycle, FetchedFrom, MissingFrom
  <2>4. Cycle'
    BY <1>9, <2>3 DEF EndRecording, FetchInv, Cycle, MissingFrom
  <2> QED
    BY <2>1, <2>4 DEF FetchInv, Same
<1>10. CASE ProcessEvent
  <2>1. Tables'
    BY <1>10, ProcessingKeeps
  <2>2. Same'
    BY <1>0, <1>10, <2>1 DEF ProcessEvent, Same, Sorted, MissingFrom
  <2>3. Cycle'
    BY <1>10 DEF ProcessEvent, FetchInv, Cycle, MissingFrom
  <2> QED
    BY <2>2, <2>3 DEF FetchInv, Same
<1>11. CASE UpdateZkapp
  <2>1. upTo <= length /\ MissingFrom(upTo)
    BY <1>11 DEF UpdateZkapp, FetchInv, Cycle
  <2>2. Same'
    BY <1>0, <1>11, <2>1
    DEF UpdateZkapp, Same, Sorted, MissingFrom, Tables, RecordedIsPrefix,
        ProcessedInOrder
  <2>3. Cycle'
    BY <1>11 DEF UpdateZkapp, Cycle
  <2> QED
    BY <2>2, <2>3 DEF FetchInv, Same
<1>12. CASE Crash
  <2>1. Same'
    BY <1>1, <1>12 DEF Crash
  <2>2. Cycle'
    BY <1>12 DEF Crash, Cycle
  <2> QED
    BY <2>1, <2>2 DEF FetchInv, Same
<1>13. CASE UNCHANGED vars
  <2>1. Same'
    BY <1>1, <1>13 DEF vars
  <2>2. Cycle'
    BY <1>13 DEF vars, FetchInv, Cycle, FetchedFrom, MissingFrom
  <2> QED
    BY <2>1, <2>2 DEF FetchInv, Same
<1> QED
  BY <1>2, <1>3, <1>4, <1>5, <1>6, <1>7, <1>8, <1>9, <1>10, <1>11, <1>12, <1>13
  DEF Next, Loop

LEMMA FetchInvariant ==
    ASSUME MaxLag <= 2
    PROVE  Spec => [](TypeOK /\ FetchInv)
<1>1. Init => TypeOK /\ FetchInv
  BY TypeInit, FetchInit
<1>2. TypeOK /\ FetchInv /\ [Next]_vars => (TypeOK /\ FetchInv)'
  BY TypeStep, FetchStep
<1> QED
  BY <1>1, <1>2, PTL DEF Spec

\* If the archive is never more than two blocks behind the network, the next
\* cycle of the indexer scans the blocks of all events it has not recorded.
THEOREM NoneSkipped ==
    ASSUME MaxLag <= 2
    PROVE  Spec => []NothingSkipped
<1>1. TypeOK /\ FetchInv => NothingSkipped
  <2> SUFFICES ASSUME TypeOK, FetchInv, NEW n \in 1 .. Len(log), ~InEvents(n)
               PROVE  log[n] + 1 >= blockLast
    BY DEF NothingSkipped
  <2>1. Numbers
    BY NumbersOK
  <2>2. Len(events) < n
    BY <2>1, PrefixMembers DEF FetchInv, Numbers
  <2> QED
    BY <2>1, <2>2 DEF FetchInv, MissingFrom, Numbers
<1> QED
  BY <1>1, FetchInvariant, PTL

\* Nor are events recorded twice or out of order: the table holds a prefix of
\* the zkApp's log.
THEOREM TableIsPrefix ==
    ASSUME MaxLag <= 2
    PROVE  Spec => []RecordedIsPrefix
<1>1. TypeOK /\ FetchInv => RecordedIsPrefix
  BY DEF FetchInv, Tables
<1> QED
  BY <1>1, FetchInvariant, PTL

\* Events are processed in the order of the chain, each once, over all cycles
\* and restarts.
THEOREM InChainOrder ==
    ASSUME MaxLag <= 2
    PROVE  Spec => []ProcessedInOrder
<1>1. TypeOK /\ FetchInv => ProcessedInOrder
  BY DEF FetchInv, Tables
<1> QED
  BY <1>1, FetchInvariant, PTL

-----------------------------------------------------------------------------
(***************************************************************************)
(* Waiting for blocks.                                                     *)
(***************************************************************************)
\* What defines Pow10.
IsPow10(f) == f = [d \in 0 .. 10 |-> IF d = 0 THEN 1 ELSE 10 * f[d - 1]]

\* Powers of ten, up to the first that is no UInt32.
LEMMA Pow10Facts ==
    /\ Pow10[0] = 1
    /\ \A d \in 0 .. 10 : Pow10[d] \in Nat
    /\ \A c, d \in 0 .. 10 : c <= d => Pow10[c] <= Pow10[d]
    /\ 4294967296 < Pow10[10]
<1> DEFINE f == [d \in 0 .. 10 |->
                    IF d = 0 THEN 1 ELSE IF d = 1 THEN 10
                    ELSE IF d = 2 THEN 100 ELSE IF d = 3 THEN 1000
                    ELSE IF d = 4 THEN 10000 ELSE IF d = 5 THEN 100000
                    ELSE IF d = 6 THEN 1000000 ELSE IF d = 7 THEN 10000000
                    ELSE IF d = 8 THEN 100000000
                    ELSE IF d = 9 THEN 1000000000 ELSE 10000000000]
<1>1. \A d \in 0 .. 10 : f[d] = IF d = 0 THEN 1 ELSE 10 * f[d - 1]
  OBVIOUS
<1>2. IsPow10(f)
  BY <1>1 DEF IsPow10
<1>3. IsPow10(Pow10)
  BY <1>2 DEF Pow10, IsPow10
<1>4. Pow10[0] = 1 /\ \A d \in 0 .. 10 : d # 0 => Pow10[d] = 10 * Pow10[d - 1]
  BY <1>3 DEF IsPow10
<1>5. /\ Pow10[1] = 10 /\ Pow10[2] = 100 /\ Pow10[3] = 1000
      /\ Pow10[4] = 10000 /\ Pow10[5] = 100000 /\ Pow10[6] = 1000000
      /\ Pow10[7] = 10000000 /\ Pow10[8] = 100000000
      /\ Pow10[9] = 1000000000 /\ Pow10[10] = 10000000000
  BY <1>4
<1>6. \A d \in 0 .. 10 : Pow10[d] = f[d]
  BY <1>4, <1>5
<1>7. \A c, d \in 0 .. 10 : c <= d => f[c] <= f[d]
  OBVIOUS
<1>8. \A d \in 0 .. 10 : f[d] \in Nat
  OBVIOUS
<1> QED
  <2> HIDE DEF f
  <2> QED  BY <1>4, <1>5, <1>6, <1>7, <1>8

\* A UInt32 that is not 0 has a number of digits.
LEMMA DigitsFacts ==
    ASSUME NEW m \in Nat, 0 < m, m < 4294967296
    PROVE  /\ Digits(m) \in 1 .. 10
           /\ Pow10[Digits(m) - 1] <= m
           /\ m < Pow10[Digits(m)]
<1> DEFINE Enough == {d \in Nat : d \in 1 .. 10 /\ m < Pow10[d]}
<1>1. Enough \in SUBSET Nat /\ 10 \in Enough
  <2>1. 10 \in 0 .. 10 /\ Pow10[10] \in Nat /\ m < Pow10[10]
    BY Pow10Facts
  <2> QED  BY <2>1
<1>2. PICK d \in Enough : \A k \in Nat : k < d => k \notin Enough
  <2> HIDE DEF Enough
  <2> QED  BY <1>1, LeastExists
<1>3. d \in 1 .. 10 /\ m < Pow10[d]
  OBVIOUS
<1>4. Pow10[d - 1] <= m
  <2>1. CASE d = 1
    BY <2>1, Pow10Facts
  <2>2. CASE d # 1
    <3>1. d - 1 \in 1 .. 10 /\ d - 1 < d /\ d - 1 \in Nat
      BY <1>3, <2>2
    <3>2. Pow10[d - 1] \in Nat
      BY <3>1, Pow10Facts
    <3> QED  BY <1>2, <3>1, <3>2
  <2> QED  BY <2>1, <2>2
<1> QED  BY <1>3, <1>4 DEF Digits

\* Of two heights the greater string is of the greater height, unless the other
\* has more digits.
LEMMA GreaterFacts ==
    ASSUME NEW m \in Nat, 0 < m, m < 4294967296,
           NEW n \in Nat, 0 < n, n < 4294967296,
           GreaterUInt32(m, n)
    PROVE  m > n \/ Digits(m) < Digits(n)
<1>1. /\ Digits(m) \in 1 .. 10 /\ Pow10[Digits(m) - 1] <= m
      /\ Digits(n) \in 1 .. 10 /\ n < Pow10[Digits(n)]
  BY DigitsFacts
<1>2. CASE Digits(m) = Digits(n)
  <2>1. Digits(n) - Digits(m) = 0 /\ Digits(m) <= Digits(n)
    BY <1>1, <1>2
  <2>2. m * Pow10[0] > n
    BY <2>1 DEF GreaterUInt32
  <2> QED  BY <2>2, Pow10Facts
<1>3. CASE Digits(n) < Digits(m)
  <2> DEFINE c == Digits(n)
             d == Digits(m) - 1
  <2>1. c \in 0 .. 10 /\ d \in 0 .. 10 /\ c <= d
    BY <1>1, <1>3
  <2> HIDE DEF c, d
  <2>2. Pow10[c] \in Nat /\ Pow10[d] \in Nat /\ Pow10[c] <= Pow10[d]
    BY <2>1, Pow10Facts
  <2>3. n < Pow10[c] /\ Pow10[d] <= m
    BY <1>1 DEF c, d
  <2> QED  BY <2>2, <2>3
<1> QED  BY <1>1, <1>2, <1>3

\* When heights are compared, the network's is known.
LastBlockKnown == pc = "compare" => upTo \in Heights

\* It is read before each comparison.
LEMMA KnownInvariant == Spec => []LastBlockKnown
<1>1. Init => LastBlockKnown
  BY DEF Init, LastBlockKnown
<1>2. TypeOK /\ LastBlockKnown /\ [Next]_vars => LastBlockKnown'
  BY DEF TypeOK, LastBlockKnown, Next, Loop, Mint, Ingest, ReadZkapp,
         FetchLastBlock, WaitForBlocks, FetchEvents, RecordEvent, EndRecording,
         ProcessEvent, UpdateZkapp, Crash, vars, chainVars, dbVars, loopVars,
         Heights
<1> QED  BY <1>1, <1>2, TypeCorrect, PTL DEF Spec

\* The indexer ends a cycle early only when the network is behind the last height
\* scanned, or has a digit more than it, for all heights, which are UInt32.
THEOREM WaitsOnlyForBlocks ==
    ASSUME FirstHeight + MaxBlocks < 4294967296
    PROVE  Spec => WaitsForBlocksOrDigit
<1>1. TypeOK /\ LastBlockKnown /\ [Next]_vars
        => [WaitForBlocks => start > upTo \/ Digits(start) < Digits(upTo)]_vars
  <2> SUFFICES ASSUME TypeOK, LastBlockKnown, WaitForBlocks
               PROVE  start > upTo \/ Digits(start) < Digits(upTo)
    OBVIOUS
  <2>1. upTo \in Heights /\ start \in Heights /\ GreaterUInt32(start, upTo)
    BY DEF TypeOK, LastBlockKnown, WaitForBlocks, Waits
  <2>2. \A h \in Heights : h \in Nat /\ 0 < h /\ h < 4294967296
    BY FetchAssumption DEF Heights
  <2> QED  BY <2>1, <2>2, GreaterFacts
<1> QED
  BY <1>1, TypeCorrect, KnownInvariant, PTL DEF Spec, WaitsForBlocksOrDigit

=============================================================================
