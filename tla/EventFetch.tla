----------------------------- MODULE EventFetch -----------------------------
(***************************************************************************)
(* Which blocks a cycle of the indexer scans for events, and what of them  *)
(* ends up in the database (apps/indexer/src/main.ts, the loop).  The      *)
(* events of the zkApp are numbered in the order of the chain.  The        *)
(* archive, a service of its own, lags behind the network: it answers with *)
(* the events of the blocks it has ingested, oldest first.                 *)
(*                                                                         *)
(* What processing an event does is the subject of module Indexer, which   *)
(* takes from this one that the recorded events are a prefix of the log.   *)
(***************************************************************************)
EXTENDS Naturals, Sequences, FiniteSets

CONSTANTS
    FirstHeight,   \* height of the network when the zkApp is deployed
    MaxLag,        \* by how many blocks the archive may lag
    MaxBlocks,     \* bound: blocks produced
    MaxEvents,     \* bound: events emitted
    MaxCrashes,    \* bound
    UNDEFINED      \* no start height

ASSUME FetchAssumption ==
    /\ {FirstHeight, MaxEvents} \subseteq Nat \ {0}
    /\ {MaxLag, MaxBlocks, MaxCrashes} \subseteq Nat
    /\ UNDEFINED \notin Nat

VARIABLES
    length,      \* the network's blockchainLength
    log,         \* log[n]: height of the block of event n
    archived,    \* height up to which the archive has ingested blocks
    blockInit,   \* columns blockInit and blockLast of the zkApp's row
    blockLast,
    events,      \* table event: the recorded events, by createdAt
    done,        \* the processed events, in the order they were processed
    pc,          \* where the indexer is in its loop
    start,       \* startFetchEvents
    upTo,        \* the blockchainLength of this cycle
    fetched,     \* events fetched and not recorded yet
    crashes

chainVars == <<length, log, archived>>
dbVars    == <<blockInit, blockLast, events, done>>
loopVars  == <<pc, start, upTo, fetched>>
vars      == <<chainVars, dbVars, loopVars, crashes>>

Heights == FirstHeight .. FirstHeight + MaxBlocks

Pcs == {"begin", "lastBlock", "compare", "record", "process"}

TypeOK ==
    /\ length \in Heights
    /\ archived \in 0 .. length
    /\ log \in Seq(Heights) /\ Len(log) <= MaxEvents
    /\ blockInit \in {0} \cup Heights
    /\ blockLast \in {0} \cup Heights
    /\ events \in Seq(1 .. Len(log))
    /\ done \in Seq(1 .. Len(log))
    /\ pc \in Pcs
    /\ start \in {UNDEFINED} \cup Heights
    /\ upTo \in {0} \cup Heights
    /\ fetched \in Seq(1 .. Len(log))
    /\ crashes \in 0 .. MaxCrashes

\* The deployment's storage:create is event 1.
Init ==
    /\ length = FirstHeight
    /\ log = <<FirstHeight>>
    /\ archived \in FirstHeight - 1 .. FirstHeight
    /\ blockInit = 0 /\ blockLast = 0
    /\ events = <<>> /\ done = <<>>
    /\ pc = "begin"
    /\ start = UNDEFINED /\ upTo = 0 /\ fetched = <<>>
    /\ crashes = 0

-----------------------------------------------------------------------------
(***************************************************************************)
(* The network and its archive.                                            *)
(***************************************************************************)

\* A block, with up to two events.
Mint ==
    /\ length < FirstHeight + MaxBlocks
    /\ length + 1 - archived <= MaxLag
    /\ length' = length + 1
    /\ \E n \in 0 .. 2 :
          /\ Len(log) + n <= MaxEvents
          /\ log' = log \o [m \in 1 .. n |-> length + 1]
    /\ UNCHANGED <<archived, dbVars, loopVars, crashes>>

Ingest ==
    /\ archived < length
    /\ archived' = archived + 1
    /\ UNCHANGED <<length, log, dbVars, loopVars, crashes>>

-----------------------------------------------------------------------------
(***************************************************************************)
(* The indexer's cycle.                                                    *)
(***************************************************************************)
InEvents(n) == \E m \in 1 .. Len(events) : events[m] = n
InDone(n)   == \E m \in 1 .. Len(done) : done[m] = n

\* Mutant: 0 is a height like any other.
MutantReadZkapp ==
    /\ pc = "begin"
    /\ start' = blockLast
    /\ pc' = "lastBlock"
    /\ UNCHANGED <<chainVars, dbVars, upTo, fetched, crashes>>

\* The zkApp's row is read: 0 is no height to start from.
ReadZkapp ==
    /\ pc = "begin"
    /\ start' = IF blockLast = 0 THEN UNDEFINED ELSE blockLast
    /\ pc' = "lastBlock"
    /\ UNCHANGED <<chainVars, dbVars, upTo, fetched, crashes>>

FetchLastBlock ==
    /\ pc = "lastBlock"
    /\ upTo' = length
    /\ pc' = "compare"
    /\ UNCHANGED <<chainVars, dbVars, start, fetched, crashes>>

\* The number of decimal digits of a positive m, and 10^d.
Pow10[d \in 0 .. 10] == IF d = 0 THEN 1 ELSE 10 * Pow10[d - 1]
Digits(m) == CHOOSE d \in 1 .. 10 : Pow10[d - 1] <= m /\ m < Pow10[d]

\* m > n where both are UInt32: JavaScript compares the objects as strings.
GreaterUInt32(m, n) ==
    IF Digits(m) <= Digits(n)
    THEN m * Pow10[Digits(n) - Digits(m)] > n
    ELSE m >= n * Pow10[Digits(m) - Digits(n)]

\* Mutant: the last block scanned is not scanned again.
MutantWaits == start # UNDEFINED /\ ~GreaterUInt32(upTo, start)

Waits == start # UNDEFINED /\ GreaterUInt32(start, upTo)

\* The cycle ends early: there are no blocks to scan yet.
WaitForBlocks ==
    /\ pc = "compare"
    /\ Waits
    /\ pc' = "begin"
    /\ UNCHANGED <<chainVars, dbVars, start, upTo, fetched, crashes>>

\* Mutant: no block is scanned twice.
MutantFetchFrom(s) == IF s = UNDEFINED THEN 0 ELSE s

\* The first height to scan: one block is scanned twice.
FetchFrom(s) == IF s = UNDEFINED THEN 0 ELSE s - 1

\* The events in the blocks to scan that the archive has ingested.
Scanned == {n \in 1 .. Len(log) : /\ FetchFrom(start) <= log[n]
                                  /\ log[n] <= upTo
                                  /\ log[n] <= archived}

\* They come oldest first, and are consecutive: heights never decrease.
FetchEvents ==
    /\ pc = "compare"
    /\ ~Waits
    /\ \E first, last \in 0 .. Len(log) :
          /\ Scanned = first .. last
          /\ fetched' = [n \in 1 .. last + 1 - first |-> first + n - 1]
    /\ pc' = "record"
    /\ UNCHANGED <<chainVars, dbVars, start, upTo, crashes>>

\* Mutant: an event is recorded whenever it is fetched.
MutantRecordEvent ==
    /\ pc = "record"
    /\ fetched # <<>>
    /\ events' = Append(events, Head(fetched))
    /\ start' = IF start = UNDEFINED THEN log[Head(fetched)] ELSE start
    /\ fetched' = Tail(fetched)
    /\ UNCHANGED <<chainVars, blockInit, blockLast, done, pc, upTo, crashes>>

\* The next event is created in the database unless its id is known; the first
\* one of all is where the zkApp's events begin.
RecordEvent ==
    /\ pc = "record"
    /\ fetched # <<>>
    /\ IF InEvents(Head(fetched))
       THEN UNCHANGED <<events, start>>
       ELSE /\ events' = Append(events, Head(fetched))
            /\ start' = IF start = UNDEFINED THEN log[Head(fetched)] ELSE start
    /\ fetched' = Tail(fetched)
    /\ UNCHANGED <<chainVars, blockInit, blockLast, done, pc, upTo, crashes>>

EndRecording ==
    /\ pc = "record"
    /\ fetched = <<>>
    /\ pc' = "process"
    /\ UNCHANGED <<chainVars, dbVars, start, upTo, fetched, crashes>>

Unprocessed == {m \in 1 .. Len(events) : ~InDone(events[m])}

\* Mutant: the order is reversed.
MutantComesFirst(m) == \A l \in Unprocessed : l <= m

\* getUnprocessed: by blockHeight, then by createdAt.
ComesFirst(m) ==
    \A l \in Unprocessed :
        \/ log[events[m]] < log[events[l]]
        \/ log[events[m]] = log[events[l]] /\ m <= l

ProcessEvent ==
    /\ pc = "process"
    /\ \E m \in Unprocessed :
          ComesFirst(m) /\ done' = Append(done, events[m])
    /\ UNCHANGED <<chainVars, blockInit, blockLast, events, loopVars, crashes>>

\* Everything is processed: the cycle's heights go to the zkApp's row.
UpdateZkapp ==
    /\ pc = "process"
    /\ Unprocessed = {}
    /\ blockLast' = upTo
    /\ blockInit' = IF blockInit = 0 /\ start # UNDEFINED THEN start
                                                          ELSE blockInit
    /\ pc' = "begin"
    /\ start' = UNDEFINED /\ upTo' = 0
    /\ UNCHANGED <<chainVars, events, done, fetched, crashes>>

\* The process ends, and restarts with what is in the database.
Crash ==
    /\ crashes < MaxCrashes
    /\ crashes' = crashes + 1
    /\ pc' = "begin"
    /\ start' = UNDEFINED /\ upTo' = 0 /\ fetched' = <<>>
    /\ UNCHANGED <<chainVars, dbVars>>

Loop ==
    \/ ReadZkapp \/ FetchLastBlock \/ WaitForBlocks \/ FetchEvents
    \/ RecordEvent \/ EndRecording \/ ProcessEvent \/ UpdateZkapp

Next == Mint \/ Ingest \/ Loop \/ Crash

Spec == Init /\ [][Next]_vars

\* The indexer cycles and the archive catches up; blocks owe nothing.
FairSpec == Spec /\ WF_vars(Loop) /\ WF_vars(Ingest)

-----------------------------------------------------------------------------
\* No event falls out of the indexer's reach: one that is not recorded will be
\* in the heights the next cycle scans.
NothingSkipped ==
    \A n \in 1 .. Len(log) :
        ~InEvents(n) => log[n] + 1 >= blockLast

\* The table event holds a prefix of the log, each event once, in order.
RecordedIsPrefix == \A m \in 1 .. Len(events) : events[m] = m

\* Events are processed in the order of the chain, none left out.
ProcessedInOrder == \A m \in 1 .. Len(done) : done[m] = m

\* A cycle ends early only when the network is behind the last height scanned
\* ("wait for blocks on the network"), or has a digit more than it.
WaitsForBlocksOrDigit ==
    [][WaitForBlocks => start > upTo \/ Digits(start) < Digits(upTo)]_vars

\* The last scanned height is the greater string, though not the greater height.
Stalled == blockLast # 0 /\ GreaterUInt32(blockLast, length)

\* Every event the zkApp emits is eventually processed, but for those that come
\* when the network's height has just got a digit more: the indexer then waits
\* for a height that is greater as a string.
EventsProcessed ==
    \A n \in 1 .. MaxEvents :
        Len(log) >= n ~> InDone(n) \/ Stalled

=============================================================================
