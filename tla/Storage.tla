------------------------------- MODULE Storage -------------------------------
(***************************************************************************)
(* The database behind the API: the tables "storage", "event" and "zkapp"  *)
(* (libs/prisma/schema.prisma) and the procedures of the routers that read *)
(* and write them (libs/trpc/src/lib/routers), as operators on a value st  *)
(* of the table "storage".                                                 *)
(*                                                                         *)
(* Rows are found by their key alone, whatever store they belong to.       *)
(***************************************************************************)
EXTENDS Zkkv

VARIABLES
    storage,         \* table storage: key -> row, NULL where there is none
    recorded,        \* table event: the first "recorded" archived events
    processed,       \* ... of which the first "processed" have isProcessed
    isTransforming   \* column isTransforming of the zkApp's row

dbVars == <<storage, recorded, processed, isTransforming>>

\* EMPTY and PROTOCOL are keys too: the indexer's "data in the meta fields"
\* sets a row under whatever the second meta field holds.
Keys == Level2 \cup {MANAGER, EMPTY, PROTOCOL}

\* What the row of a key may hold, and the stores it may be in.
ValuesOf(k) == IF k = MANAGER THEN Commitments
               ELSE IF k \in Ids THEN Keyrings ELSE Leaves
StoresOf(k) == IF k = MANAGER THEN {NULL}
               ELSE IF k \in Ids THEN {MANAGER}
               ELSE IF k \in Factors THEN Ids ELSE Level2

RowsOf(k) ==
    [value : ValuesOf(k),
     isPending : BOOLEAN,
     commitmentPending : Commitments \cup {NULL},
     commitmentSettled : Commitments \cup {NULL},
     storageKey : StoresOf(k)]

ASSUME RowAssumption == \A k \in Keys : NULL \notin RowsOf(k)

DbTypeOK ==
    /\ DOMAIN storage = Keys
    /\ \A k \in Keys : storage[k] \in RowsOf(k) \cup {NULL}
    /\ recorded \in Nat
    /\ processed \in Nat
    /\ isTransforming \in BOOLEAN

DbInit ==
    /\ storage = [k \in Keys |-> NULL]
    /\ recorded = 0
    /\ processed = 0
    /\ isTransforming = FALSE

Exists(st, k)   == st[k] # NULL
Pending(st)     == {k \in Keys : Exists(st, k) /\ st[k].isPending}
Settled(st, k)  == Exists(st, k) /\ ~st[k].isPending

-----------------------------------------------------------------------------
\* storage.create: a row of a key that has none, committed and in no store.
CreateRow(st, key, value) ==
    [st EXCEPT ![key] =
        [value |-> value, isPending |-> FALSE, commitmentPending |-> NULL,
         commitmentSettled |-> value, storageKey |-> NULL]]

\* storage.set fails when the key is new and its store is not in the table.
CanSet(st, key, store) == Exists(st, key) \/ Exists(st, store)

\* Mutant: an existing row keeps the commitment it was pending on.
MutantSet(st, key, value, cp, store) ==
    [st EXCEPT ![key] =
        IF Exists(st, key)
        THEN [@ EXCEPT !.value = value, !.isPending = TRUE]
        ELSE [value |-> value, isPending |-> TRUE, commitmentPending |-> cp,
              commitmentSettled |-> NULL, storageKey |-> store]]

\* storage.set as the indexer calls it: an upsert that leaves the store and
\* the settled commitment of an existing row as they are.
Set(st, key, value, cp, store) ==
    [st EXCEPT ![key] =
        IF Exists(st, key)
        THEN [@ EXCEPT !.value = value, !.isPending = TRUE,
                       !.commitmentPending = cp]
        ELSE [value |-> value, isPending |-> TRUE, commitmentPending |-> cp,
              commitmentSettled |-> NULL, storageKey |-> store]]

\* storage.update
Update(st, key, value) == [st EXCEPT ![key].value = value]

\* storage.commit, its updateMany: every row pending on cp is settled in cs.
Commit(st, cp, cs) ==
    [k \in Keys |->
        IF k \in Pending(st) /\ st[k].commitmentPending = cp
        THEN [st[k] EXCEPT !.isPending = FALSE, !.commitmentSettled = cs]
        ELSE st[k]]

\* Mutant: no store is reported.
MutantCommittedStores(st, cp, cs) == {}

\* storage.commit, what it returns: the stores of the rows settled that way.
CommittedStores(st, cp, cs) ==
    {st[k].storageKey : k \in
        {j \in Keys : /\ Exists(st, j)
                      /\ st[j].commitmentPending = cp
                      /\ st[j].commitmentSettled = cs
                      /\ st[j].storageKey # NULL}}

-----------------------------------------------------------------------------
(***************************************************************************)
(* IDUtils.getStoredMerkleMap restores a store's map from the rows within  *)
(* it, leaving out those that are pending.                                 *)
(***************************************************************************)
StoredKeyring(st, s) ==
    [f \in Factors |-> IF Settled(st, f) /\ st[f].storageKey = s
                      THEN st[f].value ELSE EMPTY]

StoredManager(st) ==
    [s \in Level2 |-> IF Settled(st, s) /\ st[s].storageKey = MANAGER
                     THEN st[s].value ELSE EMPTY]

=============================================================================
