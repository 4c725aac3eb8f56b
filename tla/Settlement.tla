----------------------------- MODULE Settlement -----------------------------
(***************************************************************************)
(* What the zkApp, its indexer and its prover promise together: users      *)
(* request transformations of the committed map, and now and then all      *)
(* those requested since the last commitment are settled at once.          *)
(***************************************************************************)
EXTENDS Zkkv

VARIABLES
    commitment,   \* the committed map
    requests      \* the pending events since it was committed

settlementVars == <<commitment, requests>>

\* The leaf of factor f of identity i in the map c.
Leaf(c, i, f) == IF c[i] = EMPTY THEN EMPTY ELSE c[i][f]

\* The leaf a request asks for, and whether it asks for one of (i, f).
Asks(e, i, f) ==
    \/ e.key = i
    \/ e.id = i /\ e.key = f
Asked(e, f) == IF e.id = MANAGER THEN e.value[f] ELSE e.value

\* The leaf of (i, f) once the requests in es are settled, v before.
RequestedLeaf(es, i, f, v) ==
    LET asking == {n \in 1 .. Len(es) : Asks(es[n], i, f)}
        last   == CHOOSE n \in asking : \A m \in asking : m <= n
    IN IF asking = {} THEN v ELSE Asked(es[last], f)

AfterRequests(es, c) ==
    [s \in Level2 |->
        IF s \in Ids /\ (c[s] # EMPTY \/ \E n \in 1 .. Len(es) : es[n].key = s)
        THEN [f \in Factors |-> RequestedLeaf(es, s, f, Leaf(c, s, f))]
        ELSE c[s]]

SettlementInit ==
    /\ commitment = NoIdentities
    /\ requests = <<>>

\* Requests of one transaction, on the map as it is committed.
Request ==
    /\ \E n \in 1 .. 2 :
          /\ Len(requests') = Len(requests) + n
          /\ SubSeq(requests', 1, Len(requests)) = requests
          /\ \A m \in Len(requests) + 1 .. Len(requests) + n :
                requests'[m].commitmentPending = commitment
    /\ UNCHANGED commitment

Settle ==
    /\ requests # <<>>
    /\ commitment' = AfterRequests(requests, commitment)
    /\ requests' = <<>>

SettlementNext == Request \/ Settle
SettlementSpec == SettlementInit /\ [][SettlementNext]_settlementVars

=============================================================================
