-------------------------------- MODULE Page --------------------------------
(***************************************************************************)
(* The two pages of the web app that send a transaction: identities.new,   *)
(* which creates an identity, and identities.$identityId, which adds an    *)
(* authentication factor to one.  A behaviour is a visit to one of them:   *)
(* sign, prepare the proof, send, and watch for the transaction's event,   *)
(* then the page redirects.                                                *)
(*                                                                         *)
(* A handler and an effect keep the state of the render they were made in: *)
(* what is under way is a record of the values it closed over.  Buttons    *)
(* are guards only where the page takes their handler away or cannot be    *)
(* clicked.                                                                *)
(***************************************************************************)
EXTENDS Naturals, Sequences, SequencesExt

CONSTANTS
    Accounts,    \* accounts of the user's wallet; one identity each, by its name
    Factors,     \* passwords the user may enter
    NULL,        \* null
    UNDEFINED,   \* undefined
    MaxSwitches, \* bound: changes of account or identity
    MaxSigns,    \* bound: signatures asked for at once
    MaxProofs,   \* bound: proofs prepared
    MaxSends,    \* bound: transactions sent
    MaxFailures  \* bound: queries of the API that fail

ASSUME PageAssumption ==
    /\ NULL \notin Accounts \cup Factors \cup Nat
    /\ UNDEFINED \notin Nat \cup {NULL}
    /\ Accounts \cap Factors = {}
    /\ {MaxSwitches, MaxSigns, MaxProofs, MaxSends, MaxFailures} \subseteq Nat

VARIABLES
    page,            \* the page visited, or "left"
    account,         \* the wallet's account
    identifier,      \* of the page's identity; NULL: not looked up yet
    lookups,         \* new: accounts whose next identifier is looked up
    signature,       \* state, as the pages name it
    transaction,
    transactionHash, \* UNDEFINED: not sent; NULL: sending it failed
    newAFKey,
    signing,         \* identifiers the wallet is asked to sign
    proofs,          \* proofs under way
    sending,         \* transactions the wallet is asked to send
    watches,         \* runs of the watch, by the order they started in
    sent,            \* the transactions sent; the hash is the index
    recorded,        \* those of which the services recorded an event
    went,            \* the last redirect, and the transaction it was for
    made,            \* the keys of the proofs prepared, in order
    switches,        \* counts of the bounds
    failures

working == <<signing, proofs, sending>>
world   == <<sent, recorded, account, switches>>
vars == <<page, account, identifier, lookups, signature, transaction,
          transactionHash, newAFKey, signing, proofs, sending, watches, sent,
          recorded, went, made, switches, failures>>

Ids == Accounts

\* The operator key's secret is a hash of the identifier and the signature; a
\* signature is the account's over an identifier.
Signatures == [identifier : Ids, by : Accounts]

\* key: of the factor added, which the factor page redirects to.
Transactions ==
    [identifier : Ids, signature : Signatures, key : Factors \cup {NULL},
     proof : 1 .. MaxProofs]

Proofs == [identifier : Ids, signature : Signatures, key : Factors \cup {NULL}]

Watches ==
    [hash : 1 .. MaxSends, identifier : Ids \cup {NULL},
     key : Factors \cup {NULL}, at : {"query", "delay"}]

Sent(h) == h \in DOMAIN sent

TypeOK ==
    /\ page \in {"new", "factor", "left"}
    /\ account \in Accounts
    /\ identifier \in Ids \cup {NULL}
    /\ lookups \in Seq(Accounts)
    /\ signature \in Signatures \cup {NULL}
    /\ transaction \in Transactions \cup {NULL}
    /\ transactionHash \in {NULL, UNDEFINED} \cup DOMAIN sent
    /\ newAFKey \in Factors \cup {NULL}
    /\ signing \in Seq(Ids)
    /\ proofs \in Seq(Proofs)
    /\ sending \in Seq(Transactions)
    /\ watches \in Seq(Watches)
    /\ sent \in Seq(Transactions)
    /\ recorded \subseteq DOMAIN sent
    /\ went = NULL \/ went \in [hash : DOMAIN sent, to : Ids \cup Factors \cup {NULL}]
    /\ made \in Seq(Factors \cup {NULL}) /\ Len(made) <= MaxProofs
    /\ switches \in 0 .. MaxSwitches
    /\ failures \in 0 .. MaxFailures

\* A new identity's identifier is looked up; a factor page's is its route's.
Init ==
    /\ page \in {"new", "factor"}
    /\ account \in Accounts
    /\ \/ page = "new" /\ identifier = NULL /\ lookups = <<account>>
       \/ page = "factor" /\ identifier \in Ids /\ lookups = <<>>
    /\ signature = NULL /\ transaction = NULL
    /\ transactionHash = UNDEFINED /\ newAFKey = NULL
    /\ signing = <<>> /\ proofs = <<>> /\ sending = <<>>
    /\ watches = <<>>
    /\ sent = <<>> /\ recorded = {}
    /\ went = NULL
    /\ made = <<>> /\ switches = 0 /\ failures = 0

Awaiting == transactionHash \notin {NULL, UNDEFINED}

-----------------------------------------------------------------------------
(***************************************************************************)
(* Account and identity.                                                   *)
(***************************************************************************)
\* The wallet's account changes; the new page's effect looks up its identifier.
SwitchAccount(a) ==
    /\ page # "left" /\ a # account
    /\ switches < MaxSwitches
    /\ switches' = switches + 1
    /\ account' = a
    /\ lookups' = IF page = "new" THEN Append(lookups, a) ELSE lookups
    /\ UNCHANGED <<page, identifier, signature, transaction, transactionHash,
                   newAFKey, working, watches, sent, recorded, went, made,
                   failures>>

\* IDUtils.getNextUnusedIdentifier answers lookup n: the account's identifier,
\* or none if it has as many identities as it may.
LookedUp(n, full) ==
    /\ identifier' = IF full THEN identifier ELSE lookups[n]
    /\ lookups' = RemoveAt(lookups, n)
    /\ UNCHANGED <<page, signature, transaction, transactionHash, newAFKey,
                   working, watches, world, went, made, failures>>

\* Another identity is selected: the page stays mounted, with its state.
Visit(i) ==
    /\ page = "factor" /\ i # identifier
    /\ switches < MaxSwitches
    /\ switches' = switches + 1
    /\ identifier' = i
    /\ UNCHANGED <<page, account, lookups, signature, transaction,
                   transactionHash, newAFKey, working, watches, sent, recorded,
                   went, made, failures>>

-----------------------------------------------------------------------------
(***************************************************************************)
(* The steps of the modal.  On the new page it cannot be opened while a    *)
(* transaction is awaited; sending closes it.                              *)
(***************************************************************************)
ModalOpens == page = "factor" \/ (page = "new" /\ ~Awaiting)

\* handleSignature; the button does nothing once there is a signature, but may
\* be clicked again while one is asked for.
Sign ==
    /\ ModalOpens
    /\ signature = NULL /\ Len(signing) < MaxSigns
    /\ identifier # NULL
    /\ signing' = Append(signing, identifier)
    /\ UNCHANGED <<page, identifier, lookups, signature, transaction,
                   transactionHash, newAFKey, proofs, sending, watches, world,
                   went, made, failures>>

\* The wallet answers request n, with its account's signature, or the user
\* rejects.
Signed(n, ok) ==
    /\ page # "left"
    /\ signing' = RemoveAt(signing, n)
    /\ signature' = IF ok THEN [identifier |-> signing[n], by |-> account] ELSE NULL
    /\ UNCHANGED <<page, identifier, lookups, transaction, transactionHash,
                   newAFKey, proofs, sending, watches, world, went, made,
                   failures>>

\* Preparing the proof begins; f is the password entered.  The button works
\* while an earlier proof is there, or on its way.
PrepareProof(f) ==
    /\ ModalOpens
    /\ identifier # NULL /\ signature # NULL
    /\ Len(made) + Len(proofs) < MaxProofs
    /\ page = "factor" => f # NULL
    /\ proofs' = Append(proofs,
          [identifier |-> identifier, signature |-> signature,
           key |-> IF page = "factor" THEN f ELSE NULL])
    /\ UNCHANGED <<page, identifier, lookups, signature, transaction,
                   transactionHash, newAFKey, signing, sending, watches, world,
                   went, made, failures>>

\* The contract asserts that the keyring holds the operator key.
OperatorKeyFits(p) == p.signature = [identifier |-> p.identifier, by |-> p.identifier]

\* Mutant: the first proof prepared names the page's factor.
MutantProved(n, ok) ==
    LET p == proofs[n]
    IN /\ page # "left"
       /\ proofs' = RemoveAt(proofs, n)
       /\ ok /\ page = "factor" => OperatorKeyFits(p)
       /\ IF ok
          THEN /\ made' = Append(made, p.key)
               /\ transaction' = [identifier |-> p.identifier, key |-> p.key,
                                  signature |-> p.signature, proof |-> Len(made')]
               /\ newAFKey' = IF newAFKey = NULL THEN p.key ELSE newAFKey
          ELSE UNCHANGED <<made, transaction, newAFKey>>
       /\ UNCHANGED <<page, identifier, lookups, signature, transactionHash,
                      signing, sending, watches, world, went, failures>>

\* Proof n is there, or failed.
Proved(n, ok) ==
    LET p == proofs[n]
    IN /\ page # "left"
       /\ proofs' = RemoveAt(proofs, n)
       /\ ok /\ page = "factor" => OperatorKeyFits(p)
       /\ IF ok
          THEN /\ made' = Append(made, p.key)
               /\ transaction' = [identifier |-> p.identifier, key |-> p.key,
                                  signature |-> p.signature, proof |-> Len(made')]
               /\ newAFKey' = p.key
          ELSE UNCHANGED <<made, transaction, newAFKey>>
       /\ UNCHANGED <<page, identifier, lookups, signature, transactionHash,
                      signing, sending, watches, world, went, failures>>

\* handleSendTransaction.  The button works while a transaction is on its way:
\* clicked twice, it sends it twice.
SendTransaction ==
    /\ ModalOpens
    /\ transaction # NULL
    /\ Len(sent) + Len(sending) < MaxSends
    /\ sending' = Append(sending, transaction)
    /\ UNCHANGED <<page, identifier, lookups, signature, transaction,
                   transactionHash, newAFKey, signing, proofs, watches, world,
                   went, made, failures>>

-----------------------------------------------------------------------------
(***************************************************************************)
(* The watch: an effect with deps transactionHash and txnWatchCounter.     *)
(***************************************************************************)
Watch(h) == [hash |-> h, identifier |-> identifier, key |-> newAFKey, at |-> "query"]

\* The hash becomes h: the effect is run if it is another one.
SetHash(h, rest) ==
    /\ transactionHash' = h
    /\ watches' = IF h \in {NULL, transactionHash}
                  THEN rest ELSE Append(rest, Watch(h))

\* The wallet sends transaction n of those it is asked to send, or fails.
SendAnswers(n, ok) ==
    /\ page # "left"
    /\ sending' = RemoveAt(sending, n)
    /\ sent' = IF ok THEN Append(sent, sending[n]) ELSE sent
    /\ SetHash(IF ok THEN Len(sent') ELSE NULL, watches)
    /\ UNCHANGED <<page, account, identifier, lookups, signature, transaction,
                   newAFKey, signing, proofs, recorded, went, made, switches,
                   failures>>

\* trpc.event.select answers run n with an event: the new page is left for the
\* identity's, the factor page is reset.  A page that was left is gone, but its
\* run redirects.
Found(n) ==
    LET run == watches[n]
    IN /\ run.at = "query" /\ run.hash \in recorded
       /\ watches' = RemoveAt(watches, n)
       /\ page' = IF page = "factor" THEN page ELSE "left"
       /\ transactionHash' = UNDEFINED
       /\ went' = [hash |-> run.hash,
                   to |-> IF page = "factor" THEN run.key ELSE run.identifier]
       /\ IF page = "factor"
          THEN signature' = NULL /\ transaction' = NULL /\ newAFKey' = NULL
          ELSE UNCHANGED <<signature, transaction, newAFKey>>
       /\ UNCHANGED <<identifier, lookups, working, world, made, failures>>

\* Mutant: the event is looked for once.
MutantNotFound(n) ==
    /\ watches[n].at = "query"
    /\ watches[n].hash \notin recorded
    /\ watches' = RemoveAt(watches, n)
    /\ UNCHANGED <<page, identifier, lookups, signature, transaction,
                   transactionHash, newAFKey, working, world, went, made,
                   failures>>

\* It answers with none.
NotFound(n) ==
    /\ watches[n].at = "query"
    /\ watches[n].hash \notin recorded
    /\ watches' = IF page = "left" THEN RemoveAt(watches, n)
                  ELSE [watches EXCEPT ![n].at = "delay"]
    /\ UNCHANGED <<page, identifier, lookups, signature, transaction,
                   transactionHash, newAFKey, working, world, went, made,
                   failures>>

\* The delay is over: the counter is incremented, and the effect is run with
\* the hash of now.
Rewatch(n) ==
    /\ page # "left" /\ watches[n].at = "delay"
    /\ watches' = IF Awaiting
                  THEN Append(RemoveAt(watches, n), Watch(transactionHash))
                  ELSE RemoveAt(watches, n)
    /\ UNCHANGED <<page, identifier, lookups, signature, transaction,
                   transactionHash, newAFKey, working, world, went, made,
                   failures>>

\* The query fails: the run throws.
WatchFails(n) ==
    /\ watches[n].at = "query"
    /\ failures < MaxFailures
    /\ failures' = failures + 1
    /\ watches' = RemoveAt(watches, n)
    /\ UNCHANGED <<page, identifier, lookups, signature, transaction,
                   transactionHash, newAFKey, working, world, went, made>>

\* External: the indexer records the events of a transaction sent.
Record(h) ==
    /\ h \notin recorded
    /\ recorded' = recorded \cup {h}
    /\ UNCHANGED <<page, account, identifier, lookups, signature, transaction,
                   transactionHash, newAFKey, working, watches, sent, went,
                   made, switches, failures>>

Watching == \E n \in DOMAIN watches : Found(n) \/ NotFound(n) \/ Rewatch(n)

Next ==
    \/ \E a \in Accounts : SwitchAccount(a)
    \/ \E n \in DOMAIN lookups, full \in BOOLEAN : LookedUp(n, full)
    \/ \E i \in Ids : Visit(i)
    \/ Sign
    \/ \E n \in DOMAIN signing, ok \in BOOLEAN : Signed(n, ok)
    \/ \E f \in Factors \cup {NULL} : PrepareProof(f)
    \/ \E n \in DOMAIN proofs, ok \in BOOLEAN : Proved(n, ok)
    \/ SendTransaction
    \/ \E n \in DOMAIN sending, ok \in BOOLEAN : SendAnswers(n, ok)
    \/ Watching
    \/ \E n \in DOMAIN watches : WatchFails(n)
    \/ \E h \in DOMAIN sent : Record(h)

Spec == Init /\ [][Next]_vars

\* The API answers and the timers run out.  Nothing is assumed of the user,
\* the wallet or the services.
FairSpec == Spec /\ WF_vars(Watching)

-----------------------------------------------------------------------------
(***************************************************************************)
(* Properties                                                              *)
(***************************************************************************)

\* Where a redirect goes ("redirect UI to the its page").  The new page's goes to
\* the identity the transaction created, unless the account changed.  The factor
\* page's goes to the factor the transaction added, or to one whose proof was
\* prepared later, since a watch takes the key the page has when it is run; it
\* never goes back to a factor of an earlier proof.  It goes to no factor
\* ("af/undefined") only if another transaction was recorded as well.
RedirectsToItsPage ==
    went # NULL =>
        LET txn == sent[went.hash]
        IN IF txn.key = NULL
           THEN went.to = txn.identifier \/ switches > 0
           ELSE \/ \E n \in txn.proof .. Len(made) : went.to = made[n]
                \/ went.to = NULL /\ recorded \ {went.hash} # {}

\* A new identity's operator key can be made again: it is of the signature,
\* by the account the identity is of, of its own identifier ("get operator key
\* secret from identifier signed by operator key (wallet)").  With any other
\* its owner could never prove to own it.
OperatorKeyIsOwners == \A h \in DOMAIN sent : OperatorKeyFits(sent[h])

\* While a transaction is awaited somebody watches for its event, unless a
\* query failed: runs may be several, each starting the next by the counter.
WatchAlive == page # "left" /\ Awaiting => watches # <<>> \/ failures > 0

\* A transaction that is awaited and recorded ceases to be awaited: the page
\* redirects, unless a query failed or another hash takes its place.
AwaitedIsFound ==
    \A h \in 1 .. MaxSends :
        (transactionHash = h /\ h \in recorded)
            ~> (transactionHash # h \/ page = "left" \/ failures > 0)

=============================================================================
