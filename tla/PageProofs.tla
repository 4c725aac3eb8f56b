----------------------------- MODULE PageProofs -----------------------------
(***************************************************************************)
(* Theorems about the two pages that send a transaction, for any accounts, *)
(* passwords, proofs, sends and failures, and any answers.                 *)
(*                                                                         *)
(* A redirect is made by a run of the watch, which closed over what the    *)
(* page was about when it was started; the transaction was made of what    *)
(* the page was about when its proof was prepared.  The invariant says how *)
(* the two are related at each point between.                              *)
(***************************************************************************)
EXTENDS Page, SequenceLemmas

-----------------------------------------------------------------------------
(***************************************************************************)
(* The inductive invariants.                                               *)
(***************************************************************************)

\* Only the new page looks identifiers up, and it is the one that is left.
LookupsOfNew == page = "factor" => lookups = <<>> /\ identifier # NULL

\* As long as nothing is selected, all that is under way is of one identity.
OneIdentity ==
    switches = 0 =>
        /\ \A n \in DOMAIN lookups : lookups[n] = account
        /\ page # "factor" => identifier \in {NULL, account}
        /\ \A n \in DOMAIN proofs : proofs[n].identifier = identifier
        /\ transaction # NULL => transaction.identifier = identifier
        /\ \A n \in DOMAIN sending : sending[n].identifier = identifier
        /\ \A h \in DOMAIN sent : sent[h].identifier = identifier
        /\ \A n \in DOMAIN watches : watches[n].identifier = identifier

\* Transactions of the factor page have a factor's key, those of the new page
\* have none.
HasKey(p) == p.key = NULL <=> page # "factor"

KeysOfPage ==
    /\ \A n \in DOMAIN proofs : HasKey(proofs[n])
    /\ transaction # NULL => HasKey(transaction)
    /\ \A n \in DOMAIN sending : HasKey(sending[n])
    /\ \A h \in DOMAIN sent : HasKey(sent[h])

\* Every transaction is made of a proof that was prepared, and has its key.
MadeOf(txn) == txn.proof \in DOMAIN made /\ made[txn.proof] = txn.key

Prepared ==
    /\ transaction # NULL => MadeOf(transaction)
    /\ \A n \in DOMAIN sending : MadeOf(sending[n])
    /\ \A h \in DOMAIN sent : MadeOf(sent[h])

\* The key k is that of the transaction's proof or of a later one, or the page
\* was reset by the run of the watch that found another than h.
KeyFits(k, txn, h) ==
    \/ \E n \in txn.proof .. Len(made) : k = made[n]
    \/ k = NULL /\ recorded \ {h} # {}

\* What the page redirects to fits the transaction last prepared, all those
\* that are to be sent and the one that is awaited; and the key of a run of the
\* watch fits its transaction.
KeysFit ==
    /\ transaction # NULL => KeyFits(newAFKey, transaction, 0)
    /\ \A n \in DOMAIN sending : KeyFits(newAFKey, sending[n], 0)
    /\ Awaiting => KeyFits(newAFKey, sent[transactionHash], transactionHash)
    /\ \A n \in DOMAIN watches :
          KeyFits(watches[n].key, sent[watches[n].hash], watches[n].hash)

\* Runs of the watch are about transactions that were sent.
WatchesSent == \A n \in DOMAIN watches : watches[n].hash \in DOMAIN sent

\* No more is sent than there are hashes for, no more prepared than proofs.
SentBound == /\ Len(sent) + Len(sending) <= MaxSends
             /\ Len(made) + Len(proofs) <= MaxProofs

PageInv ==
    /\ TypeOK
    /\ SentBound
    /\ LookupsOfNew
    /\ OneIdentity
    /\ KeysOfPage
    /\ Prepared
    /\ WatchesSent
    /\ KeysFit
    /\ RedirectsToItsPage

-----------------------------------------------------------------------------
(***************************************************************************)
(* Types.                                                                  *)
(***************************************************************************)

\* The bounds, and what null and undefined are not.
LEMMA BoundFacts ==
    /\ MaxSwitches \in Nat /\ MaxProofs \in Nat /\ MaxSends \in Nat
    /\ MaxFailures \in Nat /\ MaxSigns \in Nat
  BY PageAssumption

LEMMA NullFacts ==
    /\ NULL \notin Ids /\ NULL \notin Factors
    /\ NULL \notin Nat /\ UNDEFINED \notin Nat /\ UNDEFINED # NULL
    /\ \A k \in Factors : k \notin Ids
  BY PageAssumption DEF Ids

\* The record a run of the watch is, and the transactions made of a proof.
LEMMA WatchType ==
    ASSUME TypeOK, NEW h \in 1 .. MaxSends
    PROVE  Watch(h) \in Watches
  BY DEF TypeOK, Watch, Watches

LEMMA TypeStep ==
    ASSUME TypeOK, SentBound, [Next]_vars
    PROVE  TypeOK'
<1> USE BoundFacts, NullFacts
<1>1. ASSUME NEW a \in Accounts, SwitchAccount(a)
      PROVE  TypeOK'
  <2>1. lookups' \in Seq(Accounts)
    BY <1>1 DEF SwitchAccount, TypeOK
  <2>2. switches' \in 0 .. MaxSwitches
    BY <1>1 DEF SwitchAccount, TypeOK
  <2> QED  BY <1>1, <2>1, <2>2 DEF SwitchAccount, TypeOK, working
<1>2. ASSUME NEW n \in DOMAIN lookups, NEW full \in BOOLEAN, LookedUp(n, full)
      PROVE  TypeOK'
  <2>1. lookups' \in Seq(Accounts)
    BY <1>2, RemoveAtMembers DEF LookedUp, TypeOK
  <2>2. lookups[n] \in Accounts
    BY DEF TypeOK
  <2>3. identifier' \in Ids \cup {NULL}
    BY <1>2, <2>2 DEF LookedUp, TypeOK, Ids
  <2> QED  BY <1>2, <2>1, <2>3 DEF LookedUp, TypeOK, working, world
<1>3. ASSUME NEW i \in Ids, Visit(i)
      PROVE  TypeOK'
  <2>1. switches' \in 0 .. MaxSwitches
    BY <1>3 DEF Visit, TypeOK
  <2> QED  BY <1>3, <2>1 DEF Visit, TypeOK, working
<1>4. CASE Sign
  <2>1. signing' \in Seq(Ids)
    BY <1>4, AppendFacts DEF Sign, TypeOK
  <2> QED  BY <1>4, <2>1 DEF Sign, TypeOK, world
<1>5. ASSUME NEW n \in DOMAIN signing, NEW ok \in BOOLEAN, Signed(n, ok)
      PROVE  TypeOK'
  <2>1. signature' \in Signatures \cup {NULL}
    <3>1. signing[n] \in Ids /\ account \in Accounts
      BY <1>5 DEF Signed, TypeOK
    <3> QED  BY <1>5, <3>1 DEF Signed, Signatures
  <2>2. signing' \in Seq(Ids)
    BY <1>5, RemoveAtMembers DEF Signed, TypeOK
  <2> QED  BY <1>5, <2>1, <2>2 DEF Signed, TypeOK, world
<1>6. ASSUME NEW n \in DOMAIN sending, NEW ok \in BOOLEAN, SendAnswers(n, ok)
      PROVE  TypeOK'
  <2>1. sending[n] \in Transactions /\ sent \in Seq(Transactions)
        /\ watches \in Seq(Watches) /\ sending \in Seq(Transactions)
    BY DEF TypeOK
  <2>2. sending' \in Seq(Transactions)
    BY <1>6, <2>1, RemoveAtMembers DEF SendAnswers
  <2>3. CASE ok
    <3>1. sent' = Append(sent, sending[n]) /\ SetHash(Len(sent'), watches)
      BY <1>6, <2>3 DEF SendAnswers
    <3>2. /\ sent' \in Seq(Transactions) /\ Len(sent') = Len(sent) + 1
          /\ DOMAIN sent \subseteq DOMAIN sent'
          /\ Len(sent') \in DOMAIN sent'
      BY <2>1, <3>1, AppendFacts
    <3>3. Len(sent') \in 1 .. MaxSends
      <4>1. Len(sending) \in Nat \ {0} /\ Len(sent) \in Nat
        BY <2>1
      <4> QED  BY <4>1, <3>2 DEF SentBound
    <3>4. watches' \in Seq(Watches)
      BY <2>1, <3>1, <3>3, WatchType, AppendFacts DEF SetHash
    <3>5. transactionHash' = Len(sent')
      BY <3>1 DEF SetHash
    <3>6. recorded' \subseteq DOMAIN sent'
      BY <1>6, <3>2 DEF SendAnswers, TypeOK
    <3>7. went' = NULL \/ went' \in [hash : DOMAIN sent', to : Ids \cup Factors \cup {NULL}]
      BY <1>6, <3>2 DEF SendAnswers, TypeOK
    <3> QED
      BY <1>6, <2>2, <3>2, <3>4, <3>5, <3>6, <3>7 DEF SendAnswers, TypeOK
  <2>4. CASE ~ok
    <3>1. sent' = sent /\ transactionHash' = NULL /\ watches' = watches
      BY <1>6, <2>4 DEF SendAnswers, SetHash
    <3> QED  BY <1>6, <2>2, <3>1 DEF SendAnswers, TypeOK
  <2> QED  BY <2>3, <2>4
<1>7. ASSUME NEW f \in Factors \cup {NULL}, PrepareProof(f)
      PROVE  TypeOK'
  <2>1. proofs' \in Seq(Proofs)
    <3> DEFINE p == [identifier |-> identifier, signature |-> signature,
                     key |-> IF page = "factor" THEN f ELSE NULL]
    <3>1. p \in Proofs
      BY <1>7 DEF PrepareProof, TypeOK, Proofs
    <3>2. proofs' = Append(proofs, p) /\ proofs \in Seq(Proofs)
      BY <1>7 DEF PrepareProof, TypeOK
    <3> HIDE DEF p
    <3> QED  BY <3>1, <3>2, AppendFacts
  <2> QED  BY <1>7, <2>1 DEF PrepareProof, TypeOK, world
<1>8. ASSUME NEW n \in DOMAIN proofs, NEW ok \in BOOLEAN, Proved(n, ok)
      PROVE  TypeOK'
  <2> DEFINE p == proofs[n]
  <2>1. p \in Proofs /\ proofs \in Seq(Proofs)
        /\ made \in Seq(Factors \cup {NULL}) /\ Len(made) \in Nat
        /\ Len(proofs) \in Nat \ {0}
    BY DEF TypeOK
  <2>2. proofs' \in Seq(Proofs)
    BY <1>8, <2>1, RemoveAtMembers DEF Proved
  <2>3. /\ made' \in Seq(Factors \cup {NULL}) /\ Len(made') <= MaxProofs
        /\ newAFKey' \in Factors \cup {NULL}
        /\ transaction' \in Transactions \cup {NULL}
    <3>1. CASE ok
      <4>1. /\ made' = Append(made, p.key)
            /\ transaction' = [identifier |-> p.identifier, key |-> p.key,
                               signature |-> p.signature, proof |-> Len(made')]
            /\ newAFKey' = p.key
        BY <1>8, <3>1 DEF Proved
      <4>2. p.key \in Factors \cup {NULL} /\ p.identifier \in Ids
            /\ p.signature \in Signatures
        BY <2>1 DEF Proofs
      <4> HIDE DEF p
      <4>3. /\ made' \in Seq(Factors \cup {NULL})
            /\ Len(made') = Len(made) + 1
        BY <2>1, <4>1, <4>2, AppendFacts
      <4>4. Len(made') \in 1 .. MaxProofs
        BY <2>1, <4>3 DEF SentBound
      <4>5. transaction' \in Transactions
        BY <4>1, <4>2, <4>4 DEF Transactions
      <4> QED  BY <4>1, <4>2, <4>3, <4>4, <4>5
    <3>2. CASE ~ok
      BY <1>8, <3>2 DEF Proved, TypeOK
    <3> QED  BY <3>1, <3>2
  <2> QED  BY <1>8, <2>2, <2>3 DEF Proved, TypeOK, world
<1>9. CASE SendTransaction
  <2>1. sending' \in Seq(Transactions)
    BY <1>9, AppendFacts DEF SendTransaction, TypeOK
  <2> QED  BY <1>9, <2>1 DEF SendTransaction, TypeOK, world
<1>10. ASSUME NEW n \in DOMAIN watches, Found(n)
       PROVE  TypeOK'
  <2>1. watches \in Seq(Watches) /\ watches[n] \in Watches
    BY DEF TypeOK
  <2>2. watches' \in Seq(Watches)
    BY <1>10, <2>1, RemoveAtMembers DEF Found
  <2>3. went' \in [hash : DOMAIN sent, to : Ids \cup Factors \cup {NULL}]
    <3>1. watches[n].hash \in DOMAIN sent
      BY <1>10 DEF Found, TypeOK
    <3> QED  BY <1>10, <2>1, <3>1 DEF Found, Watches
  <2>4. /\ signature' \in Signatures \cup {NULL}
        /\ transaction' \in Transactions \cup {NULL}
        /\ newAFKey' \in Factors \cup {NULL}
        /\ page' \in {"new", "factor", "left"}
    BY <1>10 DEF Found, TypeOK
  <2> QED
    BY <1>10, <2>2, <2>3, <2>4 DEF Found, TypeOK, working, world
<1>11. ASSUME NEW n \in DOMAIN watches, NotFound(n)
       PROVE  TypeOK'
  <2>1. watches \in Seq(Watches) /\ watches[n] \in Watches
    BY DEF TypeOK
  <2>2. [watches EXCEPT ![n].at = "delay"] \in Seq(Watches)
    <3>1. [watches[n] EXCEPT !.at = "delay"] \in Watches
      BY <2>1 DEF Watches
    <3> QED  BY <2>1, <3>1
  <2>3. watches' \in Seq(Watches)
    BY <1>11, <2>1, <2>2, RemoveAtMembers DEF NotFound
  <2> QED  BY <1>11, <2>3 DEF NotFound, TypeOK, working, world
<1>12. ASSUME NEW n \in DOMAIN watches, Rewatch(n)
       PROVE  TypeOK'
  <2>1. watches \in Seq(Watches) /\ RemoveAt(watches, n) \in Seq(Watches)
    BY RemoveAtMembers DEF TypeOK
  <2>2. watches' \in Seq(Watches)
    <3>1. CASE Awaiting
      <4>1. transactionHash \in 1 .. MaxSends
        BY <3>1 DEF Awaiting, TypeOK, SentBound
      <4> QED  BY <1>12, <2>1, <3>1, <4>1, WatchType, AppendFacts DEF Rewatch
    <3>2. CASE ~Awaiting
      BY <1>12, <2>1, <3>2 DEF Rewatch
    <3> QED  BY <3>1, <3>2
  <2> QED  BY <1>12, <2>2 DEF Rewatch, TypeOK, working, world
<1>13. ASSUME NEW n \in DOMAIN watches, WatchFails(n)
       PROVE  TypeOK'
  <2>1. watches' \in Seq(Watches)
    BY <1>13, RemoveAtMembers DEF WatchFails, TypeOK
  <2>2. failures' \in 0 .. MaxFailures
    BY <1>13 DEF WatchFails, TypeOK
  <2> QED  BY <1>13, <2>1, <2>2 DEF WatchFails, TypeOK, working, world
<1>14. ASSUME NEW h \in DOMAIN sent, Record(h)
       PROVE  TypeOK'
  BY <1>14 DEF Record, TypeOK, working
<1>15. CASE UNCHANGED vars
  BY <1>15, Zenon DEF vars, TypeOK, working
<1> QED
  BY <1>1, <1>2, <1>3, <1>4, <1>5, <1>6, <1>7, <1>8, <1>9, <1>10, <1>11,
     <1>12, <1>13, <1>14, <1>15
  DEF Next, Watching

-----------------------------------------------------------------------------
(***************************************************************************)
(* What a step changes.                                                    *)
(***************************************************************************)

\* Which actions change what.
LEMMA Changes ==
    ASSUME [Next]_vars
    PROVE  /\ UNCHANGED <<account, switches>> \/ (\E a \in Accounts : SwitchAccount(a))
                 \/ \E i \in Ids : Visit(i)
           /\ \/ UNCHANGED <<identifier, lookups>>
              \/ \E a \in Accounts : SwitchAccount(a)
              \/ \E i \in Ids : Visit(i)
              \/ \E n \in DOMAIN lookups, full \in BOOLEAN : LookedUp(n, full)
           /\ \/ UNCHANGED page
              \/ \E n \in DOMAIN watches : Found(n)
           /\ \/ UNCHANGED proofs
              \/ \E f \in Factors \cup {NULL} : PrepareProof(f)
              \/ \E n \in DOMAIN proofs, ok \in BOOLEAN : Proved(n, ok)
           /\ \/ UNCHANGED <<transaction, newAFKey>>
              \/ \E n \in DOMAIN proofs, ok \in BOOLEAN : Proved(n, ok)
              \/ \E n \in DOMAIN watches : Found(n)
           /\ \/ UNCHANGED made
              \/ \E n \in DOMAIN proofs, ok \in BOOLEAN : Proved(n, ok)
           /\ \/ UNCHANGED sending
              \/ SendTransaction
              \/ \E n \in DOMAIN sending, ok \in BOOLEAN : SendAnswers(n, ok)
           /\ \/ UNCHANGED sent
              \/ \E n \in DOMAIN sending, ok \in BOOLEAN : SendAnswers(n, ok)
           /\ \/ UNCHANGED transactionHash
              \/ \E n \in DOMAIN sending, ok \in BOOLEAN : SendAnswers(n, ok)
              \/ \E n \in DOMAIN watches : Found(n)
           /\ \/ UNCHANGED watches
              \/ \E n \in DOMAIN sending, ok \in BOOLEAN : SendAnswers(n, ok)
              \/ \E n \in DOMAIN watches :
                    Found(n) \/ NotFound(n) \/ Rewatch(n) \/ WatchFails(n)
           /\ \/ UNCHANGED recorded
              \/ \E h \in DOMAIN sent : Record(h)
           /\ \/ UNCHANGED went
              \/ \E n \in DOMAIN watches : Found(n)
<1>1. CASE \E a \in Accounts : SwitchAccount(a)
  BY <1>1, Zenon DEF SwitchAccount, working
<1>2. CASE \E n \in DOMAIN lookups, full \in BOOLEAN : LookedUp(n, full)
  BY <1>2, Zenon DEF LookedUp, working, world
<1>3. CASE \E i \in Ids : Visit(i)
  BY <1>3, Zenon DEF Visit, working
<1>4. CASE Sign
  BY <1>4, Zenon DEF Sign, world
<1>5. CASE \E n \in DOMAIN signing, ok \in BOOLEAN : Signed(n, ok)
  BY <1>5, Zenon DEF Signed, world
<1>6. CASE \E n \in DOMAIN sending, ok \in BOOLEAN : SendAnswers(n, ok)
  BY <1>6, Zenon DEF SendAnswers
<1>7. CASE \E f \in Factors \cup {NULL} : PrepareProof(f)
  BY <1>7, Zenon DEF PrepareProof, world
<1>8. CASE \E n \in DOMAIN proofs, ok \in BOOLEAN : Proved(n, ok)
  BY <1>8, Zenon DEF Proved, world
<1>9. CASE SendTransaction
  BY <1>9, Zenon DEF SendTransaction, world
<1>10. CASE \E n \in DOMAIN watches : Found(n)
  <2>1. PICK n \in DOMAIN watches : Found(n)
    BY <1>10
  <2>2. UNCHANGED <<identifier, lookups, working, world, made, failures>>
    BY <2>1 DEF Found
  <2> QED  BY <1>10, <2>2, Zenon DEF working, world
<1>11. CASE \E n \in DOMAIN watches : NotFound(n)
  BY <1>11, Zenon DEF NotFound, working, world
<1>12. CASE \E n \in DOMAIN watches : Rewatch(n)
  BY <1>12, Zenon DEF Rewatch, working, world
<1>13. CASE \E n \in DOMAIN watches : WatchFails(n)
  BY <1>13, Zenon DEF WatchFails, working, world
<1>14. CASE \E h \in DOMAIN sent : Record(h)
  BY <1>14, Zenon DEF Record, working
<1>15. CASE UNCHANGED vars
  BY <1>15, Zenon DEF vars, working
<1> QED
  BY <1>1, <1>2, <1>3, <1>4, <1>5, <1>6, <1>7, <1>8, <1>9, <1>10, <1>11,
     <1>12, <1>13, <1>14, <1>15
  DEF Next, Watching

\* The pages change but from the new one to none.
LEMMA PageStays ==
    ASSUME [Next]_vars
    PROVE  page' = "factor" <=> page = "factor"
  BY Changes DEF Found

\* What was sent stays sent; what is new was being sent.
LEMMA SentGrows ==
    ASSUME TypeOK, [Next]_vars
    PROVE  /\ DOMAIN sent \subseteq DOMAIN sent'
           /\ \A h \in DOMAIN sent : sent'[h] = sent[h]
           /\ \A h \in DOMAIN sent' \ DOMAIN sent :
                 /\ transactionHash' = h /\ UNCHANGED <<made, newAFKey>>
                 /\ \E n \in DOMAIN sending : sent'[h] = sending[n]
<1>1. CASE UNCHANGED sent
  BY <1>1
<1>2. ASSUME NEW n \in DOMAIN sending, NEW ok \in BOOLEAN,
             SendAnswers(n, ok), ~ UNCHANGED sent
      PROVE  /\ DOMAIN sent \subseteq DOMAIN sent'
             /\ \A h \in DOMAIN sent : sent'[h] = sent[h]
             /\ \A h \in DOMAIN sent' \ DOMAIN sent :
                 /\ transactionHash' = h /\ UNCHANGED <<made, newAFKey>>
                 /\ \E k \in DOMAIN sending : sent'[h] = sending[k]
  <2>1. /\ sent' = Append(sent, sending[n])
        /\ transactionHash' = Len(sent')
        /\ UNCHANGED <<made, newAFKey>>
    BY <1>2 DEF SendAnswers, SetHash
  <2>2. sending[n] \in Transactions /\ sent \in Seq(Transactions)
    BY DEF TypeOK
  <2> QED  BY <2>1, <2>2, AppendFacts
<1> QED  BY <1>1, <1>2, Changes

LEMMA ProofKey ==
    ASSUME TypeOK, NEW n \in DOMAIN proofs
    PROVE  proofs[n].key \in Factors \cup {NULL}
<1>1. proofs[n] \in Proofs
  BY DEF TypeOK
<1> QED  BY <1>1 DEF Proofs

\* The keys of the proofs stay; with a new one the page's key is the newest.
LEMMA MadeGrows ==
    ASSUME TypeOK, [Next]_vars
    PROVE  /\ Len(made) \in Nat /\ Len(made') \in Nat
           /\ Len(made') >= Len(made)
           /\ \A n \in DOMAIN made : n \in DOMAIN made' /\ made'[n] = made[n]
           /\ \/ UNCHANGED <<made, proofs>>
              \/ UNCHANGED made /\ Len(proofs') = Len(proofs) - 1
              \/ UNCHANGED made /\ \E f \in Factors \cup {NULL} : PrepareProof(f)
              \/ /\ Len(made') = Len(made) + 1
                 /\ Len(proofs') = Len(proofs) - 1
                 /\ newAFKey' = made'[Len(made')]
<1>0. made \in Seq(Factors \cup {NULL}) /\ proofs \in Seq(Proofs)
      /\ Len(made) \in Nat /\ DOMAIN made = 1 .. Len(made)
  BY DEF TypeOK
<1>1. CASE UNCHANGED <<made, proofs>>
  BY <1>0, <1>1
<1>2. ASSUME NEW f \in Factors \cup {NULL}, PrepareProof(f)
      PROVE  UNCHANGED made
  BY <1>2 DEF PrepareProof
<1>3. ASSUME NEW n \in DOMAIN proofs, NEW ok \in BOOLEAN, Proved(n, ok)
      PROVE  /\ Len(proofs') = Len(proofs) - 1
             /\ \/ UNCHANGED made
                \/ /\ Len(made') = Len(made) + 1
                   /\ newAFKey' = made'[Len(made')]
                   /\ \A m \in DOMAIN made : m \in DOMAIN made' /\ made'[m] = made[m]
  <2>1. Len(proofs') = Len(proofs) - 1
    BY <1>0, <1>3, RemoveAtMembers DEF Proved
  <2>2. CASE ~ok
    BY <1>3, <2>1, <2>2 DEF Proved
  <2>3. CASE ok
    <3>1. made' = Append(made, proofs[n].key) /\ newAFKey' = proofs[n].key
      BY <1>3, <2>3 DEF Proved
    <3>2. proofs[n].key \in Factors \cup {NULL}
      BY ProofKey
    <3> DEFINE key == proofs[n].key
    <3>3. made' = Append(made, key) /\ newAFKey' = key /\ key \in Factors \cup {NULL}
      BY <3>1, <3>2
    <3> HIDE DEF key
    <3>4. /\ Len(made') = Len(made) + 1 /\ made'[Len(made')] = key
          /\ \A m \in DOMAIN made : m \in DOMAIN made' /\ made'[m] = made[m]
      BY <1>0, <3>3, AppendFacts
    <3> QED  BY <2>1, <3>3, <3>4
  <2> QED  BY <2>2, <2>3
<1>4. CASE UNCHANGED made
  <2>1. /\ Len(made') \in Nat /\ Len(made') >= Len(made)
        /\ \A n \in DOMAIN made : n \in DOMAIN made' /\ made'[n] = made[n]
    BY <1>0, <1>4
  <2>2. \/ UNCHANGED proofs
        \/ Len(proofs') = Len(proofs) - 1
        \/ \E f \in Factors \cup {NULL} : PrepareProof(f)
    BY <1>3, Changes
  <2> QED  BY <1>0, <1>4, <2>1, <2>2
<1>5. CASE ~ UNCHANGED made
  <2>1. PICK n \in DOMAIN proofs, ok \in BOOLEAN : Proved(n, ok)
    BY <1>5, Changes
  <2>2. /\ Len(proofs') = Len(proofs) - 1 /\ Len(made') = Len(made) + 1
        /\ newAFKey' = made'[Len(made')]
        /\ \A m \in DOMAIN made : m \in DOMAIN made' /\ made'[m] = made[m]
    BY <1>3, <1>5, <2>1
  <2> QED  BY <1>0, <2>2
<1> QED  BY <1>4, <1>5

\* What is being sent was so before, or is the page's transaction.
LEMMA SendingFrom ==
    ASSUME TypeOK, [Next]_vars, NEW n \in DOMAIN sending'
    PROVE  \/ \E k \in DOMAIN sending : sending'[n] = sending[k]
           \/ /\ transaction # NULL /\ sending'[n] = transaction
              /\ UNCHANGED <<newAFKey, made, recorded>>
<1>0. sending \in Seq(Transactions)
  BY DEF TypeOK
<1>1. CASE UNCHANGED sending
  BY <1>1
<1>2. CASE SendTransaction
  <2>1. /\ sending' = Append(sending, transaction) /\ transaction # NULL
        /\ UNCHANGED <<newAFKey, made, recorded>>
    BY <1>2 DEF SendTransaction, world
  <2>2. transaction \in Transactions
    BY <2>1 DEF TypeOK
  <2> QED  BY <1>0, <2>1, <2>2, AppendFacts
<1>3. ASSUME NEW k \in DOMAIN sending, NEW ok \in BOOLEAN, SendAnswers(k, ok)
      PROVE  \E l \in DOMAIN sending : sending'[n] = sending[l]
  BY <1>0, <1>3, RemoveAtMembers DEF SendAnswers
<1> QED  BY <1>1, <1>2, <1>3, Changes

\* The page's transaction was there before, or is made of a proof.
LEMMA TransactionFrom ==
    ASSUME TypeOK, [Next]_vars, transaction' # NULL
    PROVE  \/ UNCHANGED <<transaction, newAFKey>>
           \/ \E n \in DOMAIN proofs :
                 /\ transaction' = [identifier |-> proofs[n].identifier,
                                    key |-> proofs[n].key,
                                    signature |-> proofs[n].signature,
                                    proof |-> Len(made')]
                 /\ newAFKey' = proofs[n].key
                 /\ Len(made') \in DOMAIN made'
                 /\ made'[Len(made')] = proofs[n].key
<1>1. CASE UNCHANGED <<transaction, newAFKey>>
  BY <1>1
<1>2. ASSUME NEW n \in DOMAIN proofs, NEW ok \in BOOLEAN, Proved(n, ok), ok
      PROVE  /\ transaction' = [identifier |-> proofs[n].identifier,
                                key |-> proofs[n].key,
                                signature |-> proofs[n].signature,
                                proof |-> Len(made')]
             /\ newAFKey' = proofs[n].key
             /\ Len(made') \in DOMAIN made'
             /\ made'[Len(made')] = proofs[n].key
  <2>1. /\ made' = Append(made, proofs[n].key) /\ newAFKey' = proofs[n].key
        /\ transaction' = [identifier |-> proofs[n].identifier,
                           key |-> proofs[n].key,
                           signature |-> proofs[n].signature,
                           proof |-> Len(made')]
    BY <1>2 DEF Proved
  <2>2. made \in Seq(Factors \cup {NULL}) /\ proofs[n].key \in Factors \cup {NULL}
    BY ProofKey DEF TypeOK
  <2>3. Len(made') \in DOMAIN made' /\ made'[Len(made')] = proofs[n].key
    BY <2>1, <2>2, AppendFacts
  <2> QED  BY <2>1, <2>3
<1>3. ASSUME NEW n \in DOMAIN proofs, NEW ok \in BOOLEAN, Proved(n, ok), ~ok
      PROVE  UNCHANGED <<transaction, newAFKey>>
  BY <1>3 DEF Proved
<1>4. ASSUME NEW n \in DOMAIN watches, Found(n)
      PROVE  UNCHANGED <<transaction, newAFKey>>
  BY <1>4 DEF Found
<1> QED  BY <1>1, <1>2, <1>3, <1>4, Changes

\* Proofs under way were so before, or are prepared for what the page is about.
LEMMA ProofsFrom ==
    ASSUME TypeOK, [Next]_vars, NEW n \in DOMAIN proofs'
    PROVE  \/ \E k \in DOMAIN proofs : proofs'[n] = proofs[k]
           \/ /\ proofs'[n].identifier = identifier /\ identifier # NULL
              /\ HasKey(proofs'[n])
              /\ UNCHANGED <<page, identifier>>
<1>0. proofs \in Seq(Proofs)
  BY DEF TypeOK
<1>1. CASE UNCHANGED proofs
  BY <1>1
<1>2. ASSUME NEW k \in DOMAIN proofs, NEW ok \in BOOLEAN, Proved(k, ok)
      PROVE  \E l \in DOMAIN proofs : proofs'[n] = proofs[l]
  BY <1>0, <1>2, RemoveAtMembers DEF Proved
<1>3. ASSUME NEW f \in Factors \cup {NULL}, PrepareProof(f)
      PROVE  \/ \E k \in DOMAIN proofs : proofs'[n] = proofs[k]
             \/ /\ proofs'[n].identifier = identifier /\ identifier # NULL
                /\ HasKey(proofs'[n])
                /\ UNCHANGED <<page, identifier>>
  <2> DEFINE p == [identifier |-> identifier, signature |-> signature,
                   key |-> IF page = "factor" THEN f ELSE NULL]
  <2>1. /\ proofs' = Append(proofs, p) /\ identifier # NULL
        /\ UNCHANGED <<page, identifier>>
        /\ page = "factor" => f # NULL
    BY <1>3 DEF PrepareProof
  <2>2. p.identifier = identifier /\ HasKey(p)
    BY <2>1 DEF HasKey
  <2> HIDE DEF p
  <2>3. proofs \in Seq(Proofs \cup {p})
    BY <1>0
  <2>4. \/ n \in DOMAIN proofs /\ proofs'[n] = proofs[n]
        \/ proofs'[n] = p
    BY <2>1, <2>3, AppendFacts
  <2> QED  BY <2>1, <2>2, <2>4
<1> QED  BY <1>1, <1>2, <1>3, Changes

\* The number of switches grows.
LEMMA CountsGrow ==
    ASSUME TypeOK, [Next]_vars
    PROVE  /\ switches' >= switches /\ switches \in Nat
           /\ UNCHANGED <<account, switches>> \/ switches' = switches + 1
<1>1. switches \in 0 .. MaxSwitches
  BY DEF TypeOK
<1>2. UNCHANGED <<account, switches>> \/ switches' = switches + 1
  BY Changes DEF SwitchAccount, Visit
<1>3. switches \in Nat
  BY <1>1, BoundFacts
<1> QED  BY <1>2, <1>3

\* A run of the watch was there before, or is one for the transaction that is
\* awaited, with what the page is about.
LEMMA WatchesFrom ==
    ASSUME TypeOK, [Next]_vars, NEW m \in DOMAIN watches'
    PROVE  \/ \E k \in DOMAIN watches :
                 /\ watches'[m].hash = watches[k].hash
                 /\ watches'[m].identifier = watches[k].identifier
                 /\ watches'[m].key = watches[k].key
           \/ /\ Awaiting' /\ watches'[m].hash = transactionHash'
              /\ watches'[m].identifier = identifier
              /\ watches'[m].key = newAFKey
              /\ UNCHANGED <<identifier, newAFKey>>
<1> DEFINE Before == \E k \in DOMAIN watches :
                        /\ watches'[m].hash = watches[k].hash
                        /\ watches'[m].identifier = watches[k].identifier
                        /\ watches'[m].key = watches[k].key
           Begun  == /\ Awaiting' /\ watches'[m].hash = transactionHash'
                     /\ watches'[m].identifier = identifier
                     /\ watches'[m].key = newAFKey
                     /\ UNCHANGED <<identifier, newAFKey>>
<1>0. watches \in Seq(Watches)
  BY DEF TypeOK
<1>1. CASE UNCHANGED watches
  BY <1>1
<1>2. ASSUME NEW n \in DOMAIN watches, watches' = RemoveAt(watches, n)
      PROVE  Before
  <2>1. \E k \in DOMAIN watches : RemoveAt(watches, n)[m] = watches[k]
    BY <1>0, <1>2, RemoveAtMembers
  <2> QED  BY <1>2, <2>1
<1>3. ASSUME NEW n \in DOMAIN watches, NotFound(n)
      PROVE  Before
  <2>1. CASE watches' = RemoveAt(watches, n)
    BY <1>2, <2>1
  <2>2. CASE watches' = [watches EXCEPT ![n].at = "delay"]
    <3>1. m \in DOMAIN watches
      BY <1>0, <2>2
    <3>2. watches[m] \in Watches /\ watches[n] \in Watches
      BY <1>0, <3>1
    <3> QED  BY <2>2, <3>1, <3>2 DEF Watches
  <2> QED  BY <1>3, <2>1, <2>2 DEF NotFound
<1>4. ASSUME NEW n \in DOMAIN watches, Rewatch(n)
      PROVE  Before \/ Begun
  <2>1. CASE ~Awaiting
    BY <1>2, <1>4, <2>1 DEF Rewatch
  <2>2. CASE Awaiting
    <3> DEFINE rest == RemoveAt(watches, n)
               run == Watch(transactionHash)
    <3>1. watches' = Append(rest, run) /\ Awaiting'
          /\ UNCHANGED <<transactionHash, identifier, newAFKey>>
      BY <1>4, <2>2 DEF Rewatch, Awaiting
    <3>2. rest \in Seq(Watches)
          /\ \A i \in DOMAIN rest : \E k \in DOMAIN watches : rest[i] = watches[k]
      BY <1>0, RemoveAtMembers
    <3>3. run.hash = transactionHash /\ run.identifier = identifier
          /\ run.key = newAFKey
      BY DEF Watch
    <3> HIDE DEF rest, run
    <3>4. rest \in Seq(Watches \cup {run})
      BY <3>2
    <3>5. \/ m \in DOMAIN rest /\ watches'[m] = rest[m]
          \/ watches'[m] = run
      BY <3>1, <3>4, AppendFacts
    <3> QED  BY <3>1, <3>2, <3>3, <3>5
  <2> QED  BY <2>1, <2>2
<1>5. ASSUME NEW k \in DOMAIN sending, NEW ok \in BOOLEAN, SendAnswers(k, ok)
      PROVE  Before \/ Begun
  <2>1. CASE UNCHANGED watches
    BY <2>1
  <2>2. CASE ~ UNCHANGED watches
    <3> DEFINE run == Watch(transactionHash')
    <3>1. /\ watches' = Append(watches, run)
          /\ transactionHash' # NULL
          /\ UNCHANGED <<identifier, newAFKey>>
      BY <1>5, <2>2 DEF SendAnswers, SetHash
    <3>2. ok /\ transactionHash' = Len(sent') /\ sent' = Append(sent, sending[k])
      BY <1>5, <3>1 DEF SendAnswers, SetHash
    <3>3. Awaiting'
      <4>1. sending[k] \in Transactions /\ sent \in Seq(Transactions)
        BY DEF TypeOK
      <4>2. Len(sent') \in Nat
        BY <3>2, <4>1, AppendFacts
      <4> QED  BY <3>1, <3>2, <4>2, NullFacts DEF Awaiting
    <3>4. run.hash = transactionHash' /\ run.identifier = identifier
          /\ run.key = newAFKey
      BY DEF Watch
    <3> HIDE DEF run
    <3>5. watches \in Seq(Watches \cup {run})
      BY <1>0
    <3>6. \/ m \in DOMAIN watches /\ watches'[m] = watches[m]
          \/ watches'[m] = run
      BY <3>1, <3>5, AppendFacts
    <3> QED  BY <3>1, <3>3, <3>4, <3>6
  <2> QED  BY <2>1, <2>2
<1>6. ASSUME NEW n \in DOMAIN watches, Found(n) \/ WatchFails(n)
      PROVE  Before
  BY <1>2, <1>6 DEF Found, WatchFails
<1> HIDE DEF Before, Begun
<1>7. Before \/ Begun
  <2>1. Before \/ ~ UNCHANGED watches
    BY <1>1 DEF Before
  <2> QED  BY <2>1, <1>3, <1>4, <1>5, <1>6, Changes
<1> QED  BY <1>7 DEF Before, Begun

-----------------------------------------------------------------------------
(***************************************************************************)
(* The invariant is kept, part by part.                                    *)
(***************************************************************************)

LEMMA SentBoundStep ==
    ASSUME TypeOK, SentBound, [Next]_vars
    PROVE  SentBound'
<1>0. /\ sent \in Seq(Transactions) /\ Len(sent) \in Nat
      /\ sending \in Seq(Transactions) /\ Len(sending) \in Nat
      /\ proofs \in Seq(Proofs) /\ Len(proofs) \in Nat
  BY DEF TypeOK
<1>1. Len(sent') + Len(sending') <= MaxSends
  <2>1. CASE UNCHANGED <<sent, sending>>
    BY <2>1 DEF SentBound
  <2>2. CASE SendTransaction
    <3>1. /\ sending' = Append(sending, transaction) /\ sent' = sent
          /\ Len(sent) + Len(sending) < MaxSends /\ transaction \in Transactions
      BY <2>2 DEF SendTransaction, world, TypeOK
    <3>2. Len(sending') = Len(sending) + 1
      BY <1>0, <3>1, AppendFacts
    <3> QED  BY <1>0, <3>1, <3>2, BoundFacts
  <2>3. ASSUME NEW n \in DOMAIN sending, NEW ok \in BOOLEAN, SendAnswers(n, ok)
        PROVE  Len(sent') + Len(sending') <= MaxSends
    <3>1. Len(sending') = Len(sending) - 1
      BY <1>0, <2>3, RemoveAtMembers DEF SendAnswers
    <3>2. sent' = sent \/ sent' = Append(sent, sending[n])
      BY <2>3 DEF SendAnswers
    <3>3. Len(sent') = Len(sent) \/ Len(sent') = Len(sent) + 1
      BY <1>0, <3>2, AppendFacts
    <3> QED  BY <1>0, <3>1, <3>3, BoundFacts DEF SentBound
  <2> QED  BY <2>1, <2>2, <2>3, Changes
<1>2. Len(made') + Len(proofs') <= MaxProofs
  <2>1. ASSUME NEW f \in Factors \cup {NULL}, PrepareProof(f)
        PROVE  Len(proofs') = Len(proofs) + 1 /\ Len(made) + Len(proofs) < MaxProofs
    <3> DEFINE p == [identifier |-> identifier, signature |-> signature,
                     key |-> IF page = "factor" THEN f ELSE NULL]
    <3>1. proofs' = Append(proofs, p) /\ Len(made) + Len(proofs) < MaxProofs
      BY <2>1 DEF PrepareProof
    <3> HIDE DEF p
    <3>2. proofs \in Seq(Proofs \cup {p})
      BY <1>0
    <3> QED  BY <3>1, <3>2, AppendFacts
  <2> QED  BY <1>0, <2>1, MadeGrows, BoundFacts DEF SentBound
<1> QED  BY <1>1, <1>2 DEF SentBound

LEMMA LookupsStep ==
    ASSUME TypeOK, LookupsOfNew, [Next]_vars
    PROVE  LookupsOfNew'
<1>1. CASE UNCHANGED <<identifier, lookups>>
  BY <1>1, PageStays DEF LookupsOfNew
<1>2. CASE \E a \in Accounts : SwitchAccount(a)
  BY <1>2 DEF SwitchAccount, LookupsOfNew
<1>3. CASE \E i \in Ids : Visit(i)
  BY <1>3, NullFacts DEF Visit, LookupsOfNew
<1>4. CASE \E n \in DOMAIN lookups, full \in BOOLEAN : LookedUp(n, full)
  BY <1>4 DEF LookedUp, LookupsOfNew
<1> QED  BY <1>1, <1>2, <1>3, <1>4, Changes

\* What is under way is of the identity that is looked up at last.
LEMMA IdentityStep ==
    ASSUME TypeOK, LookupsOfNew, OneIdentity, WatchesSent, [Next]_vars
    PROVE  OneIdentity'
<1> SUFFICES ASSUME switches' = 0
             PROVE  OneIdentity'
  BY DEF OneIdentity
<1>1. switches = 0 /\ account' = account
  BY CountsGrow
<1>2. /\ \A n \in DOMAIN lookups : lookups[n] = account
      /\ page # "factor" => identifier \in {NULL, account}
      /\ \A n \in DOMAIN proofs : proofs[n].identifier = identifier
      /\ transaction # NULL => transaction.identifier = identifier
      /\ \A n \in DOMAIN sending : sending[n].identifier = identifier
      /\ \A h \in DOMAIN sent : sent[h].identifier = identifier
      /\ \A n \in DOMAIN watches : watches[n].identifier = identifier
  BY <1>1 DEF OneIdentity
<1>3. CASE UNCHANGED <<identifier, lookups>>
  <2>1. \A n \in DOMAIN lookups' : lookups'[n] = account'
    BY <1>1, <1>2, <1>3
  <2>2. page' # "factor" => identifier' \in {NULL, account'}
    BY <1>1, <1>2, <1>3, PageStays
  <2>3. \A n \in DOMAIN proofs' : proofs'[n].identifier = identifier'
    BY <1>2, <1>3, ProofsFrom
  <2>4. transaction' # NULL => transaction'.identifier = identifier'
    BY <1>2, <1>3, TransactionFrom
  <2>5. \A n \in DOMAIN sending' : sending'[n].identifier = identifier'
    BY <1>2, <1>3, SendingFrom
  <2>6. \A h \in DOMAIN sent' : sent'[h].identifier = identifier'
    BY <1>2, <1>3, SentGrows
  <2>7. \A n \in DOMAIN watches' : watches'[n].identifier = identifier'
    BY <1>2, <1>3, WatchesFrom
  <2> QED
    BY <2>1, <2>2, <2>3, <2>4, <2>5, <2>6, <2>7 DEF OneIdentity
<1>4. ASSUME NEW n \in DOMAIN lookups, NEW full \in BOOLEAN, LookedUp(n, full)
      PROVE  OneIdentity'
  <2>1. /\ UNCHANGED <<page, transaction, proofs, sending, watches, sent>>
        /\ lookups' = RemoveAt(lookups, n)
        /\ identifier' = IF full THEN identifier ELSE lookups[n]
    BY <1>4 DEF LookedUp, working, world
  <2>2. page # "factor"
    BY DEF LookupsOfNew
  <2>3. \A m \in DOMAIN lookups' : lookups'[m] = account
    BY <1>2, <2>1, RemoveAtMembers DEF TypeOK
  <2>4. \/ identifier' = identifier
        \/ identifier = NULL /\ identifier' = account
    BY <1>2, <2>1, <2>2
  <2>5. CASE identifier' = identifier
    BY <1>1, <1>2, <2>1, <2>2, <2>3, <2>5 DEF OneIdentity
  <2>6. CASE identifier = NULL /\ identifier' = account
    <3>1. ASSUME NEW k \in DOMAIN proofs
          PROVE  FALSE
      <4>1. proofs[k] \in Proofs
        BY DEF TypeOK
      <4> QED  BY <1>2, <2>6, <4>1, NullFacts DEF Proofs
    <3>2. transaction = NULL
      BY <1>2, <2>6, NullFacts DEF TypeOK, Transactions
    <3>5. ASSUME NEW k \in DOMAIN sending
          PROVE  FALSE
      <4>1. sending[k] \in Transactions
        BY DEF TypeOK
      <4> QED  BY <1>2, <2>6, <4>1, NullFacts DEF Transactions
    <3>3. ASSUME NEW h \in DOMAIN sent
          PROVE  FALSE
      <4>1. sent[h] \in Transactions
        BY DEF TypeOK
      <4> QED  BY <1>2, <2>6, <4>1, NullFacts DEF Transactions
    <3>4. \A m \in DOMAIN watches : FALSE
      BY <3>3 DEF WatchesSent
    <3> QED
      BY <1>1, <2>1, <2>3, <2>6, <3>1, <3>2, <3>3, <3>4, <3>5 DEF OneIdentity
  <2> QED  BY <2>4, <2>5, <2>6
<1>5. ~ (\E a \in Accounts : SwitchAccount(a)) /\ ~ (\E i \in Ids : Visit(i))
  <2>1. switches \in Nat
    BY CountsGrow
  <2> QED  BY <1>1, <2>1 DEF SwitchAccount, Visit
<1> QED  BY <1>3, <1>4, <1>5, Changes

LEMMA KeysStep ==
    ASSUME TypeOK, KeysOfPage, [Next]_vars
    PROVE  KeysOfPage'
<1>0. page' = "factor" <=> page = "factor"
  BY PageStays
<1>1. \A n \in DOMAIN proofs' : HasKey(proofs[n])'
  BY <1>0, ProofsFrom DEF KeysOfPage, HasKey
<1>2. transaction' # NULL => HasKey(transaction)'
  BY <1>0, TransactionFrom DEF KeysOfPage, HasKey
<1>3. \A n \in DOMAIN sending' : HasKey(sending[n])'
  BY <1>0, SendingFrom DEF KeysOfPage, HasKey
<1>4. \A h \in DOMAIN sent' : HasKey(sent[h])'
  BY <1>0, SentGrows DEF KeysOfPage, HasKey
<1> QED  BY <1>1, <1>2, <1>3, <1>4 DEF KeysOfPage

LEMMA PreparedStep ==
    ASSUME TypeOK, Prepared, [Next]_vars
    PROVE  Prepared'
<1>1. ASSUME NEW txn, MadeOf(txn)
      PROVE  txn.proof \in DOMAIN made' /\ made'[txn.proof] = txn.key
  BY <1>1, MadeGrows DEF MadeOf
<1>2. transaction' # NULL => MadeOf(transaction)'
  BY <1>1, TransactionFrom DEF Prepared, MadeOf
<1>3. \A n \in DOMAIN sending' : MadeOf(sending[n])'
  BY <1>1, SendingFrom DEF Prepared, MadeOf
<1>4. \A h \in DOMAIN sent' : MadeOf(sent[h])'
  BY <1>1, SentGrows DEF Prepared, MadeOf
<1> QED  BY <1>2, <1>3, <1>4 DEF Prepared

LEMMA WatchesSentStep ==
    ASSUME TypeOK, TypeOK', WatchesSent, [Next]_vars
    PROVE  WatchesSent'
  BY WatchesFrom, SentGrows DEF WatchesSent, Awaiting, TypeOK

\* A key that fits goes on to, and so does that of a new proof, or none if the
\* page was reset for another transaction.
LEMMA FitsLater ==
    ASSUME TypeOK, [Next]_vars, NEW txn, NEW h, NEW k, NEW l,
           MadeOf(txn), KeyFits(k, txn, h),
           \/ l = k
           \/ Len(made') = Len(made) + 1 /\ l = made'[Len(made')]
           \/ l = NULL /\ recorded \ {h} # {}
    PROVE  \/ \E n \in txn.proof .. Len(made') : l = made'[n]
           \/ l = NULL /\ recorded' \ {h} # {}
<1>1. /\ Len(made) \in Nat /\ Len(made') \in Nat /\ Len(made') >= Len(made)
      /\ \A n \in DOMAIN made : n \in DOMAIN made' /\ made'[n] = made[n]
      /\ DOMAIN made = 1 .. Len(made) /\ txn.proof \in 1 .. Len(made)
  BY MadeGrows DEF MadeOf, TypeOK
<1>2. recorded \subseteq recorded'
  BY Changes DEF Record
<1>3. ASSUME NEW n \in txn.proof .. Len(made), k = made[n]
      PROVE  n \in txn.proof .. Len(made') /\ k = made'[n]
  BY <1>1, <1>3
<1>4. CASE l = k
  BY <1>2, <1>3, <1>4 DEF KeyFits
<1>5. CASE Len(made') = Len(made) + 1 /\ l = made'[Len(made')]
  <2>1. Len(made') \in txn.proof .. Len(made')
    BY <1>1
  <2> QED  BY <1>5, <2>1 DEF KeyFits
<1>6. CASE l = NULL /\ recorded \ {h} # {}
  BY <1>2, <1>6 DEF KeyFits
<1> QED  BY <1>4, <1>5, <1>6

\* In particular, one that was closed over.
LEMMA KeptFits ==
    ASSUME TypeOK, [Next]_vars, NEW txn, NEW h, NEW k, MadeOf(txn), KeyFits(k, txn, h)
    PROVE  \/ \E n \in txn.proof .. Len(made') : k = made'[n]
           \/ k = NULL /\ recorded' \ {h} # {}
<1>1. k = k
  OBVIOUS
<1> QED  BY <1>1, FitsLater

\* What happens to the page's key: it stays, it is that of a new proof, or the
\* page is reset by a run of the watch, whose transaction is recorded.
LEMMA KeyFrom ==
    ASSUME TypeOK, [Next]_vars
    PROVE  \/ newAFKey' = newAFKey
           \/ Len(made') = Len(made) + 1 /\ newAFKey' = made'[Len(made')]
           \/ /\ newAFKey' = NULL /\ recorded \ {0} # {}
              /\ ~Awaiting' /\ transaction' = NULL
<1>1. CASE UNCHANGED <<transaction, newAFKey>>
  BY <1>1
<1>2. ASSUME NEW n \in DOMAIN proofs, NEW ok \in BOOLEAN, Proved(n, ok)
      PROVE  \/ newAFKey' = newAFKey
             \/ Len(made') = Len(made) + 1 /\ newAFKey' = made'[Len(made')]
  <2>1. CASE ~ok
    BY <1>2, <2>1 DEF Proved
  <2>2. CASE ok
    <3>1. made' = Append(made, proofs[n].key) /\ newAFKey' = proofs[n].key
      BY <1>2, <2>2 DEF Proved
    <3>2. made \in Seq(Factors \cup {NULL}) /\ proofs[n].key \in Factors \cup {NULL}
      BY ProofKey DEF TypeOK
    <3> QED  BY <3>1, <3>2, AppendFacts
  <2> QED  BY <2>1, <2>2
<1>3. ASSUME NEW n \in DOMAIN watches, Found(n)
      PROVE  \/ newAFKey' = newAFKey
             \/ /\ newAFKey' = NULL /\ recorded \ {0} # {}
                /\ ~Awaiting' /\ transaction' = NULL
  <2>1. watches[n].hash \in recorded /\ ~Awaiting'
    BY <1>3 DEF Found, Awaiting
  <2>2. watches[n].hash # 0
    BY <2>1 DEF TypeOK
  <2> QED  BY <1>3, <2>1, <2>2 DEF Found
<1> QED  BY <1>1, <1>2, <1>3, Changes

\* What fits any transaction that is to be sent fits it when it is sent: its
\* hash is a new one.
LEMMA FitsSent ==
    ASSUME TypeOK, NEW txn, NEW h, h \notin recorded, NEW k, KeyFits(k, txn, 0)
    PROVE  KeyFits(k, txn, h)
  BY DEF KeyFits

LEMMA KeysFitStep ==
    ASSUME TypeOK, TypeOK', Prepared, Prepared', WatchesSent, KeysFit, [Next]_vars
    PROVE  KeysFit'
<1>1. ASSUME NEW txn, MadeOf(txn), KeyFits(newAFKey, txn, 0)
      PROVE  \/ \E n \in txn.proof .. Len(made') : newAFKey' = made'[n]
             \/ newAFKey' = NULL /\ recorded' \ {0} # {}
  BY <1>1, KeyFrom, FitsLater
<1>2. transaction' # NULL => KeyFits(newAFKey, transaction, 0)'
  <2> SUFFICES ASSUME transaction' # NULL
               PROVE  KeyFits(newAFKey, transaction, 0)'
    OBVIOUS
  <2>1. CASE UNCHANGED <<transaction, newAFKey>>
    <3>1. MadeOf(transaction) /\ KeyFits(newAFKey, transaction, 0)
      BY <2>1 DEF Prepared, KeysFit
    <3> QED  BY <1>1, <2>1, <3>1 DEF KeyFits
  <2>2. CASE ~ UNCHANGED <<transaction, newAFKey>>
    <3>1. transaction'.proof = Len(made') /\ newAFKey' = made'[Len(made')]
      BY <2>2, TransactionFrom
    <3>2. Len(made') \in transaction'.proof .. Len(made')
      BY <3>1, MadeGrows
    <3> QED  BY <3>1, <3>2 DEF KeyFits
  <2> QED  BY <2>1, <2>2
<1>3. ASSUME NEW n \in DOMAIN sending'
      PROVE  KeyFits(newAFKey, sending[n], 0)'
  <2>1. CASE \E k \in DOMAIN sending : sending'[n] = sending[k]
    <3>1. PICK k \in DOMAIN sending : sending'[n] = sending[k]
      BY <2>1
    <3>2. MadeOf(sending[k]) /\ KeyFits(newAFKey, sending[k], 0)
      BY DEF Prepared, KeysFit
    <3> DEFINE txn == sending[k]
    <3>3. MadeOf(txn) /\ KeyFits(newAFKey, txn, 0) /\ sending'[n] = txn
      BY <3>1, <3>2
    <3> HIDE DEF txn
    <3>4. \/ \E m \in txn.proof .. Len(made') : newAFKey' = made'[m]
          \/ newAFKey' = NULL /\ recorded' \ {0} # {}
      BY <1>1, <3>3
    <3> QED  BY <3>3, <3>4 DEF KeyFits
  <2>2. CASE /\ transaction # NULL /\ sending'[n] = transaction
             /\ UNCHANGED <<newAFKey, made, recorded>>
    BY <2>2 DEF KeysFit, KeyFits
  <2> QED  BY <2>1, <2>2, SendingFrom
<1>4. ASSUME Awaiting'
      PROVE  KeyFits(newAFKey, sent[transactionHash], transactionHash)'
  <2>1. CASE UNCHANGED transactionHash
    <3>1. Awaiting /\ transactionHash \in DOMAIN sent
      BY <1>4, <2>1 DEF Awaiting, TypeOK
    <3> DEFINE h == transactionHash
               txn == sent[h]
    <3>2. /\ MadeOf(txn) /\ KeyFits(newAFKey, txn, h)
          /\ transactionHash' = h /\ sent'[h] = txn
      BY <2>1, <3>1, SentGrows DEF KeysFit, Prepared
    <3> HIDE DEF h, txn
    <3>3. \/ newAFKey' = newAFKey
          \/ Len(made') = Len(made) + 1 /\ newAFKey' = made'[Len(made')]
      BY <1>4, KeyFrom
    <3>4. \/ \E m \in txn.proof .. Len(made') : newAFKey' = made'[m]
          \/ newAFKey' = NULL /\ recorded' \ {h} # {}
      BY <3>2, <3>3, FitsLater DEF KeyFits
    <3> QED  BY <3>2, <3>4 DEF KeyFits
  <2>2. CASE ~ UNCHANGED transactionHash
    <3>1. PICK n \in DOMAIN sending, ok \in BOOLEAN : SendAnswers(n, ok)
      BY <1>4, <2>2, Changes DEF Found, Awaiting
    <3>2. /\ sent' = Append(sent, sending[n]) /\ transactionHash' = Len(sent')
          /\ UNCHANGED <<newAFKey, made, recorded>>
      BY <1>4, <3>1 DEF SendAnswers, SetHash, Awaiting
    <3> DEFINE h == Len(sent')
    <3>3. sent'[h] = sending[n] /\ h \notin recorded
      <4>1. sending[n] \in Transactions /\ sent \in Seq(Transactions)
            /\ recorded \subseteq DOMAIN sent
        BY DEF TypeOK
      <4> QED  BY <3>2, <4>1, AppendFacts
    <3> HIDE DEF h
    <3>4. KeyFits(newAFKey, sending[n], h)
      BY <3>3, FitsSent DEF KeysFit
    <3>5. transactionHash' = h
      BY <3>2 DEF h
    <3> QED  BY <3>2, <3>3, <3>4, <3>5 DEF KeyFits
  <2> QED  BY <2>1, <2>2
<1>5. ASSUME NEW m \in DOMAIN watches'
      PROVE  KeyFits(watches[m].key, sent[watches[m].hash], watches[m].hash)'
  <2>1. CASE \E k \in DOMAIN watches :
                /\ watches'[m].hash = watches[k].hash
                /\ watches'[m].key = watches[k].key
    <3>1. PICK k \in DOMAIN watches :
                /\ watches'[m].hash = watches[k].hash
                /\ watches'[m].key = watches[k].key
      BY <2>1
    <3> DEFINE h == watches[k].hash
               key == watches[k].key
               txn == sent[h]
    <3>2. /\ MadeOf(txn) /\ KeyFits(key, txn, h)
          /\ watches'[m].hash = h /\ watches'[m].key = key /\ sent'[h] = txn
      BY <3>1, SentGrows DEF KeysFit, Prepared, WatchesSent
    <3> HIDE DEF h, key, txn
    <3>3. \/ \E j \in txn.proof .. Len(made') : key = made'[j]
          \/ key = NULL /\ recorded' \ {h} # {}
      BY <3>2, KeptFits
    <3> QED  BY <3>2, <3>3 DEF KeyFits
  <2>2. CASE /\ Awaiting' /\ watches'[m].hash = transactionHash'
             /\ watches'[m].key = newAFKey /\ UNCHANGED newAFKey
    BY <1>4, <2>2 DEF KeyFits
  <2> QED  BY <2>1, <2>2, WatchesFrom
<1> QED  BY <1>2, <1>3, <1>4, <1>5 DEF KeysFit

\* A redirect is to the page of its transaction.
LEMMA RedirectStep ==
    ASSUME PageInv, [Next]_vars
    PROVE  RedirectsToItsPage'
<1>0. TypeOK /\ OneIdentity /\ KeysOfPage /\ Prepared /\ WatchesSent /\ KeysFit
      /\ RedirectsToItsPage
  BY DEF PageInv
<1>1. /\ switches' >= switches /\ switches \in Nat
      /\ switches' \in Nat
  BY <1>0, CountsGrow
<1>2. CASE UNCHANGED went
  <2> SUFFICES ASSUME went # NULL
               PROVE  RedirectsToItsPage'
    BY <1>2 DEF RedirectsToItsPage
  <2> DEFINE h == went.hash
             to == went.to
             txn == sent[h]
  <2>1. h \in DOMAIN sent
    BY <1>0 DEF TypeOK
  <2>2. MadeOf(txn) /\ sent'[h] = txn /\ went'.hash = h /\ went'.to = to
    BY <1>0, <1>2, <2>1, SentGrows DEF Prepared
  <2>3. IF txn.key = NULL THEN to = txn.identifier \/ switches > 0
        ELSE KeyFits(to, txn, h)
    BY <1>0 DEF RedirectsToItsPage, KeyFits
  <2> HIDE DEF h, to, txn
  <2>4. switches > 0 => switches' > 0
    BY <1>1
  <2>5. txn.key # NULL => \/ \E j \in txn.proof .. Len(made') : to = made'[j]
                          \/ to = NULL /\ recorded' \ {h} # {}
    BY <1>0, <2>2, <2>3, FitsLater
  <2> QED  BY <2>2, <2>3, <2>4, <2>5 DEF RedirectsToItsPage
<1>3. ASSUME NEW n \in DOMAIN watches, Found(n)
      PROVE  RedirectsToItsPage'
  <2> DEFINE run == watches[n]
             txn == sent[run.hash]
  <2>1. /\ went' = [hash |-> run.hash,
                    to |-> IF page = "factor" THEN run.key ELSE run.identifier]
        /\ UNCHANGED <<sent, made, switches, recorded>>
    BY <1>3 DEF Found, world
  <2>2. run.hash \in DOMAIN sent /\ KeyFits(run.key, txn, run.hash)
        /\ (txn.key = NULL <=> page # "factor")
    BY <1>0 DEF WatchesSent, KeysFit, KeysOfPage, HasKey
  <2>3. switches = 0 => run.identifier = txn.identifier
    BY <1>0, <2>2 DEF OneIdentity
  <2>4. switches = 0 \/ switches > 0
    BY <1>1
  <2> HIDE DEF run, txn
  <2>5. went'.hash = run.hash /\ sent'[went'.hash] = sent[run.hash]
    BY <2>1
  <2> QED
    BY <2>1, <2>2, <2>3, <2>4, <2>5 DEF RedirectsToItsPage, KeyFits, txn
<1> QED  BY <1>2, <1>3, Changes

\* Every part of the invariant is kept.
LEMMA PageInvStep ==
    ASSUME PageInv, [Next]_vars
    PROVE  PageInv'
<1>1. TypeOK /\ SentBound /\ LookupsOfNew /\ OneIdentity /\ KeysOfPage
      /\ Prepared /\ WatchesSent /\ KeysFit
  BY DEF PageInv
<1>2. TypeOK'
  BY <1>1, TypeStep
<1>3. SentBound' /\ LookupsOfNew' /\ OneIdentity'
  BY <1>1, SentBoundStep, LookupsStep, IdentityStep
<1>4. KeysOfPage' /\ Prepared' /\ WatchesSent'
  BY <1>1, <1>2, KeysStep, PreparedStep, WatchesSentStep
<1>5. KeysFit'
  BY <1>1, <1>2, <1>4, KeysFitStep
<1>6. RedirectsToItsPage'
  BY RedirectStep
<1> QED  BY <1>2, <1>3, <1>4, <1>5, <1>6 DEF PageInv

LEMMA PageInvInit ==
    ASSUME Init
    PROVE  PageInv
<1> USE BoundFacts, NullFacts
<1>1. TypeOK
  <2>1. lookups \in Seq(Accounts)
    <3>1. account \in Accounts /\ (lookups = <<account>> \/ lookups = <<>>)
      BY DEF Init
    <3>2. <<account>> \in Seq(Accounts)
      BY <3>1
    <3>3. <<>> \in Seq(Accounts)
      OBVIOUS
    <3> QED  BY <3>1, <3>2, <3>3, Zenon
  <2>2. identifier \in Ids \cup {NULL}
    BY DEF Init
  <2>3. page \in {"new", "factor", "left"}
    BY DEF Init
  <2>4. Len(made) <= MaxProofs /\ switches \in 0 .. MaxSwitches
        /\ failures \in 0 .. MaxFailures
    BY DEF Init
  <2> QED  BY <2>1, <2>2, <2>3, <2>4 DEF Init, TypeOK
<1>2. SentBound /\ LookupsOfNew
  BY DEF Init, SentBound, LookupsOfNew
<1>3. OneIdentity
  BY DEF Init, OneIdentity
<1>4. KeysOfPage /\ Prepared /\ WatchesSent
  BY DEF Init, KeysOfPage, Prepared, WatchesSent
<1>5. KeysFit /\ RedirectsToItsPage
  BY DEF Init, KeysFit, RedirectsToItsPage, Awaiting
<1> QED  BY <1>1, <1>2, <1>3, <1>4, <1>5 DEF PageInv

\* The invariant of the pages.
THEOREM PageInvariant == Spec => []PageInv
<1>1. Init => PageInv
  BY PageInvInit
<1>2. PageInv /\ [Next]_vars => PageInv'
  BY PageInvStep
<1> QED  BY <1>1, <1>2, PTL DEF Spec

\* A redirect is to the page of the identity its transaction created, if nothing
\* else was selected, or of the factor its proof or a later one was prepared for,
\* and to no factor only if another transaction was recorded, however many are
\* sent at once and whenever their events are found.
THEOREM AlwaysRedirectsToItsPage == Spec => []RedirectsToItsPage
<1>1. PageInv => RedirectsToItsPage
  BY DEF PageInv
<1> QED  BY <1>1, PageInvariant, PTL

-----------------------------------------------------------------------------
(***************************************************************************)
(* The watch.                                                              *)
(***************************************************************************)

\* A step that changes the hash or the runs of the watch leaves one running.
LEMMA WatchStep ==
    ASSUME TypeOK, WatchAlive, [Next]_vars
    PROVE  WatchAlive'
<1>0. watches \in Seq(Watches) /\ failures \in Nat
  BY BoundFacts DEF TypeOK
<1>1. failures' = failures \/ \E n \in DOMAIN watches : WatchFails(n)
  <2>1. CASE UNCHANGED vars
    BY <2>1 DEF vars
  <2>2. CASE Next
    BY <2>2 DEF Next, Watching, SwitchAccount, LookedUp, Visit, Sign, Signed,
       SendAnswers, PrepareProof, Proved, SendTransaction, Found, NotFound,
       Rewatch, Record
  <2> QED  BY <2>1, <2>2
<1>2. CASE UNCHANGED <<page, transactionHash, watches, failures>>
  BY <1>2 DEF WatchAlive, Awaiting
<1>3. ASSUME NEW n \in DOMAIN watches, WatchFails(n)
      PROVE  WatchAlive'
  BY <1>0, <1>3 DEF WatchFails, WatchAlive
<1>4. ASSUME NEW n \in DOMAIN watches, Found(n)
      PROVE  WatchAlive'
  BY <1>4 DEF Found, WatchAlive, Awaiting
<1>5. ASSUME NEW n \in DOMAIN watches, NotFound(n)
      PROVE  WatchAlive'
  <2>1. page' = page
    BY <1>5 DEF NotFound
  <2>2. CASE page = "left"
    BY <2>1, <2>2 DEF WatchAlive
  <2>3. CASE page # "left"
    <3>1. watches' = [watches EXCEPT ![n].at = "delay"]
      BY <1>5, <2>3 DEF NotFound
    <3>2. watches' # <<>>
      BY <1>0, <3>1
    <3> QED  BY <3>2 DEF WatchAlive
  <2> QED  BY <2>2, <2>3
<1>6. ASSUME NEW n \in DOMAIN watches, Rewatch(n)
      PROVE  WatchAlive'
  <2>1. CASE Awaiting
    <3> DEFINE rest == RemoveAt(watches, n)
               run == Watch(transactionHash)
    <3>1. rest \in Seq(Watches \cup {run})
      <4>1. rest \in Seq(Watches)
        BY <1>0, RemoveAtMembers
      <4> QED  BY <4>1
    <3>2. watches' = Append(rest, run)
      BY <1>6, <2>1 DEF Rewatch
    <3> HIDE DEF rest, run
    <3>3. watches' # <<>>
      BY <3>1, <3>2, AppendFacts
    <3> QED  BY <3>3 DEF WatchAlive
  <2>2. CASE ~Awaiting
    BY <1>6, <2>2 DEF Rewatch, WatchAlive, Awaiting
  <2> QED  BY <2>1, <2>2
<1>7. ASSUME NEW n \in DOMAIN sending, NEW ok \in BOOLEAN, SendAnswers(n, ok)
      PROVE  WatchAlive'
  <2> SUFFICES ASSUME Awaiting', failures' = failures, page' # "left"
               PROVE  watches' # <<>> \/ failures > 0
    BY <1>7 DEF WatchAlive, SendAnswers
  <2>1. page' = page
    BY <1>7 DEF SendAnswers
  <2>2. CASE transactionHash' = transactionHash
    <3>1. Awaiting /\ page # "left" /\ watches' = watches
      BY <1>7, <2>1, <2>2 DEF Awaiting, SendAnswers, SetHash
    <3> QED  BY <3>1 DEF WatchAlive
  <2>3. CASE transactionHash' # transactionHash
    <3> DEFINE run == Watch(transactionHash')
    <3>1. watches' = Append(watches, run)
      BY <1>7, <2>3 DEF Awaiting, SendAnswers, SetHash
    <3>2. watches \in Seq(Watches \cup {run})
      BY <1>0
    <3> HIDE DEF run
    <3>3. watches' # <<>>
      BY <3>1, <3>2, AppendFacts
    <3> QED  BY <3>3
  <2> QED  BY <2>2, <2>3
<1> QED
  BY <1>1, <1>2, <1>3, <1>4, <1>5, <1>6, <1>7, Changes

\* While a transaction is awaited somebody watches for its event, however many
\* runs there are and whatever else the page does, unless a query failed.
THEOREM WatchNeverDies == Spec => []WatchAlive
<1>1. Init => WatchAlive
  BY DEF Init, WatchAlive, Awaiting
<1>2. TypeOK /\ WatchAlive /\ [Next]_vars => WatchAlive'
  BY WatchStep
<1>3. PageInv => TypeOK
  BY DEF PageInv
<1> QED  BY <1>1, <1>2, <1>3, PageInvariant, PTL DEF Spec

=============================================================================
