--------------------------- MODULE IdentityManager ---------------------------
(***************************************************************************)
(* The IdentityManager zkApp on its network: its on-chain commitment, the  *)
(* transactions that are sent and not yet in a block, and the archive of   *)
(* the events that included transactions emitted.                          *)
(*                                                                         *)
(* A method runs when its transaction is proved, against the state the     *)
(* prover of the transaction fetched: getAndAssertEquals makes that state  *)
(* a precondition, so a transaction carries the commitment it was proved   *)
(* on (pre), the commitment it leaves (post) and its events.  The network  *)
(* includes it only while pre is still the commitment.                     *)
(***************************************************************************)
EXTENDS Zkkv

CONSTANTS
    MaxSends,    \* bound: transactions users send
    MaxCommits,  \* bound: commit transactions the prover sends
    Drops        \* may the network drop a transaction it has accepted

ASSUME ChainAssumption ==
    /\ MaxSends \in Nat
    /\ MaxCommits \in Nat
    /\ Drops \in BOOLEAN

VARIABLES
    commitment,  \* on-chain state of the zkApp
    mempool,     \* sent transactions not yet in a block
    archive,     \* events of the included transactions, oldest first
    sends,       \* number of transactions users have sent
    commits      \* number of commit transactions the prover has sent

chainVars == <<commitment, mempool, archive, sends, commits>>

\* origin and serial tell transactions of the same content apart.
Transactions ==
    [origin : {"user", "prover"}, serial : Nat,
     pre : Commitments, post : Commitments, events : Seq(Events)]

UserTxns   == {t \in mempool : t.origin = "user"}
CommitTxns == {t \in mempool : t.origin = "prover"}

ChainTypeOK ==
    /\ commitment \in Commitments
    /\ mempool \subseteq Transactions
    /\ archive \in Seq(Events)
    /\ sends \in 0..MaxSends
    /\ commits \in 0..MaxCommits

\* The state the deployment leaves: an empty manager, announced to storage.
ChainInit ==
    /\ commitment = NoIdentities
    /\ mempool = {}
    /\ archive = <<EventStorageCreate(MANAGER, NoIdentities)>>
    /\ sends = 0
    /\ commits = 0

\* A user's transaction: proved on the current commitment, which it keeps.
SendUser(events) ==
    /\ sends < MaxSends
    /\ sends' = sends + 1
    /\ mempool' = mempool \cup
          {[origin |-> "user", serial |-> sends + 1,
            pre |-> commitment, post |-> commitment, events |-> events]}
    /\ UNCHANGED <<commitment, archive, commits>>

\* Mutant: commitmentPending is not verified.
MutantCommitPendingXforms(commitmentPending, commitmentSettled) ==
    /\ commits < MaxCommits
    /\ commits' = commits + 1
    /\ mempool' = mempool \cup
          {[origin |-> "prover", serial |-> commits + 1,
            pre |-> commitment, post |-> commitmentSettled,
            events |-> <<EventStorageCommit(commitmentPending,
                                            commitmentSettled)>>]}
    /\ UNCHANGED <<commitment, archive, sends>>

\* The prover's transaction: the method asserts that commitmentPending is
\* the zkApp's commitment.
CommitPendingXforms(commitmentPending, commitmentSettled) ==
    /\ commits < MaxCommits
    /\ commitmentPending = commitment
    /\ commits' = commits + 1
    /\ mempool' = mempool \cup
          {[origin |-> "prover", serial |-> commits + 1,
            pre |-> commitment, post |-> commitmentSettled,
            events |-> <<EventStorageCommit(commitmentPending,
                                            commitmentSettled)>>]}
    /\ UNCHANGED <<commitment, archive, sends>>

\* A block holds t: its preconditions hold, its events are archived.
Include(t) ==
    /\ t \in mempool
    /\ t.pre = commitment
    /\ mempool' = mempool \ {t}
    /\ commitment' = t.post
    /\ archive' = archive \o t.events
    /\ UNCHANGED <<sends, commits>>

\* The precondition no longer holds: the transaction fails, without effect.
Reject(t) ==
    /\ t \in mempool
    /\ t.pre # commitment
    /\ mempool' = mempool \ {t}
    /\ UNCHANGED <<commitment, archive, sends, commits>>

\* The network gives the transaction up.
Drop(t) ==
    /\ Drops
    /\ t \in mempool
    /\ mempool' = mempool \ {t}
    /\ UNCHANGED <<commitment, archive, sends, commits>>

=============================================================================
