# zkHumans: a TLA+ model

zkHumans keeps identities, that is sets of authentication factors, in Merkle maps
off the chain, and the root of the map of maps in a zkApp on Mina. A user's
transaction does not change that root. It proves a *request* against it and emits
the request as an event; an *indexer* replays the events on a database, a *prover*
turns the pending rows of the database into one transaction that changes the root,
and that transaction's event lets the indexer settle the rows. Four programs work
at the same time on two shared states, the zkApp's and the database's. Around them are
the pages of the web app, whose effects and handlers run over awaits and changes of the
wallet's account, and an oracle with sessions, tabs and a cache. The modules here say in
which ways all these steps may interleave and what holds whichever way they do.

Paths below are relative to the repository's root.

## The system

| Component | State it keeps | Operations | Modules |
| --- | --- | --- | --- |
| IdentityManager contract (`libs/contracts/src/IdentityManager.ts`) | on-chain `commitment` (root of the manager's map), identifier, auth hash, oracle key | `addIdentity`, `NEW_addIdentity`, `addAuthNFactor`, `delAuthNFactor`, `commitPendingXforms`; read-only `isIdentityOwner` | `Zkkv`, `IdentityManager`, `IdentityExample` |
| ZK:KV (`libs/zkkv`) | none: proofs about key:value stores, event structures, the rollup `ZkProgram` | `addStore`, `setStoreData`, `oneStep`, `merge` | `Zkkv`, `Rollup` |
| Database and routers (`libs/prisma`, `libs/trpc`) | tables `storage`, `event`, `zkapp` | `storage.create/set/update/commit/pending`, `event.byId/create/getUnprocessed/markProcessed`, `zkapp.create/update` | `Storage`, `EventFetch` |
| IDUtils (`libs/utils-client/src/lib/identity.ts`) | none | restores Merkle maps from committed rows; identities, identifiers and operator keys of an account | `Storage`, `Client`, `UiData`, `Page` |
| Indexer (`apps/indexer`) | only locals of one cycle | fetch and record events, replay them, record heights | `Indexer`, `EventFetch` |
| Prover (`apps/prover`) | only locals of one cycle | read pending rows, restore maps, send a commit, set `isTransforming`, wait | `Prover` |
| Web app's hooks (`apps/zkapp-zkhumans/app/hooks`) | wallet, network, account, compiled zkApp, list of identities | connect, check the account, keep alive, compile, load and reload the list | `UiZkApp`, `UiData` |
| Web app's pages (`identities.new`, `identities.$identityId`) | signature, proof, transaction hash, bioauthorization | sign, prepare, send, watch, redirect; poll the oracle | `Page`, `BioAuth`, `Client` |
| BioAuth oracle (`apps/oracle-auth`, `oracle-auth-test`, `libs/snarky-bioauth`) | cache of signed messages, sessions in cookies | mina.auth, auth.humanode, callback, login, dashboard, logout | `BioAuthOracle`, `BioAuth` |
| Identifiers and Base58 (`libs/utils`) | none | change of base, checksum, version byte | `Base58` |
| Example of the contracts (`libs/contracts/src/examples`) and its consumer | maps of the runner and of storage, pending events | the whole life of identities in one process | `IdentityExample`, `Rollup` |
| Voting proof of concept (`libs/contracts-example`) | votes, nullifiers, periods | | not modelled |
| Deployment, API server, CLI, example app | configuration | process wiring | partly (`IdentityManager`) or not modelled |

Interactions: the app and the prover send *transactions* to the network; included
ones leave *events* in the archive; the indexer polls the archive; all of them call
the API, whose calls are single database operations (Prisma). There are no
transactions over several calls and no locks: `zkapp.isTransforming` is the only
thing by which prover and indexer coordinate. The pages poll: the API for the event of
their transaction, the network for the account, the oracle for the signed message. Each
poll is a React effect that a counter among its deps starts again.

What is hard here:

- every `await` lets the other programs run: the prover reads rows and maps at
  different times, the indexer replays one event in several calls;
- a proof is made on a commitment that may be gone when a block could hold it;
- each service ends on any error and restarts with nothing but the database;
- the flag is set after the send and cleared when the event arrives, in no order;
- the archive lags, heights are compared as strings, and blocks are scanned twice;
- rows are found by key alone whatever store they are in;
- an effect or a handler goes on with the values of the render it was made in, while the
  wallet's account, the page's identity and the counter of the poll move on;
- a session is a cookie that each response replaces as a whole.

`PROJECT.json` lists these hazards, each at its line, with the properties about it.

## The modules

    Zkkv              maps, events, assertions of the methods (operators only)
      IdentityManager the zkApp, transactions under way, the archive
      Storage         the tables and their procedures, restored maps
        Client        a user's app         (IdentityManager + Storage)
        Indexer       the replay           (IdentityManager + Storage)
        Prover        the commits          (IdentityManager + Storage)
          ZkHumans    the system, its properties, fairness
            MCZkHumans      instances for TLC
            ZkHumansProofs  theorems: types, log, rows, commits, replays, what is
                            committed, and Settlement
      Settlement      what the system promises, abstractly
      Rollup          the ZkProgram's step and merge
        IdentityExample       the example and the consumer
          MCIdentityExample
          IdentityExampleProofs   theorems, with Settlement
    EventFetch        which blocks are scanned, what is recorded and processed
      EventFetchProofs  theorems
    UiZkApp           the hook useZKApp
      UiData          and the hook useData on top of it
        MCUiData, UiDataProofs
    Page              the two pages that send a transaction
      MCPage, PageProofs
    BioAuthOracle     the oracle, its sessions and its cache
      BioAuth         and the page that polls it
        MCBioAuth, BioAuthProofs
    Base58            conversions of numbers, bytes and text
      MCBase58, Base58Proofs
    SequenceLemmas    facts about sequences and recursion that the proofs share

Settlement is the abstract specification of two systems: ZkHumans, where four programs
implement it, and IdentityExample, where one script does.

**Zkkv.** A Merkle root is the content of its map: Poseidon is taken as injective. A
keyring is a function from factors to leaves; `EMPTY` is `Field(0)`, the leaf of an
absent key, and differs from the root of the empty map. A witness is the map but for
the key's own leaf, so `computeRootAndKey(v) = root` becomes `[map EXCEPT ![k] = v] =
root`. The methods drop the key that `computeRootAndKey` returns beside the root
(`zkkv.ts:313,399-404`, `IdentityManager.ts:281-282,469`), so the assertions here have the
witness' key as a parameter of its own (`w`, `k`), which nothing compares with the identity or
the factor. It is Client that passes the keys the app passes: the manager's witness is the
identifier's, the keyring's are the operator key's (`OpKey`) and the factor's, and factors
are those the owner has (`Enrols`). Events carry the `meta` triple because the indexer acts
on it. The oracle's message is an argument of `addAuthNFactor` that no assertion looks at (its
check is commented out, `IdentityManager.ts:472-488`), and so is not in the model.

**IdentityManager.** A transaction carries the commitment it was proved on (`pre`, the
preconditions of `getAndAssertEquals`), the one it leaves (`post`) and its events.
The network includes it only while `pre` is the commitment; else it fails. Proving and
sending are one step: one that a user holds back before sending is like one that waits
in the mempool, as in both cases `pre` was fixed when the proof was made. Which user
signs, fees and the auth token play no part.

**Storage.** One table as a function from keys to rows or `NULL`. `Set` is an upsert
where `key` matches: an existing row keeps its `storageKey` and `commitmentSettled`.
`Commit` is the `updateMany` by `commitmentPending`, `CommittedStores` the second
query of the same procedure. `StoredKeyring` and `StoredManager` are
`getStoredMerkleMap`. Columns `meta`, `settlementChecksum` and timestamps are left out:
no step reads them.

**Client.** Begin (keyring), restore the manager's map, prove. Storage may change
between the steps. After sending, the client is free at once, as the page may be left;
what the page itself does meanwhile is module Page.

**Indexer.** One step for each API call of an event: `ProcessCreate`,
`ProcessPending` then `SetData`, `ProcessCommit` then `UpdateStore` for each store then
`UpdateManager` then `ClearTransforming`, and last `MarkProcessed`. A failing call
and a crash lead to `Restart`. `recorded` and `processed` are counts, as EventFetch
shows the recorded and the processed events to be prefixes of the log.

**Prover.** `Query` (flag and pending rows), `RestoreStore` for each store,
`ProverRestoreManager`, `Send` or `SendFails`, `SetTransforming`, `Waited`. Reading the flag and
the rows is one step: only this prover raises the flag, so one that was down
when it was read is still down when the rows are. `Waited` does not ask
whether the transaction was included: `res.wait()` also ends by failing and by timing
out, and the code goes on in every case.

**ZkHumans.** The composition, `Next == Users \/ Network \/ Indexing \/ Proving \/
Crash`. Two constants restrict the environment for the properties that need it; the
code enforces neither:

- `Serialized`: user transactions are not included while a commit is being made
  or under way, and the prover queries only when storage has caught up;
- `PromptFlag`: the commit is not included before the prover's next API call is done.

**Settlement.** The abstract specification: a map and the requests since it was last
committed; `Settle` applies all of them, in order, at once. The refinement maps
`requests` to the archived pending events since the last commit event.

**EventFetch.** Heights, the archive's lag, `blockLast`, the double scan of one block,
recording by unique id, processing by height and creation, and the comparison of two
`UInt32` objects by `>`, which JavaScript makes on their decimal strings.

**IdentityExample, Rollup.** The example runs the contract without a network: one script
emits, fetches and processes. Its helpers are actions that may be called in any order
at the points where the script calls one; a helper whose assertions throw is not enabled.
`todo` is the loop of `processPending`, one event a step, over the runner's maps before a
commit and over storage's after it. Pending events are kept newest transaction first.
The disabled commit with a recursive proof is not an action: `RollupOf` computes the steps
it would prove from the same pending events, and `CommitProvable` compares it with what
the auth token commits. A caller of the consumer may show witnesses of any two keys
(`Asserted`), and claim the root of any stored map or of an empty one (`Claims`), beside
any identifier: `Auth` compares the two roots, no key and no identifier.

**UiZkApp, UiData.** An effect is part of the step that changes one of its deps
(`Render`, `Reload`); what it leaves running, and every handler's await, is a record of
the values it closed over (`checks`, `loads`, `connect`). The wallet may change while an
account is looked up or a list is loaded, answers come in any order and are taken for the
present account, and requests fail. `overlapped` is history: it did change during a check.

**Page.** One visit of `identities.new` or `identities.$identityId`: account switches,
lookups of the identifier, the wallet's answers, proofs, sends, and the effect that
watches for the transaction's event. Nothing guards a handler against a second click, so
several signatures, proofs and sends may be under way (`signing`, `proofs`, `sending`) and
are answered in any order. Proofs and transactions remember what they were made of, `made`
has the keys of the proofs in order, `went` says where a redirect led. The indexer is
external: it records a transaction or not.

**BioAuthOracle, BioAuth.** Each route is a step from a request, which carries the session
as it was when it was sent, to a response that sets the cookie. Humanode is external.
BioAuth adds the page: clicks, the poll and its counter, polls that fail, visits of other
identities. The set of keys by which tokens are verified may fail to load as well; of that
`TokenExpires` has the effect, a token that does not verify.

**Base58.** The algorithm as written: squares of the base, pairs joined or split,
leading zeros, version byte, checksum. Bases are constants (9 and 4 stand for 256 and 58,
3 for 10), and the checksum is an operator of one byte. A loop is a recursive function of
its rounds, and how many rounds it takes is the least number that ends it (`Joins`, `Splits`,
`Leading`, `Length`). `Versions` are what ids may be made with, the values the mining script
tries included; `VersionBytes` are those they are read with.

## What TLC checks

| Run | Properties | What it shows | States |
| --- | --- | --- | --- |
| `App` | `TypeOK` `LogLinked` `ReplayedExactly` `OnlyRequestedChanges` | with drops, crashes and any interleaving, events form a chain of commitments, an event marked processed had exactly the effect of one uninterrupted replay, and a commit changes a leaf only to what was last asked of it | 176405 |
| `Contract` | `RequestsJustified` `PendingShareCommitment` `NoDuplicateCommit` | with all four methods as the app would call them, each request of the app is allowed by the commitment it was proved on, pending rows share one (what `apps/prover/src/main.ts:152` relies on), and without a crash commits do not overlap | 1094880 |
| `Serialized` | `StorageInSync` `SettledWithin` `RowPerStore` `ImplementsSettlement` `RequestsSettle` `TransformingEnds` | when commits and requests take turns, a crash of each service included, the system implements Settlement, storage agrees with the zkApp, every request has its row in its own store, and under fair services requests settle and the flag comes down | 210719 |
| `Fetch` | `TypeOK` `NothingSkipped` `RecordedIsPrefix` `ProcessedInOrder` `EventsProcessed` `WaitsForBlocksOrDigit` | an archive up to two blocks behind loses nothing, around a height that gets a new digit (8 to 12) | 183929 |
| `Example` | `TypeOK` `InSync` `AuthorizedByMember` `AssertionLasts` `CommitProvable` `ImplementsSettlement` | the example keeps maps, storage and contract in sync whatever order its helpers are called in, the consumer authorizes nobody but on the keyring of a committed identity, what is committed is what the rollup would prove, and the whole implements Settlement | 152446 |
| `Wallet` | `AccountOnNetwork` `NewAccountLookedUp` `WalletKeptAlive` `PendingIsReloaded` `CompilingEnds` `FundedIsFound` | whatever overlaps, a new account is looked up by a run of its own, the wallet is kept alive and a pending list is loaded again; if the wallet never changed during a check, what the hook knows is of the account it shows and a funded account is found | 641416 |
| `Page` | `RedirectsToItsPage` `WatchAlive` `AwaitedIsFound` | the watch for a transaction goes on until it is found, and redirects to its page, with the exceptions below, also if steps are clicked twice | 674760 |
| `BioAuth` | `PollAlive` `LandsWhereAsked` `AuthArrives` | a human comes back to the id asked for, the page goes on polling, and a message the oracle holds reaches it, with expired tokens, lost caches and two tabs | 958619 |
| `Base58` | `SameNumber` `RoundTrips` `VersionsApart` | conversions agree with the naive definition and are undone, and ids are read with their own version byte only, but for the numbers below | 29359 |

### Bounds

*ZkHumans.* Two identities `i1`, `i2` with operator keys `k1`, `k2`, and secrets `p1`, `p2`.
One client is enough to have several transactions in the mempool at once, since it does
not wait for them. Two identities and one more factor are the least for which a commit
has to combine a new keyring, a changed one and an untouched one. Two or three user
transactions (`MaxSends`) and at least two commits (`MaxCommits`) give every overlap of a
request with a commit, and a second commit after it; `Serialized` has more commits than its
transactions and crashes can use, so that a bound does not stop what must happen. One
crash of each service (`MaxIndexerCrashes`, `MaxProverCrashes`) falls between any two
of its steps.

*EventFetch.* Four blocks (`MaxBlocks`) and four events (`MaxEvents`) from height 8: more
than the lag, across a new digit, with two events in one block; one crash.

*IdentityExample.* Alice with an operator key, Bob with a password and a proof of person
besides. `MaxEvents = 11`: the creation, two identities of two events each, two factors,
identities requested twice, and the commits between them.

*UiData.* Two accounts, one not on the network at first. One change of account or
network, at any time and so also during a check or a load, which makes two of them overlap;
connecting, which changes the account as well, comes on top. One answer in vain of
each chain of checks (the counter goes from 0 to 1, and the chain from one run to the next): an
account that exists may be reported missing because the request failed, and `MaxPolls` says
how often, so that a request succeeds in the end. One compilation under way, one failure (a
rejection, a failing import or a failing query of the list each), one refresh.

*Page.* Two accounts, two passwords, two signatures asked for at once, two proofs, two
transactions, one switch, one failing query: a second proof while the first is sent, the
same transaction sent twice, and a second transaction while the first is watched for.

*BioAuth.* Two ids, one human, two tabs, two links opened, two sign-ins, one fault. Moves
of the page, polls that fail and faults are not combined (`MaxMoves = 1` bounds their sum).

*Base58.* Every sequence of up to four bytes of base 9 and of up to five digits of base 4
(8 times 2 digits are joined and split in three rounds), numbers of up to three digits of
base 3. 9 is to 4 about as 256 is to 58: of both pairs neither is a power of the other,
and two digits of the smaller hold more than one of the larger. Versions 2 and 7 are bytes
that ids are read with, 4 is another one, and 9 does not fit in a byte.

`CHECK_DEADLOCK FALSE` is where the system may stop: the example's script at its
bound, and pages whose user and wallet do nothing more.

`ReplayedExactly` is checked with the methods the app calls. `delAuthNFactor` makes the
indexer set a row with key 0 (its event's first meta field equals its value, both 0,
`apps/indexer/src/main.ts:206`), and a store's value then depends on the order in
which the rows of one commit are updated.

### Runs that end with a counterexample

Each checks one statement of the repository.

| Run | Statement | What happens |
| --- | --- | --- |
| `LateRequest` | `libs/prisma/schema.prisma:53` `commitmentSettled` is the root the data settled within | a row set while the commit is under way is settled by its `commitmentPending` alone, in a root it is not part of |
| `RecreateManager` | `libs/trpc/src/lib/routers/storage.ts:114` create is for keys that are not known | stopped before `markProcessed`, the indexer creates the row again, fails and restarts for ever |
| `LostKey` | `identities.new.tsx:121` the operator key's secret is from the identifier signed by the operator key | the account changes after the signature; the identity is created with a key its owner cannot derive again |

### Where else the code and its words differ

These are conditions or constants of the properties above; the middle column says what to
change to see them.

| Where | Seen with | What happens |
| --- | --- | --- |
| `schema.prisma:27-29` the flag avoids a duplicate transformation | `Contract`, `MaxProverCrashes = 1` | the prover stops after `send` and before the flag, and sends again |
| `schema.prisma:27` the flag is true while a transformation is in progress | `Serialized`, `PromptFlag = FALSE` | the event is processed before the flag is set; it stays set, and nothing is committed any more |
| `schema.prisma:43,68` a key is unique within its store | `Serialized`, `Enrols <- SharedSecret` | a factor enrolled in two identities has one row, in the first |
| `indexer/src/main.ts:118` waits for blocks | the second disjunct of `WaitsForBlocksOrDigit` | from height 9 to 10 it waits with blocks to scan |
| `indexer/src/main.ts:124` scans one block again | `Fetch`, `MaxLag = 3` | an event of an archive three blocks behind is never fetched |
| `useZKApp.tsx:125-126` the counter triggers the next check | `~overlapped` in `FundedIsFound` | of two checks under way the older one sets the counter it closed over plus one (line 139), which may be what it is: no check follows |
| `useZKApp.tsx:31` whether the account exists on chain | `~overlapped` in `AccountOnNetwork` | the answer for an account that has gone is set for the present one (line 209) |
| `useData.tsx:19` the identities upon account change | an invariant that relates `identities` to the account | of two loads the later answer stays, whichever account it is of; a query that fails leaves the list as it was |
| `IdentityManager.ts:251` components to prove ownership of an identity | `AuthorizedByMember`, which names no identifier | `auth` compares two roots: the identifier and the factor's key are the caller's, and tied to neither witness |
| `zkkv.ts:312` the store has not been added; `IdentityManager.ts:467` the operator key is within the identity | `RequestsJustified`, through `Asserts` of Client | the key of the witness is dropped: so it is for the app, which takes the right witness, and not for every caller |
| `IdentityManager.ts:447` the oracle's message provides the secret | | its check is commented out (472-488): `addAuthNFactor` takes any message |
| `identities.$identityId.tsx:260` redirects to the factor's page | exceptions of `RedirectsToItsPage` | it goes to a factor prepared later, or to `af/undefined` if another watch reset the page, as when a send is clicked twice; an identity selected meanwhile inherits the page's state |
| `mina.auth.$id.tsx:33` stashes the id to return to | exception of `LandsWhereAsked` | a session whose token expired is sent to the login without; the human ends on the dashboard |
| `oracle-auth/app/auth.server.tsx`, one session in a cookie | `OnlyTab` of `LandsWhereAsked` | with two tabs the last response's `returnTo` and `state` win |
| `mina.server.tsx:7` a lifetime of ten minutes | comment on `CacheExpires` | unset, the variable gives `NaN` and `??` keeps it: entries never expire; set to 600000 as in the example environments, the cache takes it for seconds |
| `libs/utils/src/lib/base58.ts:240` powers less than `x` | `Unsplit` | 58^(2^k) and 256^(2^k) are left as one digit and have no text; a version byte of 180 or 144 in front keeps identifiers and bioauthorizations away from them |
| `apps/cli/src/mining-version-bytes.ts:34` tries values up to 10000 | version 9 in `Base58`, which is in `Versions` and not in `VersionBytes` | ids with a version "byte" over 255 begin with another byte, and cannot be read |
| `libs/contracts/src/examples/identity-prover.ts`, the rollup | `RequestedTwice` in `CommitProvable` | the contract takes an identity that is pending already a second time; the token commits it, a proof could not |

### Fairness

`ZkHumans!FairSpec` assumes weak fairness of the indexer and of the prover: both are loops with
a fixed delay that their containers restart when they exit (`docker-compose.yml:16`). It
assumes weak fairness of the inclusion of a commit whose precondition holds, and strong fairness
of the cycles that record something, as a cycle may find nothing new yet. Users owe
nothing. The liveness properties of `Serialized` further take `PromptFlag` and a network
that drops nothing: without them the flag may stay set, and without `Serialized` a late
request is settled that is not committed.

EventFetch has weak fairness of the indexer's loop and of the archive's ingestion;
`EventsProcessed` leaves out the wait at a new digit. UiData, Page and BioAuth have weak
fairness of what the browser runs by itself: an API call is answered, a timer runs out. Nothing is
assumed there of the user, the wallet, the faucet, Humanode or the services.
`IdentityExample` and `Base58` state no liveness.

## What is proved

Seven modules of theorems and one of lemmas they share (`SequenceLemmas`), for all values
of the constants that meet the named assumptions, and so for any number of identities,
factors, clients, transactions, blocks, events, tabs, polls and crashes, and any length of
text. Every invariant and every action property that a passing run checks is stated by a
theorem, but `AccountOnNetwork`. A theorem that
needs a hypothesis states it with ASSUME; the section on assumptions says what each stands
for.

### ZkHumansProofs

| Theorem | Property | Hypotheses |
| --- | --- | --- |
| `TypeCorrect` | `TypeOK` | |
| `LogAlwaysLinked` | `LogLinked` | |
| `RequestsAlwaysJustified` | `RequestsJustified` | |
| `PendingAlwaysShare` | `PendingShareCommitment` | |
| `NeverTwoCommits` | `NoDuplicateCommit` | `MaxProverCrashes = 0` |
| `RowAlwaysInItsStore` | `RowPerStore` | `OwnSecretsOnly`, `WebMethodsOnly` |
| `AlwaysReplayedExactly` | `ReplayedExactly` | `WebMethodsOnly` |

All are theorems of the contract as the web app calls it, as said of `Zkkv` above: that the
keys of the witnesses are the right ones is the app's part (`Asserts` of Client), and the
assertions on the roots are the contract's. A caller that is not the app is not in the system.

*Types.* `TypeOK` is not inductive: what the indexer sets follows from the event it is at,
and that a row's store has a row follows from the guard of `storage.set`. `TypeInv` adds

- `CreatedFirst`: the log starts with the only `storage:create` event;
- `StoresExist`: the store a row names has a row;
- `IndexerReady`: at each point of its loop there is a current event of the right type,
  and the rows that the rest of the event updates exist;
- `ClientReady`: an operation's factor is one of its identity's.

It is proved inductive one program at a time: frame lemmas for what a step leaves alone,
then one lemma for each component (`IndexerInvStep`, `ClientInvStep`, `ProverInvStep`,
`IncludeInv`, ...). What a router does to the table is stated once (`Written`:
`SetWritten`, `CommitWritten`, ...), as is what the restored maps are
(`RestoredMaps`).

*The log.* Its properties follow from `LogInv`, which adds what holds of transactions not
yet in a block: the events of each are linked, start on `pre` and lead to `post`, and its
requests are allowed by `pre` (`TxnInv`). Inclusion checks `pre`, so the log stays linked;
a method's assertions give the rest (`MethodRequests`).

*Pending rows.* `PendingInv` names the commitment the pending rows share: the one that the
events processed so far lead to. A request being processed is linked to the event before
it and so sets rows that are pending on the same one; a commit event is proved on it too
and settles every pending row, which is why there are none while its stores are updated.

*One commit.* `CommitInv` counts the commits that are under way: in the mempool, or in the
log and not replayed. While there is one the flag is up, or the prover's next step is to
set it, or the commit is the event being processed and nothing is pending any more; so
the prover does not query rows for a second. A crash of the prover between the send and the
flag breaks it, which the `Contract` run with `MaxProverCrashes = 1` shows.

*Rows and stores.* `OwnedInv`: what the log and the mempool hold are the web app's requests
(`WebInv`), a factor's row is in the store of an owner of it (`RowsOwned`), and no row
that a processed request asked for goes away (`RowsKept`).

*Replays.* `ReplayInv` says what the table may be half-way through an event, after any
number of broken-off attempts, in terms of the table before it (`Midway`): for a request
the table as it was, with the first row set, or with both; for a commit some rows as the
commit settled them and others as it leaves them (`Between`). To replay an event on such a
table is to continue: setting a row twice is setting it once (`SetSame`, `RequestReplay`);
a commit finds nothing left to settle and the same stores to revalue, because it is told
by `commitmentSettled` and not by what is pending (`BetweenRows`, `CommitAgain`); and what
a store is revalued with are its factors' rows, which the revaluing does not change
(`RevalueStore`, `RevalueManager`). That last fact needs the web app's methods. The log
only grows, so that the table of an event never changes afterwards (`ReplayUnique`,
`ReplayedKept`: a least counterexample takes the place of induction).

The last part of the module is about what is committed:

| Theorem | Property | Hypotheses |
| --- | --- | --- |
| `OnlyRequestedEverChanges` | `OnlyRequestedChanges` | `OwnSecretsOnly`, `WebMethodsOnly` |
| `StorageAlwaysInSync` | `StorageInSync` | and `Serialized = TRUE` |
| `AlwaysSettledWithin` | `SettledWithin` | and `Serialized = TRUE` |
| `SystemSettles` | `ImplementsSettlement` | and `Serialized = TRUE` |

*Without Serialized* the prover may combine maps of different times, and the commit need
not be what was requested since the last one. What it cannot do is lose or invent a
factor, and `BackedInv` says why: the commitments in the log only grow, and whatever the
current one or a commit under way holds has a row (`MapsGrow`); a stored keyring that is
read has only factors with rows, and a row only where it was asked for (`RowsBacked`); and
what the prover has read so far holds at least what the commitment it will be checked
against holds, and nothing without a row (`ProverBacked`).

*With Serialized*, `SettleInv` adds the converse: the commitment a commit or the creation
leads to holds everything asked for before it (`LogSettles`, `TxnsSettle`), a row that is
settled is in the commitment it names and in the one storage has reached or is being
taken to (`SettledIn`), the manager's row has that commitment's map (`ManagerStored`), and
a prover whose transaction can still be included has read a table that has caught up, so
that it settles every row (`ProverSettles`). The refinement maps `requests` to the
archived pending events since the last commit (`OpenRequests`): an inclusion of a user's
transaction is a request, of the prover's a `Settle`, and all else a stutter.

### IdentityExampleProofs

- `ExampleTypeCorrect`: `Spec => []TypeOK`;
- `MapsInSync`: `Spec => []InSync`;
- `AuthorizedAlwaysByMember`: `Spec => []AuthorizedByMember`;
- `AssertionStays`: `Spec => []AssertionLasts`;
- `ExampleSettles`: `Spec => ImplementsSettlement`, the refinement of Settlement with the
  events since the last commit as its requests;
- `CommitAlwaysProvable`: `Spec => []CommitProvable`.

`InSync` speaks of the script between transactions. Its invariant speaks of every
step: storage agrees with the commitment and the runner with storage except while pending
events are being processed, and then both go the same way (`Processed` of the same maps
and the same events gives the same maps, so that the runner, which goes first, foretells
what storage becomes). What makes the manager's map right after the last event is how
requests come: an identity's event is followed by its operator key's in the same
transaction, a factor is requested of a committed identity only, and no request takes a
factor away. `AssertionLasts` follows from the same invariant, and so does
`AuthorizedByMember`: a claim whose roots match is the keyring of some committed identity,
with the factor's leaf set, whichever keys the witnesses are of.

Settlement takes requests in the order they were made; the script keeps the pending
transactions newest first and processes them in that order. The proof shows why this
makes no difference: a factor other than an operator key is requested of a committed
identity only, and an identity only while it is not committed, so that no two pending
events of one leaf ask for different things. `LeafAfter` states what a leaf is after the
first n pending events, in terms of which events they are and not of their order.
`RequestInv` adds to the invariant of the script that the pending events are,
as a set, those of the log since the last commit (`AreRequests`), and that before a commit
the runner holds `LeafAfter` of those it has processed (`HoldsRequests`, `HoldsStep`).
When all are processed that is what Settlement makes of the requests
(`LeafIsRequested`, `CommitsRequests`). Every transaction is then a request
(`TransactionStep`), the commit settles (`CommitSimulates`), and all else is a stutter.

For `CommitProvable` the recursive functions of `RollupOf` are shown to exist, and their
merged proof to go from the first root to the last (`RollupFacts`), without induction:
the least number of events for which it were not so comes after one for which it is.
The maps of the rollup and those of the runner then stay together, event by event, as long
as no identity is requested twice (`TogetherAlong`), and what each step asserts of the
value its key had holds; the step of the second request of an identity asserts that it is
not there, and fails (`RollupProves`). For this the pending events must be those of
transactions: two requests of one identity are the same event, and the operator key of a
new identity comes right after it (`Formed`).

### EventFetchProofs

- `TypeCorrect`: `Spec => []TypeOK`;
- `NoneSkipped`, `TableIsPrefix`, `InChainOrder`: `NothingSkipped`, `RecordedIsPrefix` and
  `ProcessedInOrder` are invariant, **if the archive lags by at most two blocks**
  (`MaxLag <= 2`), which the code does not guarantee and `Fetch` shows to be
  necessary.

The invariant `FetchInv` follows a cycle: heights never decrease along the log; the
recorded events are 1, 2, ... and the processed ones a prefix of them; what is fetched
and not yet recorded continues the recorded events, except for those it repeats; and an event that
is not recorded lies, at each point of the loop, at a height that this cycle's or the
next one's scan reaches. That last part needs the lag: the scan starts at
`blockLast - 1`, and an event the archive had not ingested when `blockLast` was scanned is not
lower.

- `WaitsOnlyForBlocks`: `Spec => WaitsForBlocksOrDigit`, for heights that are UInt32
  (below 4294967296) and any archive. Of two numbers with as many digits the
  greater string is the greater number, and a number with more digits is greater than
  one with less; a UInt32 has at most ten (`DigitsFacts`).

### UiDataProofs

- `NewAccountAlwaysLookedUp`: `Spec => []NewAccountLookedUp`;
- `WalletAlwaysKept`: `Spec => []WalletKeptAlive`;
- `PendingAlwaysReloaded`: `Spec => []PendingIsReloaded`;
- `CompilingAlwaysEnds`: `Spec => []CompilingEnds`.

None has a hypothesis: checks and loads overlap in every way. A render that changes what the
check depends on starts a run that closed over the account of now, and once any answer is
there, a late one too, something is known of the account and `NewAccountLookedUp` has
nothing left to say. `ImportedLast` keeps the wallet's first answers from being checked before snarkyjs is
there. `LoopsBounded` counts chains of checks and loops together: one starts with the import and
one with each change in the wallet, and a chain that finds its account becomes a loop.
`ListInv` is that a load which shows something pending leaves a delay or a load behind.
`CompilesFirst`: the flag is up only before there is a zkApp. `AccountOnNetwork`, with its
condition that the wallet never changed during a check, is left to TLC.

### PageProofs

- `AlwaysRedirectsToItsPage`: `Spec => []RedirectsToItsPage`;
- `WatchNeverDies`: `Spec => []WatchAlive`.

A redirect is made by a run of the watch with the key it closed over; the transaction was
made of a proof prepared earlier. `PageInv` follows the key from one to the other: each
transaction has the key of its proof (`Prepared`); the key of the page and those of the runs
are of that proof or a later one, or none if the page was reset for another transaction, which is
then recorded (`KeysFit`). The identity is one throughout as long as nothing else is selected
(`OneIdentity`); the new page has no keys and the factor page no lookups (`KeysOfPage`,
`LookupsOfNew`). Any number of signatures, proofs and sends may be under way.

### BioAuthProofs

- `PollNeverDies`: `Spec => []PollAlive`;
- `AlwaysLandsWhereAsked`: `Spec => []LandsWhereAsked`.

Of the page, `CounterPolled`: as long as the page needs to poll and no poll failed, a run has
the counter of now, so that the counter it sets when its delay is over is another one and
the effect runs again; a run with an older counter may set any, and the render that does so
starts a run with it.
Of the oracle, `TabInv` describes the way of a tab that is the only one, at each request
and page: the session it carries is the browser's, and the id that was opened is either
asked for, or stashed in the cookie while the human signs in, or signed; a tab that
is at the dashboard, or signs in without the id, has met an expired token.

### Base58Proofs

- `SameNumberHolds`: `Spec => []SameNumber`;
- `RoundTripsHolds`: `Spec => []RoundTrips`;
- `VersionsApartHolds`: `Spec => []VersionsApart`.

For any bases and any number of digits. Induction over the rounds of a loop is membership:
a set of numbers that has 0, and the successor of each of its members, has them all
(`SetInduction`), and the function a loop stands for exists (`RecursionExists`).

*fromBase* is the naive sum (`FromBaseValue`): padding adds zeros, and a round makes digits of
the squared base that have the same value (`SumOfPairs`, `PairedValue`).

*toBase* gives digits of the same value, because a round that splits is undone by one that joins
(`HalvedPaired`). `AreDigits` is the invariant of its rounds: every digit is below the
power the round divides by, unless x is that power's last square, of which all digits are
zero but the last, and that one is the base itself: the number is left unsplit
(`ToBaseFacts`).

*Round trips.* Digits within a base are told by their value and their leading zeros
(`DigitsUnique`): the most significant digits that differ would make the values differ, and
the sequence with less digits is less. So what comes back, having the value and the zeros
of what was given, is what was given (`BytesComeBack`, `TextComesBack`). Where a number is
unsplit as text, its text has nothing but zeros; where it is unsplit as bytes, one of them is 256.

*Ids.* `ReadFacts` computes what reading gives for every number, version and checksum. If
the whole is split and the version is a byte, the bytes come back, with the checksum and
the version in their places; a version that is no byte comes back as the two that carry it
(`CarriedFacts`), of which the first is not what ids are read with; a whole that is unsplit has
0 or 256 for its first byte, which no version byte is. The characters of a number are read as the
number (`NumeralReads`). `ConversionInv` says what the value is at each stage of the conversions,
in terms of what was given.

### Assumptions, and what is only model-checked

The proofs assume what the constants' assumptions say (`KeysAssumption`, `FieldAssumption`,
`ChainAssumption`, `RowAssumption`, `MethodsAssumption`, `EnvironmentAssumption`,
`FetchAssumption`, `ExampleAssumption`, `UiAssumption`, `DataAssumption`,
`PageAssumption`, `OracleAssumption`, `RequestAssumption`, `Base58Assumption`,
`VersionsAssumption`, `OriginsAssumption`, `ChecksumAssumption`):
identifiers, factors and the special fields are distinct, 0 is not the root of a map, a
row is not the absent row, a request is not the absent request, heights and events are
positive, bounds are numbers. Of Base58: text has fewer digits than bytes, the characters of
decimal digits are bytes and not 0, a checksum is bytes, and a version past a byte (the
mining script's, up to 10000) does not begin with a byte that ids are read with (180 and
144). TLC evaluates all of them in the runs.

The hypotheses of single theorems are conditions the code does not enforce; with each of
them dropped the property fails, and the tables above say how to see it:

- `OwnSecretsOnly`: no two owners enrol the same secret (rows are found by key alone);
- `WebMethodsOnly`: users call `addIdentity` and `addAuthNFactor`, as the web app does.
  With `delAuthNFactor` the indexer sets rows with key 0, and `ReplayedExactly` depends
  on the order in which a commit's stores are updated;
- `MaxProverCrashes = 0`: the prover is not stopped between the send and the flag;
- `Serialized = TRUE`: commits and users' transactions take turns;
- `MaxLag <= 2`: as said above.

`FirstHeight + MaxBlocks < 4294967296` in `WaitsOnlyForBlocks` is no such condition: heights
are `UInt32` in the code.

Only model-checked are:

- all liveness, and whatever speaks of fairness or of enabled steps, which are beyond the
  proof system as installed;
- `AccountOnNetwork`, and the three properties that the runs refute, of course.

## What is not modelled

- The voting proof of concept (`libs/contracts-example/.../offchain-voting-poc`) is a copy
  of another project's, with its LICENSE. No app runs it, and nothing settles with it:
  its contract reads roots without a precondition and leaves them unset in `init`.
- API server, CLI, example app: wiring, configuration and presentation. The tRPC client's
  `healthcheck` waits in a loop for the API and keeps no state.
- Of the modelled components: signatures as values, fees, the auth token, the checks that
  end a service when the zkApp's address changes, chain reorganisations, the `meta`
  column, `storage.delete` and other procedures nobody calls, the form's fields and what
  pages only show, the loops that keep a wallet alive beyond their count, and
  `bioAuthState.id`, which nothing reads; of Base58, the four bytes of a checksum one by
  one (they are one byte), and the spaces, signs and prefixes that `BigInt` reads besides digits.
- `BioAuth.ts`, the contract, only counts messages that `checkMessage` accepts (a signature
  of the oracle's, and an id that is not 0), and no app calls it; `checkAccount` and
  `checkTTL` are called by nobody.
- What the pages take for another's and no property excludes, because the code compares
  nothing: the answer of an account's check or load that comes after the account has gone, and the
  bioauthorization of an identity that is not the page's any more. The models allow all of it.

## Plan

1. (done) Zkkv, IdentityManager, Storage, Client, Indexer, Prover, ZkHumans, Settlement,
   EventFetch; type correctness and the log's properties proved.
2. (done) Rollup and IdentityExample, UiZkApp and UiData, Page, BioAuthOracle and BioAuth,
   Base58; EventFetch and IdentityExample proved, with its refinement
   of Settlement. Smaller runs were folded into larger ones.
3. (done) Proofs of `PendingShareCommitment`, `NoDuplicateCommit`, `OnlyRequestedChanges`,
   `StorageInSync`, `SettledWithin`, `RowPerStore` and `ReplayedExactly`, and of the
   refinement of Settlement by ZkHumans.
4. (done) Proofs about the pages, the hooks and the oracle.
5. (done) `CommitProvable` of the example: what the recursive functions of `RollupOf` compute,
   by a least counterexample (`FirstExists`).
6. (done) Base58: that `WithBase` and `ValueOf` agree, by induction over the rounds, and what
   follows for texts and ids.
7. (done) The keys of witnesses as the caller's, overlapping checks, loads, signatures, proofs
   and sends, and queries that fail, with the properties of the pages and of the consumer
   restated and proved for them.
