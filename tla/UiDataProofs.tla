---------------------------- MODULE UiDataProofs ----------------------------
(***************************************************************************)
(* Theorems about the web app's hooks, for any accounts, any changes of    *)
(* account and network in the wallet at any time, any number of polls,     *)
(* compilations, refreshes and failures, and answers in any order.         *)
(***************************************************************************)
EXTENDS UiData, SequenceLemmas

-----------------------------------------------------------------------------
(***************************************************************************)
(* The inductive invariants.                                               *)
(***************************************************************************)

\* snarkyjs is imported last: before it nothing is checked or kept alive, and
\* handleConnectWallet is not run again after it.
ImportedLast ==
    /\ state.snarkyjs => connect = "idle"
    /\ ~state.snarkyjs => /\ checks = <<>>
                          /\ state.hasAccountNetwork = NULL
                          /\ keepAlives = 0

\* Every loop was a run of the check before, and a run or a chain of runs is
\* started by the import and by each change in the wallet.
LoopsBounded ==
    /\ NeedsKeep(state) => keepAlives + failures > 0
    /\ Len(checks) + keepAlives <= (IF state.snarkyjs THEN 1 ELSE 0) + switches

\* The invariant of the hook useZKApp.
HookInv ==
    /\ UiTypeOK
    /\ ImportedLast
    /\ NewAccountLookedUp
    /\ LoopsBounded

\* The invariant of the list.
ListInv ==
    /\ loads \in Seq(Loads)
    /\ delays \in Nat
    /\ lost \in Nat
    /\ pendings \in SUBSET Accounts
    /\ PendingIsReloaded

\* A compilation that is shown is one before there is a zkApp.
CompilesFirst == compiling => ~zkApp

-----------------------------------------------------------------------------
(***************************************************************************)
(* Types.                                                                  *)
(***************************************************************************)

States == [hasWallet : Known, hasNetwork : Known, hasAccount : Known,
           hasAccountNetwork : Known, account : Accounts \cup {NULL},
           snarkyjs : BOOLEAN, counter : Nat]

\* A render keeps the types, whatever it leaves running.
LEMMA RenderTypes ==
    ASSUME UiTypeOK, NEW s \in States, NEW rest \in Seq(Checks),
           NEW loops \in Nat, Render(s, rest, loops)
    PROVE  /\ state' \in States
           /\ checks' \in Seq(Checks)
           /\ keepAlives' \in Nat
<1>1. NeedsCheck(s) => RunOf(s) \in Checks
  BY DEF NeedsCheck, RunOf, Checks, States, Known
<1>2. NeedsCheck(s) => Append(rest, RunOf(s)) \in Seq(Checks)
  BY <1>1
<1>3. checks' \in Seq(Checks)
  BY <1>2 DEF Render
<1> QED  BY <1>3 DEF Render

\* The variables a step of the hook may change, kept in their types.
LEMMA UiTypes ==
    ASSUME UiTypeOK, UiStep
    PROVE  UiTypeOK'
<1> USE UiAssumption
<1>0. /\ state \in States /\ checks \in Seq(Checks) /\ keepAlives \in Nat
      /\ MaxSwitches \in Nat /\ MaxFailures \in Nat
      /\ switches \in 0 .. MaxSwitches /\ failures \in 0 .. MaxFailures
      /\ compiles \in Nat
  BY DEF UiTypeOK, States
<1>a. overlapped' \in BOOLEAN
  BY DEF UiTypeOK, UiStep, Overlaps
<1>1. ASSUME NEW b \in BOOLEAN, ChainChanged(b)
      PROVE  UiTypeOK'
  <2>1. [state EXCEPT !.hasNetwork = b] \in States
    BY <1>0 DEF States, Known
  <2>2. /\ state' \in States /\ checks' \in Seq(Checks) /\ keepAlives' \in Nat
    BY <1>0, <1>1, <2>1, RenderTypes DEF ChainChanged, SetState
  <2> QED  BY <1>0, <1>a, <1>1, <2>2 DEF UiTypeOK, ChainChanged, States
<1>2. ASSUME NEW a \in Accounts \cup {NULL}, AccountsChanged(a)
      PROVE  UiTypeOK'
  <2>1. [state EXCEPT !.account = a, !.hasAccount = a # NULL,
                      !.hasAccountNetwork = NULL] \in States
    BY <1>0 DEF States, Known
  <2>2. /\ state' \in States /\ checks' \in Seq(Checks) /\ keepAlives' \in Nat
    BY <1>0, <1>2, <2>1, RenderTypes DEF AccountsChanged, SetState
  <2> QED  BY <1>0, <1>a, <1>2, <2>2 DEF UiTypeOK, AccountsChanged, States
<1>3. ASSUME NEW b \in BOOLEAN, ConnectWallet(b)
      PROVE  UiTypeOK'
  <2>1. [state EXCEPT !.hasWallet = b] \in States
    BY <1>0 DEF States, Known
  <2>2. /\ state' \in States /\ checks' \in Seq(Checks) /\ keepAlives' \in Nat
    BY <1>0, <1>3, <2>1, RenderTypes DEF ConnectWallet, SetState
  <2> QED  BY <1>0, <1>a, <1>3, <2>2 DEF UiTypeOK, ConnectWallet, States, Connecting
<1>4. ASSUME NEW b \in BOOLEAN, ConnectNetwork(b)
      PROVE  UiTypeOK'
  <2>1. [state EXCEPT !.hasNetwork = b] \in States
    BY <1>0 DEF States, Known
  <2>2. /\ state' \in States /\ checks' \in Seq(Checks) /\ keepAlives' \in Nat
    BY <1>0, <1>4, <2>1, RenderTypes DEF ConnectNetwork, SetState
  <2> QED  BY <1>0, <1>a, <1>4, <2>2 DEF UiTypeOK, ConnectNetwork, States, Connecting
<1>5. ASSUME NEW a \in Accounts \cup {NULL}, ConnectAccounts(a) \/ ConnectRequest(a)
      PROVE  UiTypeOK'
  <2>1. [state EXCEPT !.hasAccount = a # NULL, !.account = a] \in States
    BY <1>0 DEF States, Known
  <2>2. /\ state' \in States /\ checks' \in Seq(Checks) /\ keepAlives' \in Nat
    BY <1>0, <1>5, <2>1, RenderTypes DEF ConnectAccounts, ConnectRequest, SetState
  <2> QED
    BY <1>0, <1>a, <1>5, <2>2
    DEF UiTypeOK, ConnectAccounts, ConnectRequest, States, Connecting
<1>6. ASSUME ConnectImport
      PROVE  UiTypeOK'
  <2>1. [state EXCEPT !.snarkyjs = TRUE] \in States
    BY <1>0 DEF States
  <2>2. /\ state' \in States /\ checks' \in Seq(Checks) /\ keepAlives' \in Nat
    BY <1>0, <1>6, <2>1, RenderTypes DEF ConnectImport, SetState
  <2> QED  BY <1>0, <1>a, <1>6, <2>2 DEF UiTypeOK, ConnectImport, States, Connecting
<1>7. ASSUME NEW n \in DOMAIN checks, CheckWakes(n)
      PROVE  UiTypeOK'
  <2>1. n \in 1 .. Len(checks) /\ checks[n] \in Checks
    BY <1>0
  <2> DEFINE next == checks[n].counter + 1
  <2>a. next \in Nat
    BY <2>1 DEF Checks
  <2> HIDE DEF next
  <2>b. [state EXCEPT !.counter = next] \in States
    BY <1>0, <2>a DEF States
  <2>2. [state EXCEPT !.counter = checks[n].counter + 1] \in States
    BY <2>b DEF next
  <2>3. RemoveAt(checks, n) \in Seq(Checks)
    BY <1>0, <2>1, RemoveAtFacts
  <2>4. /\ state' \in States /\ checks' \in Seq(Checks) /\ keepAlives' \in Nat
    BY <1>0, <1>7, <2>2, <2>3, RenderTypes DEF CheckWakes
  <2> QED  BY <1>0, <1>a, <1>7, <2>4 DEF UiTypeOK, CheckWakes, States
<1>8. ASSUME NEW n \in DOMAIN checks, NEW ok \in BOOLEAN, CheckAnswers(n, ok)
      PROVE  UiTypeOK'
  <2>1. n \in 1 .. Len(checks) /\ checks[n] \in Checks
    BY <1>0
  <2>2. [state EXCEPT !.hasAccountNetwork = ok] \in States
    BY <1>0 DEF States, Known
  <2>3. RemoveAt(checks, n) \in Seq(Checks)
    BY <1>0, <2>1, RemoveAtFacts
  <2>4. [checks EXCEPT ![n].at = "delay"] \in Seq(Checks)
    <3>1. [checks[n] EXCEPT !.at = "delay"] \in Checks
      BY <2>1 DEF Checks
    <3> QED  BY <1>0, <2>1, <3>1
  <2>5. /\ state' \in States /\ checks' \in Seq(Checks) /\ keepAlives' \in Nat
    BY <1>0, <1>8, <2>2, <2>3, <2>4, RenderTypes DEF CheckAnswers
  <2> QED  BY <1>0, <1>a, <1>8, <2>5 DEF UiTypeOK, CheckAnswers, States
<1>9. ASSUME ConnectFails \/ KeepAliveFails
      PROVE  UiTypeOK'
  BY <1>0, <1>a, <1>9 DEF UiTypeOK, ConnectFails, KeepAliveFails
<1>10. ASSUME NEW a \in Accounts, Fund(a)
       PROVE  UiTypeOK'
  BY <1>0, <1>a, <1>10 DEF UiTypeOK, Fund
<1>11. ASSUME Compile
       PROVE  UiTypeOK'
  BY <1>0, <1>a, <1>11 DEF UiTypeOK, Compile
<1>12. ASSUME NEW ok \in BOOLEAN, Compiled(ok)
       PROVE  UiTypeOK'
  <2>1. zkApp' \in BOOLEAN
    BY <1>12 DEF Compiled, UiTypeOK
  <2>2. compiles' \in Nat
    BY <1>0, <1>12 DEF Compiled
  <2>4. compiling' \in BOOLEAN
    BY <1>12 DEF Compiled
  <2>5. failures' \in 0 .. MaxFailures
    <3>1. failures' = failures \/ (failures' = failures + 1 /\ failures < MaxFailures)
      BY <1>12 DEF Compiled
    <3> QED  BY <1>0, <3>1
  <2>3. UNCHANGED <<state, connect, checks, keepAlives, exists, switches>>
    BY <1>12 DEF Compiled
  <2> QED  BY <1>a, <2>1, <2>2, <2>3, <2>4, <2>5 DEF UiTypeOK
<1> QED
  BY <1>1, <1>2, <1>3, <1>4, <1>5, <1>6, <1>7, <1>8, <1>9, <1>10, <1>11, <1>12
  DEF UiStep, Switching, Connects, Checking

-----------------------------------------------------------------------------
(***************************************************************************)
(* The hook useZKApp.                                                      *)
(***************************************************************************)

\* null is neither a boolean nor an account.
LEMMA NullFacts == NULL # TRUE /\ NULL # FALSE /\ NULL \notin Accounts
  BY UiAssumption

\* The types of what is used below.
LEMMA StateFacts ==
    ASSUME UiTypeOK
    PROVE  /\ state \in States
           /\ checks \in Seq(Checks)
           /\ keepAlives \in Nat /\ switches \in Nat /\ failures \in Nat
<1>1. MaxSwitches \in Nat /\ MaxFailures \in Nat
  BY UiAssumption
<1>2. /\ keepAlives \in Nat
      /\ switches \in 0 .. MaxSwitches /\ failures \in 0 .. MaxFailures
  BY DEF UiTypeOK
<1>3. state \in States /\ checks \in Seq(Checks)
  BY DEF UiTypeOK, States
<1>4. switches \in Nat /\ failures \in Nat
  BY <1>1, <1>2
<1> QED  BY <1>2, <1>3, <1>4

\* A run for account a is at its query.
Asking(a, cs) == \E n \in DOMAIN cs : cs[n].account = a /\ cs[n].at = "fetch"

\* What a render does to the runs of the check.
LEMMA RenderChecks ==
    ASSUME NEW s \in States, NEW rest \in Seq(Checks), NEW loops,
           Render(s, rest, loops)
    PROVE  /\ state' = s
           /\ CheckDeps(s) = CheckDeps(state) \/ ~NeedsCheck(s) => checks' = rest
           /\ Len(checks') \in Nat /\ Len(checks') <= Len(rest) + 1
           /\ NeedsCheck(s) /\ CheckDeps(s) # CheckDeps(state)
                => Asking(s.account, checks')
           /\ Asking(s.account, rest) => Asking(s.account, checks')
<1>1. CASE CheckDeps(s) # CheckDeps(state) /\ NeedsCheck(s)
  <2>1. RunOf(s) \in Checks
    BY <1>1 DEF NeedsCheck, RunOf, Checks, States
  <2>2. RunOf(s).account = s.account /\ RunOf(s).at = "fetch"
    BY DEF RunOf
  <2> DEFINE run == RunOf(s)
  <2>3. checks' = Append(rest, run) /\ state' = s
    BY <1>1 DEF Render
  <2> HIDE DEF run
  <2>4. /\ Len(checks') = Len(rest) + 1
        /\ DOMAIN rest \subseteq DOMAIN checks'
        /\ DOMAIN checks' = DOMAIN rest \cup {Len(rest) + 1}
        /\ \A n \in DOMAIN rest : checks'[n] = rest[n]
        /\ checks'[Len(rest) + 1] = run
    BY <2>1, <2>3, AppendFacts DEF run
  <2>5. Asking(s.account, checks')
    BY <2>2, <2>4 DEF Asking, run
  <2>6. Len(rest) \in Nat
    OBVIOUS
  <2> QED  BY <1>1, <2>3, <2>4, <2>5, <2>6
<1>2. CASE ~(CheckDeps(s) # CheckDeps(state) /\ NeedsCheck(s))
  <2>1. checks' = rest /\ state' = s
    BY <1>2 DEF Render
  <2> QED  BY <1>2, <2>1
<1> QED  BY <1>1, <1>2

\* What it does to the loops.
LEMMA RenderLoops ==
    ASSUME NEW s \in States, NEW rest, Render(s, rest, keepAlives),
           keepAlives \in Nat
    PROVE  /\ keepAlives' \in Nat /\ keepAlives' >= keepAlives
           /\ NeedsKeep(s) /\ KeepDeps(s) # KeepDeps(state)
                => keepAlives' = keepAlives + 1
           /\ ~NeedsKeep(s) \/ KeepDeps(s) = KeepDeps(state)
                => keepAlives' = keepAlives
           /\ keepAlives' <= keepAlives + 1
  BY DEF Render

\* What has to be shown of a step, besides the types.
Kept == ImportedLast /\ NewAccountLookedUp /\ LoopsBounded

\* Steps that leave the state and the checks alone.
LEMMA QuietKeeps ==
    ASSUME HookInv, UNCHANGED <<state, checks, switches>>, keepAlives' \in Nat,
           failures' \in Nat, keepAlives' + failures' >= keepAlives + failures,
           keepAlives' <= keepAlives, connect' = connect \/ connect' = "idle"
    PROVE  Kept'
<1> USE StateFacts DEF HookInv
<1>1. ImportedLast'
  BY DEF ImportedLast
<1>2. NewAccountLookedUp'
  BY Zenon DEF NewAccountLookedUp, NeedsCheck, Is
<1>3. NeedsKeep(state') => NeedsKeep(state)
  BY DEF NeedsKeep, Is
<1>4. NeedsKeep(state') => keepAlives' + failures' > 0
  <2>1. NeedsKeep(state) => keepAlives + failures > 0
    BY DEF LoopsBounded
  <2>2. /\ keepAlives \in Nat /\ failures \in Nat
        /\ keepAlives' \in Nat /\ failures' \in Nat
        /\ keepAlives' + failures' >= keepAlives + failures
    BY StateFacts
  <2>3. \A x, y, z, w \in Nat : z + w >= x + y /\ x + y > 0 => z + w > 0
    OBVIOUS
  <2>4. keepAlives + failures > 0 => keepAlives' + failures' > 0
    BY <2>2, <2>3
  <2> QED  BY <1>3, <2>1, <2>4, Zenon
<1>5. Len(checks') + keepAlives' <= (IF state'.snarkyjs THEN 1 ELSE 0) + switches'
  <2>1. Len(checks) \in Nat /\ Len(checks') = Len(checks)
    OBVIOUS
  <2>2. state'.snarkyjs = state.snarkyjs /\ switches' = switches
    OBVIOUS
  <2>3. Len(checks) + keepAlives <= (IF state.snarkyjs THEN 1 ELSE 0) + switches
    BY DEF LoopsBounded
  <2> QED  BY <2>1, <2>2, <2>3
<1>6. LoopsBounded'
  BY <1>4, <1>5 DEF LoopsBounded
<1> QED  BY <1>1, <1>2, <1>6 DEF Kept

\* The wallet changes: a run of the check may be started.
LEMMA SwitchingKeeps ==
    ASSUME HookInv, Switching
    PROVE  Kept'
<1> USE StateFacts DEF HookInv
<1>1. ASSUME NEW s \in States, SetState(s), CheckDeps(s) # CheckDeps(state),
             s.snarkyjs = state.snarkyjs, s.hasWallet = state.hasWallet,
             \/ s.hasAccountNetwork = state.hasAccountNetwork
             \/ s.hasAccountNetwork = NULL,
             connect' = connect, failures' = failures, switches' = switches + 1
      PROVE  Kept'
  <2>1. Render(s, checks, keepAlives)
    BY <1>1 DEF SetState
  <2>2. /\ state' = s
        /\ ~NeedsCheck(s) => checks' = checks
        /\ NeedsCheck(s) => Asking(s.account, checks')
        /\ Len(checks') \in Nat /\ Len(checks') <= Len(checks) + 1
    BY <1>1, <2>1, RenderChecks
  <2>3. keepAlives' = keepAlives
    <3>1. ~NeedsKeep(s) \/ KeepDeps(s) = KeepDeps(state)
      BY <1>1, NullFacts DEF NeedsKeep, KeepDeps, Is
    <3> QED  BY <2>1, <3>1, RenderLoops
  <2>4. NeedsKeep(s) => NeedsKeep(state)
    BY <1>1, NullFacts DEF NeedsKeep, Is
  <2>5. ImportedLast'
    BY <1>1, <2>2, <2>3 DEF ImportedLast, NeedsCheck
  <2>6. NewAccountLookedUp'
    BY <2>2 DEF NewAccountLookedUp, Asking
  <2>7. LoopsBounded'
    BY <1>1, <2>2, <2>3, <2>4 DEF LoopsBounded
  <2> QED  BY <2>5, <2>6, <2>7 DEF Kept
<1>2. ASSUME NEW b \in BOOLEAN, ChainChanged(b)
      PROVE  Kept'
  <2> DEFINE s == [state EXCEPT !.hasNetwork = b]
  <2>1. /\ s \in States /\ s.snarkyjs = state.snarkyjs
        /\ s.hasWallet = state.hasWallet /\ s.hasNetwork = b
        /\ s.hasAccountNetwork = state.hasAccountNetwork
    BY DEF States, Known
  <2>2. /\ b # state.hasNetwork /\ SetState(s)
        /\ connect' = connect /\ failures' = failures /\ switches' = switches + 1
    BY <1>2 DEF ChainChanged
  <2> HIDE DEF s
  <2>3. CheckDeps(s) # CheckDeps(state)
    BY <2>1, <2>2 DEF CheckDeps
  <2> QED  BY <1>1, <2>1, <2>2, <2>3
<1>3. ASSUME NEW a \in Accounts \cup {NULL}, AccountsChanged(a)
      PROVE  Kept'
  <2> DEFINE s == [state EXCEPT !.account = a, !.hasAccount = a # NULL,
                                !.hasAccountNetwork = NULL]
  <2>1. /\ s \in States /\ s.snarkyjs = state.snarkyjs
        /\ s.hasWallet = state.hasWallet /\ s.account = a
        /\ s.hasAccountNetwork = NULL
    BY DEF States, Known
  <2>2. /\ a # state.account /\ SetState(s)
        /\ connect' = connect /\ failures' = failures /\ switches' = switches + 1
    BY <1>3 DEF AccountsChanged
  <2> HIDE DEF s
  <2>3. CheckDeps(s) # CheckDeps(state)
    BY <2>1, <2>2 DEF CheckDeps
  <2> QED  BY <1>1, <2>1, <2>2, <2>3
<1> QED  BY <1>2, <1>3 DEF Switching

\* Before snarkyjs is imported nothing is known, checked or kept alive.
LEMMA NotImported ==
    ASSUME HookInv, connect # "idle" \/ ~state.snarkyjs
    PROVE  /\ ~state.snarkyjs
           /\ checks = <<>> /\ keepAlives = 0
           /\ state.hasAccountNetwork = NULL
  BY DEF HookInv, ImportedLast

\* A step of handleConnectWallet changes the state to s; the import, last,
\* starts the check.
LEMMA ConnectKeeps ==
    ASSUME HookInv, NEW s \in States, SetState(s),
           ~state.snarkyjs, s.hasAccountNetwork = state.hasAccountNetwork,
           s.snarkyjs => connect' = "idle",
           UNCHANGED <<switches, failures>>
    PROVE  Kept'
<1> USE StateFacts DEF HookInv
<1>1. checks = <<>> /\ keepAlives = 0 /\ s.hasAccountNetwork = NULL
  BY NotImported
<1>2. Render(s, <<>>, keepAlives) /\ <<>> \in Seq(Checks)
  BY <1>1 DEF SetState
<1>3. ~NeedsKeep(s) /\ (NeedsCheck(s) => s.snarkyjs)
  BY <1>1, NullFacts DEF NeedsCheck, NeedsKeep, Is
<1>4. s.snarkyjs => CheckDeps(s) # CheckDeps(state)
  BY DEF CheckDeps, States
<1>5. /\ state' = s
      /\ ~NeedsCheck(s) => checks' = <<>>
      /\ NeedsCheck(s) => Asking(s.account, checks')
      /\ Len(checks') \in Nat /\ Len(checks') <= 1
  <2> DEFINE rest == <<>>
  <2>1. rest \in Seq(Checks) /\ Len(rest) = 0 /\ Render(s, rest, keepAlives)
    BY <1>2
  <2>2. rest = <<>>
    OBVIOUS
  <2> HIDE DEF rest
  <2>3. /\ state' = s
        /\ CheckDeps(s) = CheckDeps(state) \/ ~NeedsCheck(s) => checks' = rest
        /\ Len(checks') \in Nat /\ Len(checks') <= Len(rest) + 1
        /\ NeedsCheck(s) /\ CheckDeps(s) # CheckDeps(state)
             => Asking(s.account, checks')
    BY <2>1, RenderChecks
  <2> QED  BY <1>3, <1>4, <2>1, <2>2, <2>3
<1>6. keepAlives' = 0
  BY <1>1, <1>2, <1>3, RenderLoops
<1>7. ImportedLast'
  BY <1>1, <1>3, <1>5, <1>6 DEF ImportedLast
<1>8. NewAccountLookedUp'
  BY <1>5 DEF NewAccountLookedUp, Asking
<1>9. LoopsBounded'
  BY <1>3, <1>5, <1>6 DEF LoopsBounded
<1> QED  BY <1>7, <1>8, <1>9 DEF Kept

\* handleConnectWallet.
LEMMA ConnectsKeeps ==
    ASSUME HookInv, Connects
    PROVE  Kept'
<1> USE StateFacts DEF HookInv
<1>1. ASSUME NEW b \in BOOLEAN, ConnectWallet(b)
      PROVE  Kept'
  <2> DEFINE s == [state EXCEPT !.hasWallet = b]
  <2>1. /\ s \in States /\ s.snarkyjs = state.snarkyjs
        /\ s.hasAccountNetwork = state.hasAccountNetwork
    BY DEF States, Known
  <2>2. ~state.snarkyjs /\ SetState(s) /\ UNCHANGED <<switches, failures>>
    BY <1>1 DEF ConnectWallet
  <2> HIDE DEF s
  <2> QED  BY <2>1, <2>2, ConnectKeeps
<1>2. ASSUME NEW b \in BOOLEAN, ConnectNetwork(b)
      PROVE  Kept'
  <2> DEFINE s == [state EXCEPT !.hasNetwork = b]
  <2>1. /\ s \in States /\ s.snarkyjs = state.snarkyjs
        /\ s.hasAccountNetwork = state.hasAccountNetwork
    BY DEF States, Known
  <2>2. connect # "idle" /\ SetState(s) /\ UNCHANGED <<switches, failures>>
    BY <1>2 DEF ConnectNetwork, Connecting
  <2> HIDE DEF s
  <2> QED  BY <2>1, <2>2, NotImported, ConnectKeeps
<1>3. ASSUME NEW a \in Accounts \cup {NULL}, ConnectAccounts(a) \/ ConnectRequest(a)
      PROVE  Kept'
  <2> DEFINE s == [state EXCEPT !.hasAccount = a # NULL, !.account = a]
  <2>1. /\ s \in States /\ s.snarkyjs = state.snarkyjs
        /\ s.hasAccountNetwork = state.hasAccountNetwork
    BY DEF States, Known
  <2>2. connect # "idle" /\ SetState(s) /\ UNCHANGED <<switches, failures>>
    BY <1>3 DEF ConnectAccounts, ConnectRequest, Connecting
  <2> HIDE DEF s
  <2> QED  BY <2>1, <2>2, NotImported, ConnectKeeps
<1>4. ASSUME ConnectImport
      PROVE  Kept'
  <2> DEFINE s == [state EXCEPT !.snarkyjs = TRUE]
  <2>1. s \in States /\ s.hasAccountNetwork = state.hasAccountNetwork
    BY DEF States
  <2>2. /\ connect # "idle" /\ connect' = "idle" /\ SetState(s)
        /\ UNCHANGED <<switches, failures>>
    BY <1>4 DEF ConnectImport, Connecting
  <2> HIDE DEF s
  <2> QED  BY <2>1, <2>2, NotImported, ConnectKeeps
<1>5. ASSUME ConnectFails
      PROVE  Kept'
  <2>1. /\ UNCHANGED <<state, checks, keepAlives, switches>>
        /\ connect' = "idle" /\ failures' = failures + 1
    BY <1>5 DEF ConnectFails
  <2> QED  BY <2>1, QuietKeeps
<1> QED  BY <1>1, <1>2, <1>3, <1>4, <1>5 DEF Connects

\* The answers to the check, and the renders that start it again.
LEMMA CheckingKeeps ==
    ASSUME HookInv, Checking
    PROVE  Kept'
<1> USE StateFacts DEF HookInv
<1>1. ASSUME NEW n \in DOMAIN checks, CheckWakes(n)
      PROVE  Kept'
  <2> DEFINE next == checks[n].counter + 1
             s    == [state EXCEPT !.counter = next]
             rest == RemoveAt(checks, n)
  <2>1. /\ n \in 1 .. Len(checks) /\ checks[n] \in Checks
        /\ checks[n].at = "delay" /\ state.snarkyjs
    BY <1>1 DEF CheckWakes, ImportedLast
  <2>2. next \in Nat
    BY <2>1 DEF Checks
  <2>3. /\ rest \in Seq(Checks) /\ Len(rest) = Len(checks) - 1
        /\ \A m \in 1 .. Len(checks) - 1 :
              rest[m] = IF m < n THEN checks[m] ELSE checks[m + 1]
    BY <2>1, RemoveAtFacts
  <2>4. Render(s, rest, keepAlives) /\ UNCHANGED <<connect, switches, failures>>
    BY <1>1 DEF CheckWakes
  <2> HIDE DEF next, rest
  <2>5. /\ s \in States /\ s.hasWallet = state.hasWallet
        /\ s.hasAccountNetwork = state.hasAccountNetwork
        /\ s.hasNetwork = state.hasNetwork
        /\ s.account = state.account /\ s.snarkyjs = state.snarkyjs
    BY <2>2 DEF States
  <2> HIDE DEF s
  <2>6. /\ state' = s
        /\ Asking(s.account, rest) => Asking(s.account, checks')
        /\ Len(checks') \in Nat /\ Len(checks') <= Len(checks)
    BY <2>1, <2>3, <2>4, <2>5, RenderChecks
  <2>7. keepAlives' = keepAlives
    BY <2>4, <2>5, RenderLoops DEF KeepDeps
  <2>8. ImportedLast'
    BY <2>1, <2>4, <2>5, <2>6 DEF ImportedLast
  <2>9. NewAccountLookedUp'
    <3> SUFFICES ASSUME NeedsCheck(s), s.hasAccountNetwork = NULL
                 PROVE  Asking(s.account, rest)
      BY <2>6 DEF NewAccountLookedUp, Asking
    <3>1. PICK m \in 1 .. Len(checks) : /\ checks[m].account = s.account
                                       /\ checks[m].at = "fetch"
      BY <2>5 DEF NewAccountLookedUp, NeedsCheck
    <3>2. m # n
      BY <2>1, <3>1
    <3>3. CASE m < n
      <4>1. m \in 1 .. Len(checks) - 1 /\ rest[m] = checks[m]
        BY <2>1, <2>3, <3>1, <3>3
      <4> QED  BY <2>3, <3>1, <4>1 DEF Asking
    <3>4. CASE m > n
      <4>1. m - 1 \in 1 .. Len(checks) - 1 /\ rest[m - 1] = checks[m]
        BY <2>1, <2>3, <3>1, <3>4
      <4> QED  BY <2>3, <3>1, <4>1 DEF Asking
    <3> QED  BY <3>2, <3>3, <3>4
  <2>10. LoopsBounded'
    <3>1. NeedsKeep(s) => NeedsKeep(state)
      BY <2>5 DEF NeedsKeep
    <3> QED  BY <2>4, <2>5, <2>6, <2>7, <3>1 DEF LoopsBounded
  <2> QED  BY <2>8, <2>9, <2>10 DEF Kept
<1>2. ASSUME NEW n \in DOMAIN checks, NEW ok \in BOOLEAN, CheckAnswers(n, ok)
      PROVE  Kept'
  <2> DEFINE s    == [state EXCEPT !.hasAccountNetwork = ok]
             rest == IF ok THEN RemoveAt(checks, n)
                           ELSE [checks EXCEPT ![n].at = "delay"]
  <2>1. n \in 1 .. Len(checks) /\ checks[n] \in Checks /\ state.snarkyjs
    BY DEF ImportedLast
  <2>2. /\ s \in States /\ s.hasWallet = state.hasWallet
        /\ s.hasAccountNetwork = ok /\ s.hasNetwork = state.hasNetwork
        /\ s.account = state.account /\ s.snarkyjs = state.snarkyjs
        /\ s.counter = state.counter
    BY DEF States, Known
  <2>3. Render(s, rest, keepAlives) /\ UNCHANGED <<connect, switches, failures>>
    BY <1>2 DEF CheckAnswers
  <2>4. /\ rest \in Seq(Checks)
        /\ Len(rest) = IF ok THEN Len(checks) - 1 ELSE Len(checks)
    <3>1. [checks[n] EXCEPT !.at = "delay"] \in Checks
      BY <2>1 DEF Checks
    <3>2. CASE ok
      <4>1. RemoveAt(checks, n) \in Seq(Checks)
            /\ Len(RemoveAt(checks, n)) = Len(checks) - 1
        BY <2>1, RemoveAtFacts
      <4> QED  BY <3>2, <4>1
    <3>3. CASE ~ok
      <4>1. [checks EXCEPT ![n].at = "delay"] \in Seq(Checks)
            /\ Len([checks EXCEPT ![n].at = "delay"]) = Len(checks)
        BY <2>1, <3>1
      <4> QED  BY <3>3, <4>1
    <3> QED  BY <3>2, <3>3
  <2> HIDE DEF s, rest
  <2>5. CheckDeps(s) = CheckDeps(state)
    BY <2>2 DEF CheckDeps
  <2>6. state' = s /\ checks' = rest
    BY <2>2, <2>3, <2>4, <2>5, RenderChecks
  <2>7. /\ keepAlives' \in Nat /\ keepAlives' >= keepAlives
        /\ keepAlives' <= IF ok THEN keepAlives + 1 ELSE keepAlives
    <3>1. ~ok => ~NeedsKeep(s)
      BY <2>2 DEF NeedsKeep, Is
    <3> QED  BY <2>2, <2>3, <3>1, RenderLoops
  <2>8. NeedsKeep(s) => keepAlives' + failures > 0
    <3>1. CASE KeepDeps(s) = KeepDeps(state)
      <4>1. NeedsKeep(s) => NeedsKeep(state)
        BY <2>2, <3>1 DEF KeepDeps, NeedsKeep
      <4> QED  BY <2>7, <4>1 DEF LoopsBounded
    <3>2. CASE KeepDeps(s) # KeepDeps(state)
      BY <2>2, <2>3, <3>2, RenderLoops
    <3> QED  BY <3>1, <3>2
  <2>9. ImportedLast'
    BY <2>1, <2>2, <2>3, <2>6 DEF ImportedLast
  <2>10. NewAccountLookedUp'
    BY <2>2, <2>6, NullFacts DEF NewAccountLookedUp
  <2>11. LoopsBounded'
    <3>1. Len(checks') + keepAlives' <= Len(checks) + keepAlives
      <4>1. Len(checks) \in Nat /\ Len(checks') = Len(rest)
        BY <2>6
      <4>2. CASE ok
        BY <2>4, <2>7, <4>1, <4>2
      <4>3. CASE ~ok
        BY <2>4, <2>7, <4>1, <4>3
      <4> QED  BY <4>2, <4>3
    <3>2. Len(checks) + keepAlives <= 1 + switches
      BY <2>1 DEF LoopsBounded
    <3>3. /\ Len(checks') + keepAlives' <= 1 + switches
          /\ state'.snarkyjs /\ switches' = switches /\ failures' = failures
      <4>1. /\ Len(checks) \in Nat /\ Len(checks') \in Nat
            /\ keepAlives \in Nat /\ keepAlives' \in Nat /\ switches \in Nat
        BY <2>4, <2>6, <2>7
      <4>2. Len(checks') + keepAlives' <= 1 + switches
        BY <3>1, <3>2, <4>1
      <4>3. state'.snarkyjs /\ switches' = switches /\ failures' = failures
        BY <2>1, <2>2, <2>3, <2>6
      <4> QED  BY <4>2, <4>3
    <3>4. NeedsKeep(state') => keepAlives' + failures' > 0
      BY <2>6, <2>8, <3>3
    <3> QED  BY <3>3, <3>4 DEF LoopsBounded
  <2> QED  BY <2>9, <2>10, <2>11 DEF Kept
<1> QED  BY <1>1, <1>2 DEF Checking

\* The invariant of the hook at the start.
LEMMA HookStarts ==
    ASSUME Init
    PROVE  HookInv
<1> USE NullFacts
<1>1. state \in States
  BY DEF Init, UiInit, States, Known
<1>2. UiTypeOK
  <2>1. 0 \in 0 .. MaxSwitches /\ 0 \in 0 .. MaxFailures
    BY UiAssumption
  <2>2. exists \in SUBSET Accounts
    BY UiAssumption DEF Init, UiInit
  <2>3. zkApp \in BOOLEAN /\ compiling \in BOOLEAN /\ overlapped \in BOOLEAN
    BY DEF Init, UiInit
  <2>4. /\ compiles \in Nat /\ checks \in Seq(Checks) /\ keepAlives \in Nat
        /\ connect \in {"idle", "network", "accounts", "request", "import"}
    BY DEF Init, UiInit
  <2>5. switches \in 0 .. MaxSwitches /\ failures \in 0 .. MaxFailures
    BY <2>1 DEF Init, UiInit
  <2> QED  BY <1>1, <2>2, <2>3, <2>4, <2>5 DEF UiTypeOK, States
<1>3. ~NeedsCheck(state) /\ ~NeedsKeep(state)
  BY DEF Init, UiInit, NeedsCheck, NeedsKeep, Is
<1>4. ImportedLast /\ NewAccountLookedUp /\ LoopsBounded
  BY <1>3 DEF Init, UiInit, ImportedLast, NewAccountLookedUp, LoopsBounded
<1> QED  BY <1>2, <1>4 DEF HookInv

\* A step of the hook keeps its invariant.
LEMMA HookKeeps ==
    ASSUME HookInv, UiStep
    PROVE  HookInv'
<1> USE StateFacts
<1>1. UiTypeOK'
  BY UiTypes DEF HookInv
<1>2. CASE Switching
  BY <1>1, <1>2, SwitchingKeeps DEF HookInv, Kept
<1>3. CASE Connects
  BY <1>1, <1>3, ConnectsKeeps DEF HookInv, Kept
<1>4. CASE Checking
  BY <1>1, <1>4, CheckingKeeps DEF HookInv, Kept
<1>5. ASSUME \/ KeepAliveFails
             \/ \E a \in Accounts : Fund(a)
             \/ Compile
             \/ \E ok \in BOOLEAN : Compiled(ok)
      PROVE  HookInv'
  <2>1. /\ UNCHANGED <<state, connect, checks, switches>>
        /\ \/ keepAlives' = keepAlives
                /\ (failures' = failures \/ failures' = failures + 1)
           \/ keepAlives' = keepAlives - 1 /\ failures' = failures + 1
    BY <1>5 DEF KeepAliveFails, Fund, Compile, Compiled
  <2>2. keepAlives' \in Nat /\ failures' \in Nat
    BY <1>1, StateFacts, UiAssumption DEF UiTypeOK
  <2>3. Kept'
    BY <2>1, <2>2, QuietKeeps DEF HookInv
  <2> QED  BY <1>1, <2>3 DEF HookInv, Kept
<1> QED  BY <1>2, <1>3, <1>4, <1>5 DEF UiStep

\* Of the other steps none touches the hook.
LEMMA HookInvStep ==
    ASSUME HookInv, [Next]_vars
    PROVE  HookInv'
<1>1. CASE Hook
  BY <1>1, HookKeeps DEF Hook
<1>2. CASE UNCHANGED uiVars
  <2>1. UNCHANGED <<state, zkApp, compiling, compiles, connect, checks,
                    keepAlives, exists, switches, failures, overlapped>>
    BY <1>2 DEF uiVars
  <2>2. UiTypeOK'
    BY <2>1, Zenon DEF UiTypeOK, HookInv
  <2>3. Kept'
    BY <2>1, StateFacts, QuietKeeps DEF HookInv
  <2> QED  BY <2>2, <2>3 DEF HookInv, Kept
<1>3. CASE Loading
  <2>1. UNCHANGED uiVars
    BY <1>3 DEF Loading, Refreshes, Loaded, LoadFails
  <2> QED  BY <1>2, <2>1
<1>4. CASE Refresh
  BY <1>2, <1>4 DEF Refresh
<1>5. CASE \E a \in Owners : RowChanges(a)
  BY <1>2, <1>5 DEF RowChanges
<1>6. CASE UNCHANGED vars
  BY <1>2, <1>6 DEF vars
<1> QED  BY <1>1, <1>3, <1>4, <1>5, <1>6 DEF Next

\* The invariant of the hook.
THEOREM HookInvariant == Spec => []HookInv
<1>1. Init => HookInv
  BY HookStarts
<1>2. HookInv /\ [Next]_vars => HookInv'
  BY HookInvStep
<1> QED  BY <1>1, <1>2, PTL DEF Spec

\* However the wallet changes while accounts are looked up and whichever answers
\* come late, an account of which nothing is known has a query of its own.
THEOREM NewAccountAlwaysLookedUp == Spec => []NewAccountLookedUp
<1>1. HookInv => NewAccountLookedUp
  BY DEF HookInv
<1> QED  BY <1>1, HookInvariant, PTL

\* The wallet is kept alive while the account is in use, and by no more loops
\* than there were changes of account and network, late answers included.
THEOREM WalletAlwaysKept == Spec => []WalletKeptAlive
<1>1. HookInv => WalletKeptAlive
  <2> SUFFICES ASSUME HookInv PROVE WalletKeptAlive
    OBVIOUS
  <2>1. Len(checks) \in Nat /\ keepAlives \in Nat /\ switches \in Nat
    BY StateFacts DEF HookInv
  <2> QED  BY <2>1 DEF HookInv, LoopsBounded, WalletKeptAlive
<1> QED  BY <1>1, HookInvariant, PTL

-----------------------------------------------------------------------------
(***************************************************************************)
(* The list of identities.                                                 *)
(***************************************************************************)

\* A reload asks for the list of an account, or empties it.
LEMMA ReloadKeeps ==
    ASSUME ListInv, NEW a \in Accounts \cup {NULL}, NEW again \in BOOLEAN,
           Reload(a, again)
    PROVE  /\ loads' \in Seq(Loads)
           /\ loads # <<>> => loads' # <<>>
           /\ identities' => identities
           /\ again /\ identities' => loads' # <<>>
<1>1. loads \in Seq(Loads)
  BY DEF ListInv
<1>2. CASE a # NULL
  <2>1. LoadOf(a) \in Loads
    BY <1>2 DEF LoadOf, Loads
  <2>2. Append(loads, LoadOf(a)) \in Seq(Loads) /\ Append(loads, LoadOf(a)) # <<>>
    BY <1>1, <2>1, AppendFacts
  <2> QED  BY <1>1, <1>2, <2>2 DEF Reload
<1>3. CASE a = NULL
  BY <1>1, <1>3 DEF Reload
<1> QED  BY <1>2, <1>3

\* Every step keeps a list with something pending to be loaded again.
LEMMA ListInvStep ==
    ASSUME HookInv, HookInv', ListInv, [Next]_vars
    PROVE  ListInv'
<1>0. /\ loads \in Seq(Loads) /\ delays \in Nat /\ lost \in Nat
      /\ pendings \in SUBSET Accounts
      /\ identities => loads # <<>> \/ delays > 0 \/ lost > 0
  BY DEF ListInv, PendingIsReloaded
<1>a. /\ state.account \in Accounts \cup {NULL}
      /\ state'.account \in Accounts \cup {NULL}
  BY DEF HookInv, UiTypeOK
<1>1. CASE Hook
  <2>1. Reload(state'.account, FALSE) /\ UNCHANGED <<pendings, delays, lost>>
    BY <1>1 DEF Hook, AccountEffect
  <2>2. /\ loads' \in Seq(Loads) /\ (loads # <<>> => loads' # <<>>)
        /\ identities' => identities
    BY <1>a, <2>1, ReloadKeeps
  <2> QED  BY <1>0, <2>1, <2>2 DEF ListInv, PendingIsReloaded
<1>2. CASE Refreshes
  <2>1. /\ Reload(state.account, TRUE) /\ UNCHANGED <<pendings, lost>>
        /\ delays > 0 /\ delays' = delays - 1
    BY <1>2 DEF Refreshes
  <2>2. loads' \in Seq(Loads) /\ (identities' => loads' # <<>>)
    BY <1>a, <2>1, ReloadKeeps
  <2> QED  BY <1>0, <2>1, <2>2 DEF ListInv, PendingIsReloaded
<1>3. ASSUME NEW n \in DOMAIN loads, NEW pending \in BOOLEAN, Loaded(n, pending)
      PROVE  ListInv'
  <2>1. /\ loads' = RemoveAt(loads, n) /\ identities' = pending
        /\ delays' = IF pending THEN delays + 1 ELSE delays
        /\ UNCHANGED <<pendings, lost>>
    BY <1>3 DEF Loaded
  <2>2. loads' \in Seq(Loads)
    BY <1>0, <2>1, RemoveAtMembers
  <2>3. delays' \in Nat /\ (identities' => delays' > 0)
    BY <1>0, <2>1
  <2> QED  BY <1>0, <2>1, <2>2, <2>3 DEF ListInv, PendingIsReloaded
<1>4. ASSUME NEW n \in DOMAIN loads, LoadFails(n)
      PROVE  ListInv'
  <2>1. /\ loads' = RemoveAt(loads, n) /\ lost' = lost + 1
        /\ UNCHANGED <<pendings, delays>>
    BY <1>4 DEF LoadFails
  <2>2. loads' \in Seq(Loads)
    BY <1>0, <2>1, RemoveAtMembers
  <2>3. lost' \in Nat /\ lost' > 0
    BY <1>0, <2>1
  <2> QED  BY <1>0, <2>1, <2>2, <2>3 DEF ListInv, PendingIsReloaded
<1>5. CASE Refresh
  <2>1. Reload(state.account, TRUE) /\ UNCHANGED <<pendings, delays, lost>>
    BY <1>5 DEF Refresh
  <2>2. loads' \in Seq(Loads) /\ (identities' => loads' # <<>>)
    BY <1>a, <2>1, ReloadKeeps
  <2> QED  BY <1>0, <2>1, <2>2 DEF ListInv, PendingIsReloaded
<1>6. ASSUME NEW a \in Owners, RowChanges(a)
      PROVE  ListInv'
  <2>1. /\ UNCHANGED <<loads, delays, identities, lost>>
        /\ pendings' \in SUBSET Accounts
    BY <1>0, <1>6, DataAssumption DEF RowChanges
  <2> QED  BY <1>0, <2>1 DEF ListInv, PendingIsReloaded
<1>7. CASE UNCHANGED vars
  BY <1>0, <1>7 DEF vars, dataVars, ListInv, PendingIsReloaded
<1> QED
  BY <1>1, <1>2, <1>3, <1>4, <1>5, <1>6, <1>7 DEF Next, Loading

\* A list with a pending identity is loaded again, whichever accounts the loads
\* under way are of and in whatever order they are answered, unless one failed.
THEOREM PendingAlwaysReloaded == Spec => []PendingIsReloaded
<1>1. Init => ListInv
  BY DEF Init, ListInv, PendingIsReloaded
<1>2. HookInv /\ HookInv' /\ ListInv /\ [Next]_vars => ListInv'
  BY ListInvStep
<1>3. ListInv => PendingIsReloaded
  BY DEF ListInv
<1> QED  BY <1>1, <1>2, <1>3, HookInvariant, PTL DEF Spec

-----------------------------------------------------------------------------
(***************************************************************************)
(* Compilation.                                                            *)
(***************************************************************************)

\* Whatever the wallet does, the page never shows for good a compilation that
\* is not under way: it does so only as long as there is no zkApp, and the
\* button that clears the flag is still there.
THEOREM CompilingAlwaysEnds == Spec => []CompilingEnds
<1>1. Init => CompilesFirst
  BY DEF Init, UiInit, CompilesFirst
<1>2. CompilesFirst /\ [Next]_vars => CompilesFirst'
  <2> SUFFICES ASSUME CompilesFirst, [Next]_vars  PROVE CompilesFirst'
    OBVIOUS
  <2>1. CASE UNCHANGED <<zkApp, compiling>>
    BY <2>1 DEF CompilesFirst
  <2>2. CASE Compile
    BY <2>2 DEF Compile, CompilesFirst
  <2>3. ASSUME NEW ok \in BOOLEAN, Compiled(ok)
        PROVE  CompilesFirst'
    BY <2>3 DEF Compiled, CompilesFirst
  <2>4. CASE Switching \/ Connects \/ Checking
    <3>1. UNCHANGED <<zkApp, compiling>>
      BY <2>4 DEF Switching, ChainChanged, AccountsChanged, Connects,
           ConnectWallet, ConnectNetwork, ConnectAccounts, ConnectRequest,
           ConnectImport, ConnectFails, Checking, CheckWakes, CheckAnswers
    <3> QED  BY <2>1, <3>1
  <2>5. CASE KeepAliveFails \/ \E a \in Accounts : Fund(a)
    BY <2>1, <2>5 DEF KeepAliveFails, Fund
  <2>6. CASE Hook
    BY <2>2, <2>3, <2>4, <2>5, <2>6 DEF Hook, UiStep
  <2>7. CASE Loading \/ Refresh \/ \E a \in Owners : RowChanges(a)
    <3>1. UNCHANGED uiVars
      BY <2>7 DEF Loading, Refreshes, Loaded, LoadFails, Refresh, RowChanges
    <3> QED  BY <2>1, <3>1 DEF uiVars
  <2>8. CASE UNCHANGED vars
    BY <2>1, <2>8 DEF vars, uiVars
  <2> QED  BY <2>6, <2>7, <2>8 DEF Next
<1>3. CompilesFirst => CompilingEnds
  BY DEF CompilesFirst, CompilingEnds
<1> QED  BY <1>1, <1>2, <1>3, PTL DEF Spec

=============================================================================
