------------------------------- MODULE UiZkApp -------------------------------
(***************************************************************************)
(* The hook useZKApp of the web app: which wallet, network and account the *)
(* page is connected to, whether the account exists on the network, and    *)
(* the compiled zkApp.                                                     *)
(*                                                                         *)
(* React runs an effect with the render that changes one of its deps, and  *)
(* the effect's closure keeps that render's state: an effect is a part of  *)
(* the action that changes the deps, and what it leaves running is a       *)
(* record of the values it closed over.  Every await is a step's end.      *)
(***************************************************************************)
EXTENDS Naturals, Sequences, SequencesExt

CONSTANTS
    Accounts,        \* the accounts of the user's wallet
    OnChain,         \* those that exist on the network from the start
    NULL,            \* null
    MaxSwitches,     \* bound: changes of account or network in the wallet
    MaxPolls,        \* bound: how often an account is looked up in vain
    MaxCompiles,     \* bound: compilations under way
    MaxFailures      \* bound: rejections by the wallet, failing imports

ASSUME UiAssumption ==
    /\ OnChain \subseteq Accounts
    /\ NULL \notin Accounts \cup BOOLEAN
    /\ {MaxSwitches, MaxPolls, MaxCompiles, MaxFailures} \subseteq Nat

VARIABLES
    state,      \* the hook's state: what it knows of wallet and account
    zkApp,      \* whether the zkApp is compiled
    compiling,  \* is.compiling
    compiles,   \* calls of zkAppInit that have not returned
    connect,    \* where handleConnectWallet is
    checks,     \* runs of the account check, by the order they started in
    keepAlives, \* loops of walletKeepAlive that have not ended
    exists,     \* accounts that exist on the network by now
    switches,   \* counts of the bounds
    failures,
    overlapped  \* history: the wallet changed while an account was looked up

uiVars == <<state, zkApp, compiling, compiles, connect, checks, keepAlives,
            exists, switches, failures, overlapped>>

Known == BOOLEAN \cup {NULL}

\* A run closed over the account and the counter.
Checks == [account : Accounts, counter : Nat, at : {"fetch", "delay"}]

UiTypeOK ==
    /\ state \in [hasWallet : Known, hasNetwork : Known, hasAccount : Known,
                  hasAccountNetwork : Known, account : Accounts \cup {NULL},
                  snarkyjs : BOOLEAN, counter : Nat]
    /\ zkApp \in BOOLEAN /\ compiling \in BOOLEAN /\ compiles \in Nat
    /\ connect \in {"idle", "network", "accounts", "request", "import"}
    /\ checks \in Seq(Checks)
    /\ keepAlives \in Nat
    /\ exists \in SUBSET Accounts
    /\ switches \in 0 .. MaxSwitches
    /\ failures \in 0 .. MaxFailures
    /\ overlapped \in BOOLEAN

UiInit ==
    /\ state = [hasWallet |-> NULL, hasNetwork |-> NULL, hasAccount |-> NULL,
                hasAccountNetwork |-> NULL, account |-> NULL,
                snarkyjs |-> FALSE, counter |-> 0]
    /\ zkApp = FALSE /\ compiling = FALSE /\ compiles = 0
    /\ connect = "idle"
    /\ checks = <<>>
    /\ keepAlives = 0
    /\ exists = OnChain
    /\ switches = 0 /\ failures = 0
    /\ overlapped = FALSE

Is(b) == b = TRUE

-----------------------------------------------------------------------------
(***************************************************************************)
(* The effects, run with the render of the state s.                        *)
(***************************************************************************)
\* Mutant: the account is not a dependency of the check.
MutantCheckDeps(s) == <<s.counter, s.hasNetwork, s.snarkyjs>>
CheckDeps(s)  == <<s.account, s.counter, s.hasNetwork, s.snarkyjs>>
NeedsCheck(s) == /\ s.account # NULL
                 /\ Is(s.hasNetwork)
                 /\ s.snarkyjs
                 /\ ~Is(s.hasAccountNetwork)

\* Mutant: the keep-alive effect depends on the wallet alone.
MutantKeepDeps(s) == <<s.hasWallet>>
KeepDeps(s)   == <<s.hasWallet, s.hasAccountNetwork>>
NeedsKeep(s)  == Is(s.hasWallet) /\ Is(s.hasAccountNetwork)

RunOf(s) == [account |-> s.account, counter |-> s.counter, at |-> "fetch"]

\* Mutant: the check is run when the account, the network or snarkyjs change,
\* but not with the counter.
MutantRender(s, rest, loops) ==
    /\ state' = s
    /\ checks' = IF /\ CheckDeps(s) # CheckDeps([state EXCEPT !.counter = s.counter])
                    /\ NeedsCheck(s)
                 THEN Append(rest, RunOf(s)) ELSE rest
    /\ keepAlives' = IF KeepDeps(s) # KeepDeps(state) /\ NeedsKeep(s)
                     THEN loops + 1 ELSE loops

\* The state becomes s, while the runs of the check are rest and loops loops
\* keep the wallet alive; the effects whose deps have changed are run.
Render(s, rest, loops) ==
    /\ state' = s
    /\ checks' = IF CheckDeps(s) # CheckDeps(state) /\ NeedsCheck(s)
                 THEN Append(rest, RunOf(s)) ELSE rest
    /\ keepAlives' = IF KeepDeps(s) # KeepDeps(state) /\ NeedsKeep(s)
                     THEN loops + 1 ELSE loops

SetState(s) == Render(s, checks, keepAlives)

-----------------------------------------------------------------------------
(***************************************************************************)
(* Events of the wallet.                                                   *)
(***************************************************************************)

ChainChanged(supported) ==
    /\ switches < MaxSwitches
    /\ switches' = switches + 1
    /\ state.hasWallet # FALSE
    /\ supported # state.hasNetwork
    /\ SetState([state EXCEPT !.hasNetwork = supported])
    /\ UNCHANGED <<zkApp, compiling, compiles, connect, exists, failures>>

\* Mutant: what is known of the account before is kept.
MutantAccountsChanged(a) ==
    /\ switches < MaxSwitches
    /\ switches' = switches + 1
    /\ state.hasWallet # FALSE
    /\ a # state.account
    /\ SetState([state EXCEPT !.account = a, !.hasAccount = a # NULL])
    /\ UNCHANGED <<zkApp, compiling, compiles, connect, exists, failures>>

\* The account is reset and checked in one render; NULL: it is disconnected.
AccountsChanged(a) ==
    /\ switches < MaxSwitches
    /\ switches' = switches + 1
    /\ state.hasWallet # FALSE
    /\ a # state.account
    /\ SetState([state EXCEPT !.account = a, !.hasAccount = a # NULL,
                              !.hasAccountNetwork = NULL])
    /\ UNCHANGED <<zkApp, compiling, compiles, connect, exists, failures>>

-----------------------------------------------------------------------------
(***************************************************************************)
(* handleConnectWallet.  (A second click while it runs repeats what the    *)
(* first does, and is left out.)                                           *)
(***************************************************************************)
Connecting(from, to) == connect = from /\ connect' = to

\* Without a wallet the handler ends here.
ConnectWallet(installed) ==
    /\ Connecting("idle", IF installed THEN "network" ELSE "idle")
    /\ ~state.snarkyjs
    /\ Is(state.hasWallet) => installed
    /\ SetState([state EXCEPT !.hasWallet = installed])
    /\ UNCHANGED <<zkApp, compiling, compiles, exists, switches, failures>>

ConnectNetwork(supported) ==
    /\ Connecting("network", IF supported THEN "accounts" ELSE "idle")
    /\ SetState([state EXCEPT !.hasNetwork = supported])
    /\ UNCHANGED <<zkApp, compiling, compiles, exists, switches, failures>>

\* Accounts that are connected already need no request.
ConnectAccounts(a) ==
    /\ Connecting("accounts", IF a = NULL THEN "request" ELSE "import")
    /\ SetState([state EXCEPT !.hasAccount = a # NULL, !.account = a])
    /\ UNCHANGED <<zkApp, compiling, compiles, exists, switches, failures>>

\* The user connects an account or rejects.
ConnectRequest(a) ==
    /\ Connecting("request", IF a = NULL THEN "idle" ELSE "import")
    /\ SetState([state EXCEPT !.hasAccount = a # NULL, !.account = a])
    /\ UNCHANGED <<zkApp, compiling, compiles, exists, switches, failures>>

ConnectImport ==
    /\ Connecting("import", "idle")
    /\ SetState([state EXCEPT !.snarkyjs = TRUE])
    /\ UNCHANGED <<zkApp, compiling, compiles, exists, switches, failures>>

\* A call of the wallet throws, or the import does.
ConnectFails ==
    /\ connect \in {"network", "accounts", "import"}
    /\ failures < MaxFailures
    /\ failures' = failures + 1
    /\ connect' = "idle"
    /\ UNCHANGED <<state, zkApp, compiling, compiles, checks, keepAlives,
                   exists, switches>>

-----------------------------------------------------------------------------
(***************************************************************************)
(* The account's check on the network.                                     *)
(***************************************************************************)

\* fetchAccount answers run n.  The answer is not compared with the account of
\* now, and it is an error as well when the request itself fails: an account
\* that exists may be reported missing.  MaxPolls bounds the answers in vain
\* of a run's chain.
CheckAnswers(n, ok) ==
    LET run == checks[n]
    IN /\ run.at = "fetch"
       /\ IF ok THEN run.account \in exists
                ELSE run.counter < MaxPolls
       /\ Render([state EXCEPT !.hasAccountNetwork = ok],
                 IF ok THEN RemoveAt(checks, n)
                       ELSE [checks EXCEPT ![n].at = "delay"],
                 keepAlives)
       /\ UNCHANGED <<zkApp, compiling, compiles, connect, exists, switches,
                      failures>>

\* After the delay the counter becomes the next of the one the run closed over.
CheckWakes(n) ==
    /\ checks[n].at = "delay"
    /\ Render([state EXCEPT !.counter = checks[n].counter + 1],
              RemoveAt(checks, n), keepAlives)
    /\ UNCHANGED <<zkApp, compiling, compiles, connect, exists, switches,
                   failures>>

\* walletKeepAlive requests the accounts again and again; a rejection ends it.
KeepAliveFails ==
    /\ keepAlives > 0
    /\ failures < MaxFailures
    /\ failures' = failures + 1
    /\ keepAlives' = keepAlives - 1
    /\ UNCHANGED <<state, zkApp, compiling, compiles, connect, checks, exists,
                   switches>>

\* The faucet funds an account.
Fund(a) ==
    /\ a \notin exists
    /\ exists' = exists \cup {a}
    /\ UNCHANGED <<state, zkApp, compiling, compiles, connect, checks,
                   keepAlives, switches, failures>>

-----------------------------------------------------------------------------
(***************************************************************************)
(* compile.  The button does nothing once there is a zkApp, but it can be  *)
(* clicked again while a compilation is under way.                         *)
(***************************************************************************)
Compile ==
    /\ ~zkApp /\ compiles < MaxCompiles
    /\ compiling' = TRUE
    /\ compiles' = IF state.snarkyjs THEN compiles + 1 ELSE compiles
    /\ UNCHANGED <<state, zkApp, connect, checks, keepAlives, exists, switches,
                   failures>>

\* Mutant: the flag is cleared when zkAppInit throws only.
MutantCompiled(ok) ==
    /\ compiles > 0
    /\ ok \/ failures < MaxFailures
    /\ failures' = IF ok THEN failures ELSE failures + 1
    /\ zkApp' = (zkApp \/ ok)
    /\ compiling' = (compiling /\ ok)
    /\ compiles' = compiles - 1
    /\ UNCHANGED <<state, connect, checks, keepAlives, exists, switches>>

\* zkAppInit returns or throws.
Compiled(ok) ==
    /\ compiles > 0
    /\ ok \/ failures < MaxFailures
    /\ failures' = IF ok THEN failures ELSE failures + 1
    /\ zkApp' = (zkApp \/ ok)
    /\ compiling' = FALSE
    /\ compiles' = compiles - 1
    /\ UNCHANGED <<state, connect, checks, keepAlives, exists, switches>>

Switching ==
    \/ \E b \in BOOLEAN : ChainChanged(b)
    \/ \E a \in Accounts \cup {NULL} : AccountsChanged(a)

Connects ==
    \/ \E b \in BOOLEAN : ConnectWallet(b) \/ ConnectNetwork(b)
    \/ \E a \in Accounts \cup {NULL} : ConnectAccounts(a) \/ ConnectRequest(a)
    \/ ConnectImport \/ ConnectFails

Checking ==
    \E n \in DOMAIN checks :
        CheckWakes(n) \/ \E ok \in BOOLEAN : CheckAnswers(n, ok)

\* History: does the step change the wallet while an account is looked up?
Overlaps ==
    overlapped' = (overlapped \/ (switches' > switches /\ checks # <<>>))

UiStep ==
    /\ \/ Switching \/ Connects \/ Checking
       \/ KeepAliveFails
       \/ \E a \in Accounts : Fund(a)
       \/ Compile
       \/ \E ok \in BOOLEAN : Compiled(ok)
    /\ Overlaps

\* isReady: what transactions need.
IsReady ==
    /\ Is(state.hasAccount) /\ Is(state.hasAccountNetwork)
    /\ Is(state.hasNetwork) /\ Is(state.hasWallet)
    /\ state.account # NULL
    /\ state.snarkyjs /\ zkApp

=============================================================================
