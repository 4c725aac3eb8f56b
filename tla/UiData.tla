------------------------------- MODULE UiData -------------------------------
(***************************************************************************)
(* The web app's frame: the hook useZKApp and, on top of it, the hook      *)
(* useData, which keeps the list of the account's identities.              *)
(*                                                                         *)
(* The list is loaded when the account changes and when refresh is called. *)
(* While one of its identities is pending it is loaded again after a delay.*)
(* No load is cancelled and no answer is compared with the account of then.*)
(***************************************************************************)
EXTENDS UiZkApp

CONSTANTS
    Owners,       \* the accounts that may have identities
    MaxRefreshes  \* bound: refreshes called by a page

ASSUME DataAssumption == Owners \subseteq Accounts /\ MaxRefreshes \in Nat

VARIABLES
    pendings,   \* the accounts with an identity that is pending in storage
    loads,      \* queries that are not answered yet, by the order they started in
    delays,     \* runs that wait to refresh
    identities, \* the list shown: whether one of its identities is pending
    refreshes,  \* counts of the bounds
    lost

dataVars == <<pendings, loads, delays, identities, refreshes, lost>>
vars == <<uiVars, dataVars>>

\* The query for an account; pending: what it would have found when it was sent.
Loads == [account : Accounts, pending : BOOLEAN]

TypeOK ==
    /\ UiTypeOK
    /\ pendings \in SUBSET Accounts
    /\ loads \in Seq(Loads)
    /\ delays \in Nat
    /\ identities \in BOOLEAN
    /\ refreshes \in 0 .. MaxRefreshes
    /\ lost \in 0 .. MaxFailures

LoadOf(a) == [account |-> a, pending |-> a \in pendings]

\* The effect for account a, run if the account is another one or refresh was
\* called (again).  Without an account the list is empty.
Reload(a, again) ==
    IF ~again /\ a = state.account
    THEN UNCHANGED <<loads, identities>>
    ELSE IF a # NULL
    THEN loads' = Append(loads, LoadOf(a)) /\ UNCHANGED identities
    ELSE identities' = FALSE /\ UNCHANGED loads

Init ==
    /\ UiInit
    /\ pendings = {}
    /\ loads = <<>> /\ delays = 0
    /\ identities = FALSE
    /\ refreshes = 0 /\ lost = 0

\* The effect of the account that a step of useZKApp leaves.
AccountEffect ==
    /\ Reload(state'.account, FALSE)
    /\ UNCHANGED <<pendings, delays, refreshes, lost>>

\* A step of useZKApp; of the steps, those of a check.
Hook  == UiStep /\ AccountEffect
Check == Checking /\ Overlaps /\ AccountEffect

\* Mutant: the list is loaded again if there is nothing pending in it.
MutantLoaded(n, pending) ==
    /\ pending \in {loads[n].pending, loads[n].account \in pendings}
    /\ identities' = pending
    /\ loads' = RemoveAt(loads, n)
    /\ delays' = IF pending THEN delays ELSE delays + 1
    /\ UNCHANGED <<uiVars, pendings, refreshes, lost>>

\* IDUtils.getIdentities answers query n with what was stored at some time since
\* it was asked.  The list is replaced whatever the account of now is, and the
\* run goes on to wait if it has a pending identity.
Loaded(n, pending) ==
    /\ pending \in {loads[n].pending, loads[n].account \in pendings}
    /\ identities' = pending
    /\ loads' = RemoveAt(loads, n)
    /\ delays' = IF pending THEN delays + 1 ELSE delays
    /\ UNCHANGED <<uiVars, pendings, refreshes, lost>>

\* The query throws: the run of the effect is over, with its rejection unheard.
\* The list stays as it is, and nothing loads it again.
LoadFails(n) ==
    /\ failures + lost < MaxFailures
    /\ lost' = lost + 1
    /\ loads' = RemoveAt(loads, n)
    /\ UNCHANGED <<uiVars, pendings, delays, identities, refreshes>>

\* A delay is over: refresh, for the account of now.
Refreshes ==
    /\ delays > 0
    /\ delays' = delays - 1
    /\ Reload(state.account, TRUE)
    /\ UNCHANGED <<uiVars, pendings, refreshes, lost>>

\* A page calls refresh: its transaction has been found.
Refresh ==
    /\ refreshes < MaxRefreshes
    /\ refreshes' = refreshes + 1
    /\ Reload(state.account, TRUE)
    /\ UNCHANGED <<uiVars, pendings, delays, lost>>

\* External: the services store an identity of the account, and settle it.
RowChanges(a) ==
    /\ \/ pendings' = pendings \cup {a}
       \/ pendings' = pendings \ {a}
    /\ UNCHANGED <<uiVars, loads, delays, identities, refreshes, lost>>

Loading ==
    \/ Refreshes
    \/ \E n \in DOMAIN loads :
          LoadFails(n) \/ \E pending \in BOOLEAN : Loaded(n, pending)

Next ==
    \/ Hook
    \/ Loading
    \/ Refresh
    \/ \E a \in Owners : RowChanges(a)

Spec == Init /\ [][Next]_vars

\* The browser's timers run out, and the network and the API answer.  Nothing
\* is assumed of the user, the wallet, the faucet or the services.
FairSpec ==
    /\ Spec
    /\ WF_vars(Check)
    /\ WF_vars(Loading)

-----------------------------------------------------------------------------
(***************************************************************************)
(* Properties                                                              *)
(***************************************************************************)

\* If the wallet never changed while an account was looked up, an account that
\* the page takes for one on the network is (stateInit's hasAccountNetwork,
\* "Does the MINA account exist on-chain?"): what was found for the account
\* before is not taken for the present one's.  (An answer that comes after its
\* account has gone is.)
AccountOnNetwork ==
    Is(state.hasAccountNetwork) /\ ~overlapped => state.account \in exists

\* An account of which nothing is known yet is being asked for by a run of its
\* own, however the wallet changes while others are looked up and whichever
\* answers come late: none of them is taken for the run that the new account's
\* render has to start.
NewAccountLookedUp ==
    NeedsCheck(state) /\ state.hasAccountNetwork = NULL =>
        \E n \in DOMAIN checks :
            checks[n].account = state.account /\ checks[n].at = "fetch"

\* The wallet is kept alive while the account is in use, unless it rejected,
\* and the loops that do so are as many as there were changes: none ends when
\* its account is gone (it closed over the state it started in), but the
\* account's check, which goes on, starts none of its own.
WalletKeptAlive ==
    /\ NeedsKeep(state) => keepAlives + failures > 0
    /\ keepAlives <= 1 + switches

\* A list that shows an identity as pending is loaded again, whichever account
\* it is of and whichever loads overlap, until a query fails: "continually
\* reload if any ids are pending".  (That the list is the present account's is
\* not so: the answer for an account that has gone replaces it.)
PendingIsReloaded == identities => loads # <<>> \/ delays > 0 \/ lost > 0

\* compile returns early with its flag set, when it is called without snarkyjs
\* ("only init zkApp once" returns early as well, but is not reached): the page
\* then shows a compilation that is not under way, but never for good: while
\* the flag is wrong the button is still there, and it clears the flag.
CompilingEnds == compiling /\ compiles = 0 => ~zkApp

\* An account that is funded is found to be, if the wallet stays with it and
\* never changed while an account was looked up.
FundedIsFound ==
    \A a \in Accounts :
        [](/\ state.account = a /\ Is(state.hasNetwork) /\ state.snarkyjs
           /\ a \in exists /\ ~overlapped)
            ~> Is(state.hasAccountNetwork)

=============================================================================
