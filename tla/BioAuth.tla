------------------------------- MODULE BioAuth -------------------------------
(***************************************************************************)
(* A bioauthorization from end to end: the page of an identity asks for    *)
(* the link and polls the oracle for the signed message, the human follows *)
(* the link in another tab, and the message becomes a factor's secret.     *)
(*                                                                         *)
(* The page polls by an effect: a run that finds nothing waits, and then   *)
(* increments the counter it closed over, which is one of the effect's     *)
(* deps.                                                                   *)
(***************************************************************************)
EXTENDS BioAuthOracle

CONSTANTS
    First,      \* the identity whose page it is at first
    MaxPolls,   \* bound: how often a message is asked for in vain
    MaxClicks,  \* bound: clicks on BioAuthorize under way
    MaxMoves    \* bound: moves (other identities visited, resets of the page),
                \* polls that fail and faults together

ASSUME PageAssumption ==
    First \in BioIds /\ {MaxPolls, MaxClicks, MaxMoves} \subseteq Nat

VARIABLES
    identifier,   \* the page's identity
    bioAuthState, \* auth, link and recheckCounter
    polls,        \* runs of the poll, by the order they started in
    clicks,       \* runs of handleBioAuth that have not returned
    moves,
    lost          \* polls that failed

pageVars == <<identifier, bioAuthState, polls, clicks, moves, lost>>
vars == <<oracleVars, pageVars>>

Polls  == [id : BioIds, counter : Nat, at : {"query", "delay"}]
Clicks == [id : BioIds, counter : Nat]

TypeOK ==
    /\ OracleTypeOK
    /\ identifier \in BioIds
    /\ bioAuthState \in [auth : Signed \cup {NULL}, link : BioIds \cup {NULL},
                         counter : Nat]
    /\ polls \in Seq(Polls)
    /\ clicks \in Seq(Clicks)
    /\ moves \in 0 .. MaxMoves /\ lost \in 0 .. MaxMoves

NoBioAuth == [auth |-> NULL, link |-> NULL, counter |-> 0]

Init ==
    /\ OracleInit
    /\ identifier = First
    /\ bioAuthState = NoBioAuth
    /\ polls = <<>> /\ clicks = <<>>
    /\ moves = 0 /\ lost = 0

MayFail == moves + faults + lost < MaxMoves

\* The state becomes s on identity i's page, with the runs rest; the effect is
\* run if one of its deps has changed.
NeedsPoll(s) == s.link # NULL /\ s.auth = NULL

\* Mutant: the counter is not one of the effect's deps.
MutantRender(i, s, rest) ==
    /\ identifier' = i
    /\ bioAuthState' = s
    /\ polls' = IF /\ <<i, s.auth, s.link>>
                      # <<identifier, bioAuthState.auth, bioAuthState.link>>
                   /\ NeedsPoll(s)
                THEN Append(rest, [id |-> i, counter |-> s.counter,
                                   at |-> "query"])
                ELSE rest

Render(i, s, rest) ==
    /\ identifier' = i
    /\ bioAuthState' = s
    /\ polls' = IF <<i, s>> # <<identifier, bioAuthState>> /\ NeedsPoll(s)
                THEN Append(rest, [id |-> i, counter |-> s.counter,
                                   at |-> "query"])
                ELSE rest

-----------------------------------------------------------------------------
\* BioAuthorize is clicked, which does nothing once there is a message.
Click ==
    /\ bioAuthState.auth = NULL
    /\ Len(clicks) < MaxClicks
    /\ bioAuthState.counter < MaxPolls
    /\ clicks' = Append(clicks, [id |-> identifier,
                                 counter |-> bioAuthState.counter])
    /\ UNCHANGED <<oracleVars, identifier, bioAuthState, polls, moves, lost>>

\* The id and the link are there (what fetchBioAuth found is not looked at).
Clicked(n) ==
    /\ clicks' = RemoveAt(clicks, n)
    /\ Render(identifier,
              [bioAuthState EXCEPT !.link = clicks[n].id,
                                   !.counter = clicks[n].counter + 1],
              polls)
    /\ UNCHANGED <<oracleVars, moves, lost>>

\* fetchBioAuth: the server has a message for the id, or answers with 404.
Received(n) ==
    /\ polls[n].at = "query"
    /\ cache[polls[n].id] # NULL
    /\ Render(identifier, [bioAuthState EXCEPT !.auth = cache[polls[n].id]],
              RemoveAt(polls, n))
    /\ UNCHANGED <<oracleVars, clicks, moves, lost>>

NotYet(n) ==
    /\ polls[n].at = "query"
    /\ cache[polls[n].id] = NULL
    /\ polls[n].counter <= MaxPolls
    /\ polls' = [polls EXCEPT ![n].at = "delay"]
    /\ UNCHANGED <<oracleVars, identifier, bioAuthState, clicks, moves, lost>>

\* The delay is over: the counter becomes the next of the one closed over.
Recheck(n) ==
    /\ polls[n].at = "delay"
    /\ Render(identifier,
              [bioAuthState EXCEPT !.counter = polls[n].counter + 1],
              RemoveAt(polls, n))
    /\ UNCHANGED <<oracleVars, clicks, moves, lost>>

\* The oracle cannot be reached: the run throws.
PollFails(n) ==
    /\ MayFail
    /\ polls[n].at = "query"
    /\ polls' = RemoveAt(polls, n)
    /\ lost' = lost + 1
    /\ UNCHANGED <<oracleVars, identifier, bioAuthState, clicks, moves>>

\* Another identity is selected: the page's state is kept.
Visit(i) ==
    /\ MayFail
    /\ moves' = moves + 1
    /\ i # identifier
    /\ Render(i, bioAuthState, polls)
    /\ UNCHANGED <<oracleVars, clicks, lost>>

\* A transaction of the page was found: resetState.
ResetState ==
    /\ MayFail
    /\ moves' = moves + 1
    /\ Render(identifier, NoBioAuth, polls)
    /\ UNCHANGED <<oracleVars, clicks, lost>>

Polling == \E n \in DOMAIN polls : Received(n) \/ NotYet(n) \/ Recheck(n)

\* The human follows the page's link, or another zkApp's.
LinkIsShown(i) == i # First \/ bioAuthState.link = i

Next ==
    \/ /\ OracleStep
       /\ \A t \in Tabs : opens'[t] # opens[t] => LinkIsShown(tab'[t].opened)
       /\ faults' # faults => MayFail
       /\ UNCHANGED pageVars
    \/ Click
    \/ \E n \in DOMAIN clicks : Clicked(n)
    \/ Polling
    \/ \E n \in DOMAIN polls : PollFails(n)
    \/ \E i \in BioIds : Visit(i)
    \/ ResetState

Spec == Init /\ [][Next]_vars

\* The poll's queries are answered and its timers run out.  Nothing is assumed
\* of the human, of Humanode, or of the page's user.
FairSpec == Spec /\ WF_vars(Polling)

-----------------------------------------------------------------------------
(***************************************************************************)
(* Properties                                                              *)
(***************************************************************************)

\* While there is a link and no message, the page polls ("continually check a
\* pending BioAuth when there is a link for it"), whatever the clicks, visits and
\* resets that change the counter under a run that waits; unless a poll failed,
\* which ends the polling for good.
PollAlive == NeedsPoll(bioAuthState) => polls # <<>> \/ lost > 0

OnlyTab(t) == \A u \in Tabs \ {t} : opens[u] = 0

\* A human who opened the link for an id in the only tab has that id signed
\* and no other; the dashboard, from where there is no way back to the id, is
\* reached only if a token had expired: the redirect to the login then does not
\* stash the id ("stash the requested bioAuthId to return after auth").
\* With two tabs the id stashed, and the state, are those of the last response.
LandsWhereAsked ==
    \A t \in Tabs :
        request[t] = NULL /\ tab[t].opened # NULL /\ OnlyTab(t) =>
            /\ tab[t].at = "signed" => tab[t].id = tab[t].opened
            /\ tab[t].at = "dashboard" => expired # {}

\* A message that the oracle holds reaches the page that polls for it, unless a
\* poll failed.
AuthArrives ==
    \A i \in BioIds :
        [](identifier = i /\ bioAuthState.link # NULL /\ cache[i] # NULL)
            ~> (bioAuthState.auth # NULL \/ lost > 0)

=============================================================================
