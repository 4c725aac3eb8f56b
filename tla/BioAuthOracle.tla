---------------------------- MODULE BioAuthOracle ----------------------------
(***************************************************************************)
(* The BioAuth oracle (apps/oracle-auth): a human follows the link for an  *)
(* id, authenticates at Humanode, and the oracle signs the id and caches   *)
(* what it signed, for the zkApp that asks for it.                         *)
(*                                                                         *)
(* The session is a cookie: a request carries it as it was when the        *)
(* request was sent, and the response replaces it as a whole, so that of   *)
(* two tabs the last to be answered wins.                                  *)
(*                                                                         *)
(* oracle-auth-test, which signs for whoever opens the link, is the other  *)
(* server a behaviour may be about.                                        *)
(***************************************************************************)
EXTENDS Naturals, Sequences, FiniteSets, SequencesExt

CONSTANTS
    BioIds,     \* base58 ids, of the payloads to be signed
    Humans,     \* humans, by their Humanode identifier
    Tabs,       \* tabs of the browser
    NULL,       \* null
    MaxOpens,   \* bound: links opened
    MaxForms,   \* bound: authentications begun
    MaxFaults   \* bound: expiries, tokens that cannot be verified, restarts

ASSUME OracleAssumption ==
    /\ NULL \notin BioIds \cup Humans \cup Nat
    /\ {MaxOpens, MaxForms, MaxFaults} \subseteq Nat

VARIABLES
    oracle,   \* the server: "oracle-auth" or "oracle-auth-test"
    cookie,   \* the browser's session
    tab,      \* what each tab shows, and the id whose link was opened in it
    request,  \* each tab's request under way, or NULL
    cache,    \* the server's signed bioauthorizations, by id
    tokens,   \* the human of each token Humanode issued
    expired,  \* the tokens that have expired
    opens,    \* links opened in each tab; counts of the bounds
    forms,
    faults

oracleVars == <<oracle, cookie, tab, request, cache, tokens, expired, opens,
                forms, faults>>

\* returnTo: the id of the route; user: the token, state: of the OAuth2 flow.
NoSession == [returnTo |-> NULL, user |-> 0, state |-> 0]
Sessions  == [returnTo : BioIds \cup {NULL}, user : Nat, state : 0 .. MaxForms]

\* What the oracle signs; the timestamp is left out.
Signed == [payload : BioIds, bioAuthId : Humans]

Pages == {"blank", "mina", "signed", "login", "humanode", "user", "dashboard"}
Shown == [at : Pages, id : BioIds \cup {NULL}, opened : BioIds \cup {NULL},
          state : 0 .. MaxForms]

Paths == {"mina", "humanode", "callback", "login", "dashboard", "logout"}
Requests == [path : Paths, id : BioIds \cup {NULL}, state : 0 .. MaxForms,
             token : Nat, session : Sessions]

ASSUME RequestAssumption == NULL \notin Requests

OracleTypeOK ==
    /\ oracle \in {"oracle-auth", "oracle-auth-test"}
    /\ cookie \in Sessions
    /\ tab \in [Tabs -> Shown]
    /\ request \in [Tabs -> Requests \cup {NULL}]
    /\ cache \in [BioIds -> Signed \cup {NULL}]
    /\ tokens \in Seq(Humans)
    /\ expired \subseteq DOMAIN tokens
    /\ opens \in [Tabs -> Nat] /\ forms \in 0 .. MaxForms
    /\ faults \in 0 .. MaxFaults

OracleInit ==
    /\ oracle \in {"oracle-auth", "oracle-auth-test"}
    /\ cookie = NoSession
    /\ tab = [t \in Tabs |-> [at |-> "blank", id |-> NULL, opened |-> NULL,
                              state |-> 0]]
    /\ request = [t \in Tabs |-> NULL]
    /\ cache = [i \in BioIds |-> NULL]
    /\ tokens = <<>> /\ expired = {}
    /\ opens = [t \in Tabs |-> 0] /\ forms = 0 /\ faults = 0

-----------------------------------------------------------------------------
(***************************************************************************)
(* Requests and responses.                                                 *)
(***************************************************************************)
Get(path, id, session) ==
    [path |-> path, id |-> id, state |-> 0, token |-> 0, session |-> session]

\* A verified token is Humanode's and has not expired (verifyJWT).
Verifies(token) == token \in DOMAIN tokens /\ token \notin expired

\* The response sets the session s and redirects to path.
Redirect(t, s, path, id) ==
    /\ cookie' = s
    /\ request' = [request EXCEPT ![t] = Get(path, id, s)]
    /\ UNCHANGED tab

\* The response sets the session s and the tab shows a page.
Show(t, s, page, id) ==
    /\ cookie' = s
    /\ request' = [request EXCEPT ![t] = NULL]
    /\ tab' = [tab EXCEPT ![t].at = page, ![t].id = id]

Serving(t, path) == request[t] # NULL /\ request[t].path = path

\* A human opens the link for an id, in a tab that is not at another's sign-in.
OpenLink(t, i) ==
    /\ request[t] = NULL /\ tab[t].at \notin {"humanode"}
    /\ FoldFunction(+, 0, opens) < MaxOpens
    /\ opens' = [opens EXCEPT ![t] = @ + 1]
    /\ request' = [request EXCEPT ![t] = Get("mina", i, cookie)]
    /\ tab' = [tab EXCEPT ![t].opened = i]
    /\ UNCHANGED <<oracle, cookie, cache, tokens, expired, forms, faults>>

\* Mutant: returnTo is left in the session after the id was signed.
MutantMinaAuth(t) ==
    LET i == request[t].id
        s == request[t].session
    IN /\ oracle = "oracle-auth" /\ Serving(t, "mina")
       /\ IF s.user = 0
          THEN /\ Show(t, [s EXCEPT !.returnTo = i], "mina", i)
               /\ UNCHANGED cache
          ELSE IF Verifies(s.user)
          THEN /\ cache' = [cache EXCEPT ![i] =
                      [payload |-> i, bioAuthId |-> tokens[s.user]]]
               /\ Show(t, s, "signed", i)
          ELSE /\ Redirect(t, [s EXCEPT !.user = 0], "login", NULL)
               /\ UNCHANGED cache
       /\ UNCHANGED <<oracle, tokens, expired, opens, forms, faults>>

\* mina.auth.$id: an authenticated human has the id signed; else it is stashed
\* to return to.  (The token of an authenticated session is verified, and if
\* it has expired the id is not stashed.)
MinaAuth(t) ==
    LET i == request[t].id
        s == request[t].session
    IN /\ oracle = "oracle-auth" /\ Serving(t, "mina")
       /\ IF s.user = 0
          THEN /\ Show(t, [s EXCEPT !.returnTo = i], "mina", i)
               /\ UNCHANGED cache
          ELSE IF Verifies(s.user)
          THEN /\ cache' = [cache EXCEPT ![i] =
                      [payload |-> i, bioAuthId |-> tokens[s.user]]]
               /\ Show(t, [s EXCEPT !.returnTo = NULL], "signed", i)
          ELSE /\ Redirect(t, [s EXCEPT !.user = 0], "login", NULL)
               /\ UNCHANGED cache
       /\ UNCHANGED <<oracle, tokens, expired, opens, forms, faults>>

\* oracle-auth-test: the id is signed with an identifier it determines.
TestMinaAuth(t, human) ==
    LET i == request[t].id
    IN /\ oracle = "oracle-auth-test" /\ Serving(t, "mina")
       /\ cache' = [cache EXCEPT ![i] = [payload |-> i, bioAuthId |-> human]]
       /\ Show(t, cookie, "signed", i)
       /\ UNCHANGED <<oracle, tokens, expired, opens, forms, faults>>

\* FormBioAuth posts to auth.humanode.
SubmitForm(t) ==
    /\ request[t] = NULL
    /\ tab[t].at \in {"mina", "login"}
    /\ forms < MaxForms
    /\ request' = [request EXCEPT ![t] = Get("humanode", NULL, cookie)]
    /\ UNCHANGED <<oracle, cookie, tab, cache, tokens, expired, opens, forms,
                   faults>>

\* A session that is authenticated already gets its user as the response; else
\* the browser is sent to Humanode, with a new state.
AuthHumanode(t) ==
    LET s == request[t].session
    IN /\ Serving(t, "humanode")
       /\ IF s.user # 0
          THEN Show(t, s, "user", NULL) /\ UNCHANGED forms
          ELSE /\ forms < MaxForms
               /\ forms' = forms + 1
               /\ cookie' = [s EXCEPT !.state = forms']
               /\ request' = [request EXCEPT ![t] = NULL]
               /\ tab' = [tab EXCEPT ![t].at = "humanode", ![t].state = forms']
       /\ UNCHANGED <<oracle, cache, tokens, expired, opens, faults>>

\* External: the human authenticates at Humanode, which redirects to callback.
Authenticate(t, human) ==
    /\ request[t] = NULL /\ tab[t].at = "humanode"
    /\ tokens' = Append(tokens, human)
    /\ request' = [request EXCEPT ![t] =
          [path |-> "callback", id |-> NULL, state |-> tab[t].state,
           token |-> Len(tokens'), session |-> cookie]]
    /\ UNCHANGED <<oracle, cookie, tab, cache, expired, opens, forms, faults>>

\* The human cancels: callback forwards the error to login.
Cancel(t) ==
    /\ request[t] = NULL /\ tab[t].at = "humanode"
    /\ request' = [request EXCEPT ![t] = Get("login", NULL, cookie)]
    /\ UNCHANGED <<oracle, cookie, tab, cache, tokens, expired, opens, forms,
                   faults>>

\* Where a successful authentication leads: the id stashed, or the dashboard.
GoOn(t, s, c) ==
    IF c.returnTo # NULL THEN Redirect(t, s, "mina", c.returnTo)
                         ELSE Redirect(t, s, "dashboard", NULL)

\* A session that has a user goes on with it; the state must be the session's,
\* and the token must verify.
Callback(t, verified) ==
    LET r == request[t]
        s == r.session
    IN /\ Serving(t, "callback")
       /\ verified \/ faults < MaxFaults
       /\ IF s.user # 0
          THEN GoOn(t, s, s) /\ UNCHANGED faults
          ELSE IF s.state # r.state
          THEN Redirect(t, s, "login", NULL) /\ UNCHANGED faults
          ELSE IF verified /\ Verifies(r.token)
          THEN GoOn(t, [s EXCEPT !.user = r.token], s) /\ UNCHANGED faults
          ELSE /\ Redirect(t, s, "login", NULL)
               /\ faults' = IF verified THEN faults ELSE faults + 1
       /\ UNCHANGED <<oracle, cache, tokens, expired, opens, forms>>

\* The login page commits the session, to clear its error.
Login(t) ==
    /\ Serving(t, "login")
    /\ Show(t, request[t].session, "login", NULL)
    /\ UNCHANGED <<oracle, cache, tokens, expired, opens, forms, faults>>

Dashboard(t) ==
    LET s == request[t].session
    IN /\ Serving(t, "dashboard")
       /\ IF s.user # 0 /\ Verifies(s.user)
          THEN /\ request' = [request EXCEPT ![t] = NULL]
               /\ tab' = [tab EXCEPT ![t].at = "dashboard", ![t].id = NULL]
               /\ UNCHANGED cookie
          ELSE Redirect(t, [s EXCEPT !.user = 0], "login", NULL)
       /\ UNCHANGED <<oracle, cache, tokens, expired, opens, forms, faults>>

\* The session is destroyed.  What the tab was opened for is done with.
FollowLogout(t) ==
    /\ request[t] = NULL
    /\ tab[t].at \in {"signed", "dashboard"} /\ oracle = "oracle-auth"
    /\ request' = [request EXCEPT ![t] = Get("logout", NULL, cookie)]
    /\ tab' = [tab EXCEPT ![t].opened = NULL]
    /\ UNCHANGED <<oracle, cookie, cache, tokens, expired, opens, forms, faults>>

Logout(t) ==
    /\ Serving(t, "logout")
    /\ Redirect(t, NoSession, "login", NULL)
    /\ UNCHANGED <<oracle, cache, tokens, expired, opens, forms, faults>>

-----------------------------------------------------------------------------
(***************************************************************************)
(* Faults.                                                                 *)
(***************************************************************************)
Fault == faults < MaxFaults /\ faults' = faults + 1

TokenExpires(token) ==
    /\ Fault
    /\ token \notin expired
    /\ expired' = expired \cup {token}
    /\ UNCHANGED <<oracle, cookie, tab, request, cache, tokens, opens, forms>>

\* The cache's time to live runs out.  (AUTH_BIOAUTH_TTL; if it is not set,
\* Number(undefined) is NaN, the ?? does not apply, and no entry expires.)
CacheExpires(i) ==
    /\ Fault
    /\ oracle = "oracle-auth"
    /\ cache[i] # NULL
    /\ cache' = [cache EXCEPT ![i] = NULL]
    /\ UNCHANGED <<oracle, cookie, tab, request, tokens, expired, opens, forms>>

\* The server restarts: what it cached is lost, the cookies are not.
Restart ==
    /\ Fault
    /\ cache' = [i \in BioIds |-> NULL]
    /\ UNCHANGED <<oracle, cookie, tab, request, tokens, expired, opens, forms>>

Serve(t) ==
    \/ MinaAuth(t)
    \/ \E h \in Humans : TestMinaAuth(t, h)
    \/ AuthHumanode(t)
    \/ \E verified \in BOOLEAN : Callback(t, verified)
    \/ Login(t)
    \/ Dashboard(t)
    \/ Logout(t)

Browse(t) ==
    \/ \E i \in BioIds : OpenLink(t, i)
    \/ SubmitForm(t)
    \/ \E h \in Humans : Authenticate(t, h)
    \/ Cancel(t)
    \/ FollowLogout(t)

OracleStep ==
    \/ \E t \in Tabs : Serve(t) \/ Browse(t)
    \/ \E token \in DOMAIN tokens : TokenExpires(token)
    \/ \E i \in BioIds : CacheExpires(i)
    \/ Restart

=============================================================================
