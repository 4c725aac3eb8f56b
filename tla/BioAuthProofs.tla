---------------------------- MODULE BioAuthProofs ----------------------------
(***************************************************************************)
(* Theorems about bioauthorizations, for any ids, humans and tabs, any     *)
(* number of links, sign-ins, polls and clicks, and any faults.            *)
(*                                                                         *)
(* What the oracle signs for an id is its own.  While the page needs to    *)
(* poll, a run of the poll has the counter of now, or one failed; the end  *)
(* of that run changes the counter, and so starts the next.  With one tab  *)
(* the cookie a request carries is the browser's, and the id stashed in it *)
(* is the one whose link was opened, at each point of the way to Humanode  *)
(* and back where it is still needed.                                      *)
(***************************************************************************)
EXTENDS BioAuth, SequenceLemmas

-----------------------------------------------------------------------------
(***************************************************************************)
(* The inductive invariants.                                               *)
(***************************************************************************)

\* What is cached for an id was signed for it, with a human's identifier.
CacheSigned ==
    \A i \in BioIds : cache[i] # NULL => /\ cache[i].payload = i
                                         /\ cache[i].bioAuthId \in Humans

\* While the page has a link and no message, a run of the poll has the counter
\* of now: the next counter it sets is another one, so that the effect is run.
CounterPolled ==
    NeedsPoll(bioAuthState) =>
        \/ \E n \in DOMAIN polls : polls[n].counter = bioAuthState.counter
        \/ lost > 0

\* Only an id's route is asked to sign.
MinaAsked == \A t \in Tabs : Serving(t, "mina") => request[t].id # NULL

\* A tab in which no link was opened shows nothing and asks for nothing; if
\* there is no other the browser has no session.
BlankTabs ==
    /\ \A t \in Tabs : opens[t] = 0 => /\ request[t] = NULL
                                       /\ tab[t].at = "blank"
                                       /\ tab[t].opened = NULL
    /\ (\A t \in Tabs : opens[t] = 0) => cookie = NoSession

\* The test's server keeps no session and has no other page.
TestHasNoSession ==
    oracle = "oracle-auth-test" =>
        /\ cookie = NoSession
        /\ \A t \in Tabs : /\ tab[t].at \in {"blank", "signed"}
                           /\ request[t] # NULL => request[t].path = "mina"

AtSignIn(t) ==
    IF request[t] = NULL THEN tab[t].at \in {"mina", "login", "humanode"}
                         ELSE request[t].path \in {"humanode", "callback", "login"}

AtDashboard(t) ==
    IF request[t] = NULL THEN tab[t].at = "dashboard"
                         ELSE request[t].path = "dashboard"

\* The way of the one tab t: the session of its request is the browser's; the
\* id that is asked for, stashed and shown is the one that was opened.
TabInv(t) ==
    /\ request[t] # NULL => request[t].session = cookie
    /\ cookie.user # 0 => cookie.user \in DOMAIN tokens
    /\ Serving(t, "mina") =>
          /\ request[t].id = tab[t].opened
          /\ cookie.user # 0 => cookie.returnTo \in {NULL, tab[t].opened}
    /\ ~Serving(t, "mina") =>
          /\ Serving(t, "logout") \/ cookie.returnTo \in {NULL, tab[t].opened}
          /\ cookie.user # 0 => cookie.returnTo = NULL
    /\ Serving(t, "logout") => tab[t].opened = NULL
    /\ request[t] = NULL /\ tab[t].at \in {"signed", "dashboard"} =>
          cookie.returnTo = NULL
    /\ request[t] = NULL /\ tab[t].at = "signed" /\ tab[t].opened # NULL =>
          tab[t].id = tab[t].opened
    /\ request[t] = NULL /\ tab[t].at = "humanode" =>
          cookie.user = 0 /\ cookie.state = tab[t].state
    /\ Serving(t, "callback") /\ cookie.user = 0 =>
          request[t].state = cookie.state
    /\ tab[t].opened # NULL /\ expired = {} =>
          /\ ~AtDashboard(t)
          /\ AtSignIn(t) => cookie.user = 0 /\ cookie.returnTo = tab[t].opened

OneTab == \A t \in Tabs : OnlyTab(t) => TabInv(t)

BioAuthInv ==
    /\ TypeOK
    /\ CacheSigned
    /\ MinaAsked
    /\ BlankTabs
    /\ TestHasNoSession
    /\ OneTab
    /\ CounterPolled

-----------------------------------------------------------------------------
(***************************************************************************)
(* Requests and responses.                                                 *)
(***************************************************************************)

\* Bounds, and what null is not.
LEMMA BoundFacts ==
    MaxOpens \in Nat /\ MaxForms \in Nat /\ MaxFaults \in Nat
  BY OracleAssumption

LEMMA NullFacts ==
    NULL \notin BioIds /\ NULL \notin Humans /\ NULL \notin Requests
  BY OracleAssumption, RequestAssumption

\* The parts of the type invariant a response may change.
WebTypes ==
    /\ cookie \in Sessions
    /\ tab \in [Tabs -> Shown]
    /\ request \in [Tabs -> Requests \cup {NULL}]

\* The request a browser sends.
LEMMA GetFacts ==
    ASSUME NEW path \in Paths, NEW id \in BioIds \cup {NULL}, NEW s \in Sessions
    PROVE  /\ Get(path, id, s) \in Requests /\ Get(path, id, s) # NULL
           /\ Get(path, id, s).path = path /\ Get(path, id, s).id = id
           /\ Get(path, id, s).session = s
<1>1. 0 \in 0 .. MaxForms /\ 0 \in Nat
  BY BoundFacts
<1>2. Get(path, id, s) \in Requests
  BY <1>1 DEF Get, Requests
<1> QED  BY <1>2, NullFacts DEF Get

\* A request under way and what it carries.
LEMMA ServedFacts ==
    ASSUME OracleTypeOK, NEW t \in Tabs, request[t] # NULL
    PROVE  /\ request[t] \in Requests
           /\ request[t].id \in BioIds \cup {NULL}
           /\ request[t].session \in Sessions
           /\ request[t].path \in Paths
           /\ request[t].token \in Nat /\ request[t].state \in 0 .. MaxForms
<1>1. request[t] \in Requests
  BY DEF OracleTypeOK
<1> QED  BY <1>1 DEF Requests

\* What a redirect does.
LEMMA RedirectFacts ==
    ASSUME OracleTypeOK, NEW t \in Tabs, NEW s \in Sessions,
           NEW path \in Paths, NEW id \in BioIds \cup {NULL},
           Redirect(t, s, path, id)
    PROVE  /\ WebTypes'
           /\ cookie' = s /\ tab' = tab
           /\ request'[t] # NULL
           /\ request'[t].path = path /\ request'[t].id = id
           /\ request'[t].session = s
           /\ \A u \in Tabs \ {t} : request'[u] = request[u]
<1>1. /\ Get(path, id, s) \in Requests /\ Get(path, id, s) # NULL
      /\ Get(path, id, s).path = path /\ Get(path, id, s).id = id
      /\ Get(path, id, s).session = s
  BY GetFacts
<1>2. /\ request' = [request EXCEPT ![t] = Get(path, id, s)]
      /\ cookie' = s /\ tab' = tab
  BY DEF Redirect
<1>3. tab \in [Tabs -> Shown] /\ request \in [Tabs -> Requests \cup {NULL}]
  BY DEF OracleTypeOK
<1> QED  BY <1>1, <1>2, <1>3 DEF WebTypes

\* What a response with a page does.
LEMMA ShowFacts ==
    ASSUME OracleTypeOK, NEW t \in Tabs, NEW s \in Sessions,
           NEW page \in Pages, NEW id \in BioIds \cup {NULL},
           Show(t, s, page, id)
    PROVE  /\ WebTypes'
           /\ cookie' = s
           /\ request'[t] = NULL
           /\ \A u \in Tabs \ {t} : request'[u] = request[u] /\ tab'[u] = tab[u]
           /\ tab'[t].at = page /\ tab'[t].id = id
           /\ tab'[t].opened = tab[t].opened
           /\ tab'[t].state = tab[t].state
<1>1. /\ request' = [request EXCEPT ![t] = NULL]
      /\ cookie' = s /\ tab' = [tab EXCEPT ![t].at = page, ![t].id = id]
  BY DEF Show
<1>2. tab \in [Tabs -> Shown] /\ request \in [Tabs -> Requests \cup {NULL}]
  BY DEF OracleTypeOK
<1>3. [tab[t] EXCEPT !.at = page, !.id = id] \in Shown
  BY <1>2 DEF Shown
<1>4. tab'[t] = [tab[t] EXCEPT !.at = page, !.id = id]
  BY <1>1, <1>2
<1>5. tab' = [tab EXCEPT ![t] = [tab[t] EXCEPT !.at = page, !.id = id]]
  BY <1>1
<1>6. tab' \in [Tabs -> Shown]
  BY <1>2, <1>3, <1>5
<1> QED  BY <1>1, <1>2, <1>4, <1>5, <1>6 DEF WebTypes, Shown

\* A response that resets part of a session.
LEMMA SessionFacts ==
    ASSUME NEW s \in Sessions
    PROVE  /\ \A i \in BioIds \cup {NULL} :
                 /\ [s EXCEPT !.returnTo = i] \in Sessions
                 /\ [s EXCEPT !.returnTo = i].returnTo = i
                 /\ [s EXCEPT !.returnTo = i].user = s.user
                 /\ [s EXCEPT !.returnTo = i].state = s.state
           /\ \A n \in Nat :
                 /\ [s EXCEPT !.user = n] \in Sessions
                 /\ [s EXCEPT !.user = n].user = n
                 /\ [s EXCEPT !.user = n].returnTo = s.returnTo
                 /\ [s EXCEPT !.user = n].state = s.state
           /\ \A n \in 0 .. MaxForms :
                 /\ [s EXCEPT !.state = n] \in Sessions
                 /\ [s EXCEPT !.state = n].state = n
                 /\ [s EXCEPT !.state = n].returnTo = s.returnTo
                 /\ [s EXCEPT !.state = n].user = s.user
           /\ s.returnTo \in BioIds \cup {NULL} /\ s.user \in Nat
           /\ s.state \in 0 .. MaxForms
           /\ NoSession \in Sessions
           /\ NoSession.returnTo = NULL /\ NoSession.user = 0
<1>1. 0 \in 0 .. MaxForms /\ 0 \in Nat
  BY BoundFacts
<1> QED  BY <1>1 DEF Sessions, NoSession

\* What the oracle signs.
LEMMA SignedFacts ==
    ASSUME NEW i \in BioIds, NEW h \in Humans
    PROVE  /\ [payload |-> i, bioAuthId |-> h] \in Signed
           /\ [payload |-> i, bioAuthId |-> h].payload = i
           /\ [payload |-> i, bioAuthId |-> h].bioAuthId = h
  BY DEF Signed

\* mina.auth.$id of the oracle, by where it leads.
LEMMA MinaAuthLeads ==
    ASSUME OracleTypeOK, NEW t \in Tabs, MinaAuth(t), request[t].id # NULL
    PROVE  LET i == request[t].id
               s == request[t].session
           IN \/ /\ s.user = 0
                 /\ Show(t, [s EXCEPT !.returnTo = i], "mina", i)
                 /\ UNCHANGED cache
              \/ /\ s.user # 0
                 /\ Show(t, [s EXCEPT !.returnTo = NULL], "signed", i)
                 /\ tokens[s.user] \in Humans
                 /\ cache' = [cache EXCEPT ![i] =
                       [payload |-> i, bioAuthId |-> tokens[s.user]]]
              \/ /\ s.user # 0
                 /\ expired # {} \/ s.user \notin DOMAIN tokens
                 /\ Redirect(t, [s EXCEPT !.user = 0], "login", NULL)
                 /\ UNCHANGED cache
  BY DEF MinaAuth, Verifies, OracleTypeOK

\* The other variables of the type invariant.
RestTypes ==
    /\ oracle \in {"oracle-auth", "oracle-auth-test"}
    /\ cache \in [BioIds -> Signed \cup {NULL}]
    /\ tokens \in Seq(Humans)
    /\ expired \subseteq DOMAIN tokens
    /\ opens \in [Tabs -> Nat] /\ forms \in 0 .. MaxForms
    /\ faults \in 0 .. MaxFaults

\* Most steps leave all of them but one.
LEMMA TypesSplit == OracleTypeOK <=> WebTypes /\ RestTypes
  BY DEF OracleTypeOK, WebTypes, RestTypes

LEMMA ServeTypes ==
    ASSUME OracleTypeOK, NEW t \in Tabs, Serve(t),
           Serving(t, "mina") => request[t].id # NULL
    PROVE  WebTypes' /\ RestTypes'
<1> USE BoundFacts
<1>0. RestTypes /\ WebTypes
  BY TypesSplit
<1>1. CASE MinaAuth(t)
  <2> DEFINE i == request[t].id
             s == request[t].session
  <2>1. request[t] # NULL /\ i \in BioIds /\ s \in Sessions /\ NULL \in BioIds \cup {NULL}
    BY <1>1, ServedFacts DEF MinaAuth, Serving
  <2>2. UNCHANGED <<oracle, tokens, expired, opens, forms, faults>>
    BY <1>1 DEF MinaAuth
  <2>3. CASE /\ Show(t, [s EXCEPT !.returnTo = i], "mina", i)
             /\ UNCHANGED cache
    BY <1>0, <2>1, <2>2, <2>3, SessionFacts, ShowFacts DEF RestTypes, Pages
  <2>4. CASE /\ Show(t, [s EXCEPT !.returnTo = NULL], "signed", i)
             /\ tokens[s.user] \in Humans
             /\ cache' = [cache EXCEPT ![i] =
                       [payload |-> i, bioAuthId |-> tokens[s.user]]]
    <3>1. WebTypes'
      BY <2>1, <2>4, SessionFacts, ShowFacts DEF Pages
    <3>2. [payload |-> i, bioAuthId |-> tokens[s.user]] \in Signed
      BY <2>1, <2>4, SignedFacts
    <3>3. cache' \in [BioIds -> Signed \cup {NULL}]
      BY <1>0, <2>4, <3>2 DEF RestTypes
    <3> QED  BY <1>0, <2>2, <3>1, <3>3 DEF RestTypes
  <2>5. CASE /\ Redirect(t, [s EXCEPT !.user = 0], "login", NULL)
             /\ UNCHANGED cache
    <3>1. 0 \in Nat /\ "login" \in Paths
      BY DEF Paths
    <3>2. WebTypes'
      BY <2>1, <2>5, <3>1, SessionFacts, RedirectFacts
    <3> QED  BY <1>0, <2>2, <2>5, <3>2 DEF RestTypes
  <2>6. i # NULL
    BY <1>1 DEF MinaAuth
  <2> HIDE DEF i, s
  <2> QED  BY <1>1, <2>3, <2>4, <2>5, <2>6, MinaAuthLeads DEF i, s
<1>2. ASSUME NEW h \in Humans, TestMinaAuth(t, h)
      PROVE  WebTypes' /\ RestTypes'
  <2> DEFINE i == request[t].id
  <2>1. i \in BioIds /\ cookie \in Sessions
    BY <1>0, <1>2, ServedFacts DEF TestMinaAuth, Serving, WebTypes
  <2>2. WebTypes'
    BY <1>2, <2>1, ShowFacts DEF TestMinaAuth, Pages
  <2>3. cache' \in [BioIds -> Signed \cup {NULL}]
    BY <1>0, <1>2, <2>1, SignedFacts DEF TestMinaAuth, RestTypes
  <2> QED  BY <1>0, <1>2, <2>2, <2>3 DEF TestMinaAuth, RestTypes
<1>3. CASE AuthHumanode(t)
  <2> DEFINE s == request[t].session
  <2>1. s \in Sessions
    BY <1>3, ServedFacts DEF AuthHumanode, Serving
  <2>2. UNCHANGED <<oracle, cache, tokens, expired, opens, faults>>
    BY <1>3 DEF AuthHumanode
  <2>3. CASE s.user # 0
    <3>1. Show(t, s, "user", NULL) /\ UNCHANGED forms
      BY <1>3, <2>3 DEF AuthHumanode
    <3>2. WebTypes'
      BY <2>1, <3>1, ShowFacts DEF Pages
    <3> QED  BY <1>0, <2>2, <3>1, <3>2 DEF RestTypes
  <2>4. CASE s.user = 0
    <3>1. /\ forms < MaxForms /\ forms' = forms + 1
          /\ cookie' = [s EXCEPT !.state = forms']
          /\ request' = [request EXCEPT ![t] = NULL]
          /\ tab' = [tab EXCEPT ![t].at = "humanode", ![t].state = forms']
      BY <1>3, <2>4 DEF AuthHumanode
    <3>2. forms' \in 0 .. MaxForms
      BY <1>0, <3>1 DEF RestTypes
    <3>3. cookie' \in Sessions
      BY <2>1, <3>1, <3>2, SessionFacts
    <3>4. tab' \in [Tabs -> Shown]
      BY <1>0, <3>1, <3>2 DEF WebTypes, Shown, Pages
    <3>5. WebTypes'
      BY <1>0, <3>1, <3>3, <3>4 DEF WebTypes
    <3> QED  BY <1>0, <2>2, <3>2, <3>5 DEF RestTypes
  <2> QED  BY <2>3, <2>4
<1>4. ASSUME NEW verified \in BOOLEAN, Callback(t, verified)
      PROVE  WebTypes' /\ RestTypes'
  <2> DEFINE r == request[t]
             s == r.session
  <2>1. s \in Sessions /\ r.token \in Nat
    BY <1>4, ServedFacts DEF Callback, Serving
  <2>2. /\ UNCHANGED <<oracle, cache, tokens, expired, opens, forms>>
        /\ faults' \in 0 .. MaxFaults
    BY <1>0, <1>4 DEF Callback, RestTypes
  <2>3. /\ [s EXCEPT !.user = r.token] \in Sessions
        /\ s.returnTo \in BioIds \cup {NULL}
    BY <2>1, SessionFacts
  <2>4. "mina" \in Paths /\ "login" \in Paths /\ "dashboard" \in Paths
    BY DEF Paths
  <2>5. WebTypes'
    <3>1. ASSUME NEW c \in Sessions, GoOn(t, c, s)
          PROVE  WebTypes'
      BY <2>3, <2>4, <3>1, RedirectFacts DEF GoOn
    <3>2. ASSUME Redirect(t, s, "login", NULL)
          PROVE  WebTypes'
      BY <2>1, <2>4, <3>2, RedirectFacts
    <3> QED  BY <1>4, <2>1, <2>3, <3>1, <3>2 DEF Callback
  <2> QED  BY <1>0, <2>2, <2>5 DEF RestTypes
<1>5. CASE Login(t)
  <2>1. WebTypes'
    BY <1>5, ServedFacts, ShowFacts DEF Login, Serving, Pages
  <2> QED  BY <1>0, <1>5, <2>1 DEF Login, RestTypes
<1>6. CASE Dashboard(t)
  <2> DEFINE s == request[t].session
  <2>1. s \in Sessions /\ [s EXCEPT !.user = 0] \in Sessions /\ "login" \in Paths
    BY <1>6, ServedFacts, SessionFacts DEF Dashboard, Serving, Paths
  <2>2. CASE Redirect(t, [s EXCEPT !.user = 0], "login", NULL)
    <3>1. WebTypes'
      BY <2>1, <2>2, RedirectFacts
    <3> QED  BY <1>0, <1>6, <3>1 DEF Dashboard, RestTypes
  <2>3. CASE /\ request' = [request EXCEPT ![t] = NULL]
             /\ tab' = [tab EXCEPT ![t].at = "dashboard", ![t].id = NULL]
             /\ UNCHANGED cookie
    <3>1. WebTypes'
      BY <1>0, <2>3 DEF WebTypes, Shown, Pages
    <3> QED  BY <1>0, <1>6, <3>1 DEF Dashboard, RestTypes
  <2> QED  BY <1>6, <2>2, <2>3 DEF Dashboard
<1>7. CASE Logout(t)
  <2>1. WebTypes'
    <3>1. "login" \in Paths /\ NULL \in BioIds \cup {NULL}
      BY DEF Paths
    <3>2. NoSession \in Sessions
      BY DEF NoSession, Sessions
    <3>3. Redirect(t, NoSession, "login", NULL)
      BY <1>7 DEF Logout
    <3> QED  BY <3>1, <3>2, <3>3, RedirectFacts, Zenon
  <2> QED  BY <1>0, <1>7, <2>1 DEF Logout, RestTypes
<1> QED  BY <1>1, <1>2, <1>3, <1>4, <1>5, <1>6, <1>7 DEF Serve

\* A request of the browser's, with nothing else of the web changed but what
\* the tab was opened for.
LEMMA BrowseFacts ==
    ASSUME OracleTypeOK, NEW t \in Tabs, Browse(t)
    PROVE  /\ WebTypes' /\ RestTypes'
           /\ request[t] = NULL /\ request'[t] # NULL
           /\ request'[t].session = cookie /\ cookie' = cookie
           /\ \A u \in Tabs \ {t} : /\ request'[u] = request[u]
                                    /\ tab'[u] = tab[u]
                                    /\ opens'[u] = opens[u]
           /\ UNCHANGED <<oracle, cache, expired, forms, faults>>
           /\ DOMAIN tokens \subseteq DOMAIN tokens'
           /\ tab'[t].at = tab[t].at /\ tab'[t].id = tab[t].id
           /\ tab'[t].state = tab[t].state
           /\ \/ /\ tab[t].at # "humanode" /\ request'[t].path = "mina"
                 /\ request'[t].id # NULL /\ request'[t].id = tab'[t].opened
                 /\ opens'[t] = opens[t] + 1
              \/ /\ tab[t].at \in {"mina", "login"} /\ request'[t].path = "humanode"
                 /\ tab' = tab /\ opens' = opens
              \/ /\ tab[t].at = "humanode" /\ request'[t].path = "callback"
                 /\ request'[t].state = tab[t].state
                 /\ tab' = tab /\ opens' = opens
              \/ /\ tab[t].at = "humanode" /\ request'[t].path = "login"
                 /\ tab' = tab /\ opens' = opens
              \/ /\ tab[t].at \in {"signed", "dashboard"} /\ oracle = "oracle-auth"
                 /\ request'[t].path = "logout" /\ tab'[t].opened = NULL
                 /\ opens' = opens
<1> USE BoundFacts
<1>0. /\ cookie \in Sessions /\ tab \in [Tabs -> Shown] /\ tokens \in Seq(Humans)
      /\ request \in [Tabs -> Requests \cup {NULL}] /\ opens \in [Tabs -> Nat]
      /\ tab[t] \in Shown
  BY DEF OracleTypeOK
<1>p. {"mina", "humanode", "callback", "login", "logout"} \subseteq Paths
  BY DEF Paths
<1>1. ASSUME NEW i \in BioIds, OpenLink(t, i)
      PROVE  /\ WebTypes' /\ RestTypes'
             /\ request[t] = NULL /\ request'[t] # NULL
             /\ request'[t].session = cookie /\ cookie' = cookie
             /\ \A u \in Tabs \ {t} : /\ request'[u] = request[u]
                                      /\ tab'[u] = tab[u]
                                      /\ opens'[u] = opens[u]
             /\ UNCHANGED <<oracle, cache, tokens, expired, forms, faults>>
             /\ tab'[t].at = tab[t].at /\ tab'[t].id = tab[t].id
             /\ tab'[t].state = tab[t].state
             /\ tab[t].at # "humanode" /\ request'[t].path = "mina"
             /\ request'[t].id # NULL /\ request'[t].id = tab'[t].opened
             /\ opens'[t] = opens[t] + 1
  <2> DEFINE get == Get("mina", i, cookie)
  <2>1. get \in Requests /\ get # NULL /\ get.path = "mina" /\ get.id = i
        /\ get.session = cookie
    BY <1>0, <1>p, GetFacts
  <2> HIDE DEF get
  <2>2. /\ request[t] = NULL /\ tab[t].at # "humanode"
        /\ opens' = [opens EXCEPT ![t] = opens[t] + 1]
        /\ request' = [request EXCEPT ![t] = get]
        /\ tab' = [tab EXCEPT ![t].opened = i]
        /\ UNCHANGED <<oracle, cookie, cache, tokens, expired, forms, faults>>
    BY <1>1 DEF OpenLink, get
  <2>3. [tab[t] EXCEPT !.opened = i] \in Shown
    BY <1>0 DEF Shown
  <2>4. tab' \in [Tabs -> Shown] /\ opens' \in [Tabs -> Nat]
        /\ request' \in [Tabs -> Requests \cup {NULL}]
    BY <1>0, <2>1, <2>2, <2>3
  <2>5. WebTypes' /\ RestTypes'
    BY <1>0, <2>2, <2>4 DEF WebTypes, RestTypes, OracleTypeOK
  <2>6. /\ request'[t] = get /\ opens'[t] = opens[t] + 1
        /\ tab'[t] = [tab[t] EXCEPT !.opened = i]
        /\ \A u \in Tabs \ {t} : /\ request'[u] = request[u]
                                 /\ tab'[u] = tab[u]
                                 /\ opens'[u] = opens[u]
    BY <1>0, <2>2
  <2>7. tab'[t].at = tab[t].at /\ tab'[t].id = tab[t].id
        /\ tab'[t].state = tab[t].state /\ tab'[t].opened = i
    BY <1>0, <2>6 DEF Shown
  <2> QED  BY <2>1, <2>2, <2>5, <2>6, <2>7, NullFacts
<1>2. ASSUME NEW path \in Paths, request[t] = NULL,
             request' = [request EXCEPT ![t] = Get(path, NULL, cookie)],
             UNCHANGED <<oracle, cookie, cache, tokens, expired, opens, forms,
                         faults>>,
             \/ tab' = tab
             \/ tab' = [tab EXCEPT ![t].opened = NULL]
      PROVE  /\ WebTypes' /\ RestTypes'
             /\ request[t] = NULL /\ request'[t] # NULL
             /\ request'[t].session = cookie /\ cookie' = cookie
             /\ \A u \in Tabs \ {t} : /\ request'[u] = request[u]
                                      /\ tab'[u] = tab[u]
                                      /\ opens'[u] = opens[u]
             /\ tab'[t].at = tab[t].at /\ tab'[t].id = tab[t].id
             /\ tab'[t].state = tab[t].state
             /\ request'[t].path = path
             /\ tab' = tab \/ tab'[t].opened = NULL
  <2> DEFINE get == Get(path, NULL, cookie)
  <2>0. NULL \in BioIds \cup {NULL}
    OBVIOUS
  <2>1. get \in Requests /\ get # NULL /\ get.path = path
        /\ get.session = cookie
    <3>1. cookie \in Sessions
      BY <1>0
    <3>2. path \in Paths
      BY <1>2
    <3> QED  BY <2>0, <3>1, <3>2, GetFacts
  <2> HIDE DEF get
  <2>2. request' = [request EXCEPT ![t] = get]
    BY <1>2 DEF get
  <2>3. [tab[t] EXCEPT !.opened = NULL] \in Shown
    BY <1>0 DEF Shown
  <2>4. tab' \in [Tabs -> Shown] /\ request' \in [Tabs -> Requests \cup {NULL}]
    BY <1>0, <1>2, <2>1, <2>2, <2>3
  <2>5. WebTypes' /\ RestTypes'
    BY <1>0, <1>2, <2>4 DEF WebTypes, RestTypes, OracleTypeOK
  <2>6. /\ request'[t] = get
        /\ \A u \in Tabs \ {t} : /\ request'[u] = request[u]
                                 /\ tab'[u] = tab[u]
                                 /\ opens'[u] = opens[u]
    BY <1>0, <1>2, <2>2
  <2>7. /\ tab'[t].at = tab[t].at /\ tab'[t].id = tab[t].id
        /\ tab'[t].state = tab[t].state
        /\ tab' = tab \/ tab'[t].opened = NULL
    <3>1. CASE tab' = tab
      BY <3>1
    <3>2. CASE tab' = [tab EXCEPT ![t].opened = NULL]
      <4>1. tab'[t] = [tab[t] EXCEPT !.opened = NULL]
        BY <1>0, <3>2
      <4> QED  BY <1>0, <4>1 DEF Shown
    <3> QED  BY <1>2, <3>1, <3>2
  <2> QED  BY <1>2, <2>1, <2>5, <2>6, <2>7
<1>3. CASE \E i \in BioIds : OpenLink(t, i)
  <2>1. UNCHANGED tokens
    BY <1>3 DEF OpenLink
  <2> QED  BY <1>1, <1>3, <2>1
<1>4. CASE SubmitForm(t)
  <2>1. /\ request[t] = NULL /\ tab[t].at \in {"mina", "login"}
        /\ request' = [request EXCEPT ![t] = Get("humanode", NULL, cookie)]
        /\ tab' = tab
        /\ UNCHANGED <<oracle, cookie, cache, tokens, expired, opens, forms,
                       faults>>
    BY <1>4 DEF SubmitForm
  <2> QED  BY <1>2, <1>p, <2>1
<1>5. CASE Cancel(t)
  <2>1. /\ request[t] = NULL /\ tab[t].at = "humanode"
        /\ request' = [request EXCEPT ![t] = Get("login", NULL, cookie)]
        /\ tab' = tab
        /\ UNCHANGED <<oracle, cookie, cache, tokens, expired, opens, forms,
                       faults>>
    BY <1>5 DEF Cancel
  <2> QED  BY <1>2, <1>p, <2>1
<1>6. CASE FollowLogout(t)
  <2>1. /\ request[t] = NULL /\ tab[t].at \in {"signed", "dashboard"}
        /\ request' = [request EXCEPT ![t] = Get("logout", NULL, cookie)]
        /\ tab' = [tab EXCEPT ![t].opened = NULL] /\ oracle = "oracle-auth"
        /\ UNCHANGED <<oracle, cookie, cache, tokens, expired, opens, forms,
                       faults>>
    BY <1>6 DEF FollowLogout
  <2>2. tab'[t].opened = NULL
    BY <1>0, <2>1 DEF Shown
  <2> QED  BY <1>2, <1>p, <2>1, <2>2
<1>7. ASSUME NEW h \in Humans, Authenticate(t, h)
      PROVE  /\ WebTypes' /\ RestTypes'
             /\ request[t] = NULL /\ request'[t] # NULL
             /\ request'[t].session = cookie /\ cookie' = cookie
             /\ \A u \in Tabs \ {t} : request'[u] = request[u]
             /\ UNCHANGED <<oracle, cache, expired, opens, forms, faults>>
             /\ DOMAIN tokens \subseteq DOMAIN tokens'
             /\ tab[t].at = "humanode" /\ request'[t].path = "callback"
             /\ request'[t].state = tab[t].state /\ tab' = tab
  <2> DEFINE get == [path |-> "callback", id |-> NULL, state |-> tab[t].state,
                     token |-> Len(tokens'), session |-> cookie]
  <2>1. /\ tokens' = Append(tokens, h) /\ request' = [request EXCEPT ![t] = get]
        /\ request[t] = NULL /\ tab[t].at = "humanode" /\ tab' = tab
        /\ UNCHANGED <<oracle, cookie, cache, expired, opens, forms, faults>>
    BY <1>7 DEF Authenticate
  <2>2. /\ tokens' \in Seq(Humans) /\ Len(tokens') \in Nat
        /\ DOMAIN tokens \subseteq DOMAIN tokens'
    <3>1. /\ tokens' \in Seq(Humans) /\ Len(tokens') = Len(tokens) + 1
      BY <1>0, <2>1, AppendProperties
    <3>2. DOMAIN tokens = 1 .. Len(tokens) /\ DOMAIN tokens' = 1 .. Len(tokens')
          /\ Len(tokens) \in Nat
      BY <1>0, <3>1
    <3> QED  BY <3>1, <3>2
  <2>3. get \in Requests
    BY <1>0, <1>p, <2>2 DEF Requests, Shown
  <2>4. get.path = "callback" /\ get.state = tab[t].state /\ get.session = cookie
        /\ get # NULL
    BY <2>3, NullFacts
  <2> HIDE DEF get
  <2>5. request' \in [Tabs -> Requests \cup {NULL}] /\ request'[t] = get
        /\ \A u \in Tabs \ {t} : request'[u] = request[u]
    BY <1>0, <2>1, <2>3
  <2>6. WebTypes' /\ RestTypes'
    BY <1>0, <2>1, <2>2, <2>5 DEF WebTypes, RestTypes, OracleTypeOK
  <2> QED  BY <2>1, <2>2, <2>4, <2>5, <2>6
<1>8. CASE \E h \in Humans : Authenticate(t, h)
  BY <1>7, <1>8
<1> QED  BY <1>3, <1>4, <1>5, <1>6, <1>8 DEF Browse

-----------------------------------------------------------------------------
(***************************************************************************)
(* The way of the one tab.                                                 *)
(***************************************************************************)

\* A request that is answered is one of the one path.
LEMMA OnePath ==
    ASSUME NEW t \in Tabs, NEW path, Serving(t, path)
    PROVE  /\ request[t] # NULL /\ request[t].path = path
           /\ \A p : p # path => ~Serving(t, p)
  BY DEF Serving

\* The answers of the server keep the tab on its way.
LEMMA MinaKeepsWay ==
    ASSUME OracleTypeOK, MinaAsked, NEW t \in Tabs, TabInv(t), MinaAuth(t)
    PROVE  TabInv(t)'
<1> DEFINE i == request[t].id
           s == cookie
<1>1. /\ Serving(t, "mina") /\ request[t] # NULL /\ request[t].session = cookie
      /\ i = tab[t].opened /\ i # NULL /\ i \in BioIds
      /\ cookie.user # 0 => /\ cookie.returnTo \in {NULL, tab[t].opened}
                            /\ cookie.user \in DOMAIN tokens
  BY ServedFacts DEF MinaAuth, Serving, TabInv, MinaAsked
<1>2. s \in Sessions
  BY DEF OracleTypeOK
<1>3. UNCHANGED <<tokens, expired>>
  BY DEF MinaAuth
<1>p. "login" \in Paths /\ "mina" \in Pages /\ "signed" \in Pages
      /\ NULL \in BioIds \cup {NULL} /\ 0 \in Nat
  BY DEF Paths, Pages
<1>4. CASE s.user = 0 /\ Show(t, [s EXCEPT !.returnTo = i], "mina", i)
  <2> DEFINE c == [s EXCEPT !.returnTo = i]
  <2>1. c \in Sessions /\ c.returnTo = i /\ c.user = 0
    BY <1>1, <1>2, <1>4, SessionFacts
  <2> HIDE DEF c
  <2>2. Show(t, c, "mina", i)
    BY <1>4 DEF c
  <2>3. /\ cookie' = c /\ request'[t] = NULL /\ tab'[t].at = "mina"
        /\ tab'[t].opened = tab[t].opened
    BY <1>1, <1>p, <2>1, <2>2, ShowFacts
  <2> QED
    BY <1>1, <2>1, <2>3 DEF TabInv, Serving, AtSignIn, AtDashboard
<1>5. CASE s.user # 0 /\ Show(t, [s EXCEPT !.returnTo = NULL], "signed", i)
  <2> DEFINE c == [s EXCEPT !.returnTo = NULL]
  <2>1. c \in Sessions /\ c.returnTo = NULL /\ c.user = s.user
    BY <1>p, <1>2, SessionFacts
  <2> HIDE DEF c
  <2>2. Show(t, c, "signed", i)
    BY <1>5 DEF c
  <2>3. /\ cookie' = c /\ request'[t] = NULL /\ tab'[t].at = "signed"
        /\ tab'[t].opened = tab[t].opened /\ tab'[t].id = i
    BY <1>1, <1>p, <2>1, <2>2, ShowFacts
  <2> QED
    BY <1>1, <1>3, <2>1, <2>3 DEF TabInv, Serving, AtSignIn, AtDashboard
<1>6. CASE /\ s.user # 0 /\ expired # {}
           /\ Redirect(t, [s EXCEPT !.user = 0], "login", NULL)
  <2> DEFINE c == [s EXCEPT !.user = 0]
  <2>1. c \in Sessions /\ c.returnTo = s.returnTo /\ c.user = 0
    BY <1>p, <1>2, SessionFacts
  <2> HIDE DEF c
  <2>2. Redirect(t, c, "login", NULL)
    BY <1>6 DEF c
  <2>3. /\ cookie' = c /\ request'[t] # NULL /\ request'[t].path = "login"
        /\ request'[t].session = c /\ tab' = tab
    BY <1>p, <2>1, <2>2, RedirectFacts
  <2> QED
    BY <1>1, <1>3, <1>6, <2>1, <2>3 DEF TabInv, Serving
<1> QED
  BY <1>1, <1>4, <1>5, <1>6, MinaAuthLeads

\* The test's server, which keeps no session.
LEMMA TestKeepsWay ==
    ASSUME OracleTypeOK, MinaAsked, TestHasNoSession, NEW t \in Tabs, TabInv(t),
           NEW h, TestMinaAuth(t, h)
    PROVE  TabInv(t)'
<1>1. /\ request[t] # NULL /\ request[t].id = tab[t].opened
      /\ request[t].id \in BioIds
  BY ServedFacts DEF TestMinaAuth, Serving, TabInv, MinaAsked
<1>2. cookie = NoSession /\ cookie \in Sessions
      /\ cookie.returnTo = NULL /\ cookie.user = 0
  BY DEF TestMinaAuth, TestHasNoSession, OracleTypeOK, NoSession
<1>3. Show(t, cookie, "signed", request[t].id) /\ "signed" \in Pages
      /\ UNCHANGED <<tokens, expired>>
  BY DEF TestMinaAuth, Pages
<1>4. /\ cookie' = cookie /\ request'[t] = NULL /\ tab'[t].at = "signed"
      /\ tab'[t].opened = tab[t].opened /\ tab'[t].id = request[t].id
  BY <1>1, <1>2, <1>3, ShowFacts
<1> QED
  BY <1>1, <1>2, <1>4 DEF TabInv, Serving, AtSignIn, AtDashboard

LEMMA HumanodeKeepsWay ==
    ASSUME OracleTypeOK, NEW t \in Tabs, TabInv(t), AuthHumanode(t)
    PROVE  TabInv(t)'
<1> DEFINE s == cookie
<1>1. /\ request[t] # NULL /\ request[t].path = "humanode"
      /\ request[t].session = cookie /\ s \in Sessions
  BY DEF AuthHumanode, Serving, TabInv, OracleTypeOK
<1>2. /\ s.returnTo \in {NULL, tab[t].opened}
      /\ s.user # 0 => s.returnTo = NULL /\ s.user \in DOMAIN tokens
      /\ tab[t].opened # NULL /\ expired = {} =>
            s.user = 0 /\ s.returnTo = tab[t].opened
  BY <1>1 DEF TabInv, Serving, AtSignIn
<1>3. UNCHANGED <<tokens, expired>> /\ "user" \in Pages /\ NULL \in BioIds \cup {NULL}
  BY DEF AuthHumanode, Pages
<1>4. CASE s.user # 0
  <2>1. Show(t, s, "user", NULL)
    BY <1>1, <1>4 DEF AuthHumanode
  <2>2. /\ cookie' = s /\ request'[t] = NULL /\ tab'[t].at = "user"
        /\ tab'[t].opened = tab[t].opened
    BY <1>1, <1>3, <2>1, ShowFacts
  <2> QED
    BY <1>2, <1>3, <1>4, <2>2 DEF TabInv, Serving, AtSignIn, AtDashboard
<1>5. CASE s.user = 0
  <2>1. /\ forms' = forms + 1 /\ forms < MaxForms
        /\ cookie' = [s EXCEPT !.state = forms']
        /\ request' = [request EXCEPT ![t] = NULL]
        /\ tab' = [tab EXCEPT ![t].at = "humanode", ![t].state = forms']
    BY <1>1, <1>5 DEF AuthHumanode
  <2>2. forms' \in 0 .. MaxForms
    BY <2>1, BoundFacts DEF OracleTypeOK
  <2>3. cookie'.user = 0 /\ cookie'.returnTo = s.returnTo /\ cookie'.state = forms'
    BY <1>1, <1>5, <2>1, <2>2, SessionFacts
  <2>4. /\ request'[t] = NULL /\ tab'[t].at = "humanode"
        /\ tab'[t].opened = tab[t].opened /\ tab'[t].state = forms'
    BY <2>1 DEF OracleTypeOK, Shown
  <2> QED
    BY <1>2, <1>3, <2>3, <2>4 DEF TabInv, Serving, AtSignIn, AtDashboard
<1> QED  BY <1>4, <1>5

LEMMA CallbackKeepsWay ==
    ASSUME OracleTypeOK, NEW t \in Tabs, TabInv(t),
           NEW verified \in BOOLEAN, Callback(t, verified)
    PROVE  TabInv(t)'
<1> DEFINE s == cookie
           r == request[t]
<1>1. /\ r # NULL /\ r.path = "callback" /\ r.token \in Nat
      /\ r.session = cookie /\ s \in Sessions
  BY ServedFacts DEF Callback, Serving, TabInv, OracleTypeOK
<1>2. /\ s.returnTo \in {NULL, tab[t].opened}
      /\ s.user # 0 => s.returnTo = NULL /\ s.user \in DOMAIN tokens
      /\ s.user = 0 => r.state = s.state
      /\ tab[t].opened # NULL /\ expired = {} =>
            s.user = 0 /\ s.returnTo = tab[t].opened
  BY <1>1 DEF TabInv, Serving, AtSignIn
<1>3. UNCHANGED <<tokens, expired>> /\ s.returnTo \in BioIds \cup {NULL}
  BY <1>1, SessionFacts DEF Callback
<1>p. /\ "mina" \in Paths /\ "login" \in Paths /\ "dashboard" \in Paths
      /\ NULL \in BioIds \cup {NULL}
  BY DEF Paths
<1>4. ASSUME NEW c \in Sessions, GoOn(t, c, s), c.returnTo = s.returnTo,
             c.user \in DOMAIN tokens
      PROVE  TabInv(t)'
  <2>1. CASE s.returnTo # NULL
    <3>1. Redirect(t, c, "mina", s.returnTo)
      BY <1>4, <2>1 DEF GoOn
    <3>2. /\ cookie' = c /\ tab' = tab /\ request'[t] # NULL
          /\ request'[t].path = "mina" /\ request'[t].id = s.returnTo
          /\ request'[t].session = c
      BY <1>3, <1>p, <1>4, <3>1, RedirectFacts
    <3> QED
      BY <1>2, <1>3, <1>4, <2>1, <3>2 DEF TabInv, Serving, AtSignIn, AtDashboard
  <2>2. CASE s.returnTo = NULL
    <3>1. Redirect(t, c, "dashboard", NULL)
      BY <1>4, <2>2 DEF GoOn
    <3>2. /\ cookie' = c /\ tab' = tab /\ request'[t] # NULL
          /\ request'[t].path = "dashboard" /\ request'[t].session = c
      BY <1>3, <1>p, <1>4, <3>1, RedirectFacts
    <3> QED
      BY <1>2, <1>3, <1>4, <2>2, <3>2 DEF TabInv, Serving, AtSignIn, AtDashboard
  <2> QED  BY <2>1, <2>2
<1>5. CASE s.user # 0
  <2>1. GoOn(t, s, s)
    BY <1>1, <1>5 DEF Callback
  <2> QED  BY <1>1, <1>2, <1>4, <1>5, <2>1
<1>6. CASE s.user = 0 /\ Verifies(r.token) /\ GoOn(t, [s EXCEPT !.user = r.token], s)
  <2> DEFINE c == [s EXCEPT !.user = r.token]
  <2>1. c \in Sessions /\ c.returnTo = s.returnTo /\ c.user = r.token
    BY <1>1, SessionFacts
  <2> HIDE DEF c
  <2> QED  BY <1>4, <1>6, <2>1 DEF c, Verifies
<1>7. CASE s.user = 0 /\ Redirect(t, s, "login", NULL)
  <2>1. /\ cookie' = s /\ tab' = tab /\ request'[t] # NULL
        /\ request'[t].path = "login" /\ request'[t].session = s
    BY <1>1, <1>p, <1>7, RedirectFacts
  <2> QED
    BY <1>2, <1>3, <1>7, <2>1 DEF TabInv, Serving, AtSignIn, AtDashboard
<1> QED  BY <1>1, <1>2, <1>5, <1>6, <1>7 DEF Callback

LEMMA OthersKeepWay ==
    ASSUME OracleTypeOK, NEW t \in Tabs, TabInv(t),
           Login(t) \/ Dashboard(t) \/ Logout(t)
    PROVE  TabInv(t)'
<1> DEFINE s == cookie
<1>1. /\ request[t] # NULL /\ request[t].path \in {"login", "dashboard", "logout"}
      /\ request[t].session = cookie /\ s \in Sessions
  BY DEF Login, Dashboard, Logout, Serving, TabInv, OracleTypeOK
<1>2. /\ s.user # 0 => s.returnTo = NULL /\ s.user \in DOMAIN tokens
      /\ request[t].path = "logout" \/ s.returnTo \in {NULL, tab[t].opened}
      /\ request[t].path = "logout" => tab[t].opened = NULL
      /\ tab[t].opened # NULL /\ expired = {} =>
            /\ request[t].path # "dashboard"
            /\ request[t].path = "login" =>
                  s.user = 0 /\ s.returnTo = tab[t].opened
  BY <1>1 DEF TabInv, Serving, AtSignIn, AtDashboard
<1>3. UNCHANGED <<tokens, expired>>
  BY DEF Login, Dashboard, Logout
<1>p. /\ "login" \in Paths /\ "login" \in Pages /\ NULL \in BioIds \cup {NULL}
      /\ 0 \in Nat
  BY DEF Paths, Pages
<1>4. CASE Login(t)
  <2>1. request[t].path = "login" /\ Show(t, s, "login", NULL)
    BY <1>1, <1>4 DEF Login, Serving
  <2>2. /\ cookie' = s /\ request'[t] = NULL /\ tab'[t].at = "login"
        /\ tab'[t].opened = tab[t].opened
    BY <1>1, <1>p, <2>1, ShowFacts
  <2> QED
    BY <1>2, <1>3, <2>1, <2>2 DEF TabInv, Serving, AtSignIn, AtDashboard
<1>5. CASE Dashboard(t)
  <2>1. request[t].path = "dashboard"
    BY <1>5 DEF Dashboard, Serving
  <2>2. CASE /\ s.user # 0 /\ UNCHANGED cookie
             /\ request' = [request EXCEPT ![t] = NULL]
             /\ tab' = [tab EXCEPT ![t].at = "dashboard", ![t].id = NULL]
    <3>1. /\ request'[t] = NULL /\ tab'[t].at = "dashboard"
          /\ tab'[t].opened = tab[t].opened
      BY <2>2 DEF OracleTypeOK, Shown
    <3> QED
      BY <1>2, <1>3, <2>1, <2>2, <3>1 DEF TabInv, Serving, AtSignIn, AtDashboard
  <2>3. CASE Redirect(t, [s EXCEPT !.user = 0], "login", NULL)
    <3> DEFINE c == [s EXCEPT !.user = 0]
    <3>1. c \in Sessions /\ c.returnTo = s.returnTo /\ c.user = 0
      BY <1>1, <1>p, SessionFacts
    <3> HIDE DEF c
    <3>2. Redirect(t, c, "login", NULL)
      BY <2>3 DEF c
    <3>3. /\ cookie' = c /\ tab' = tab /\ request'[t] # NULL
          /\ request'[t].path = "login" /\ request'[t].session = c
      BY <1>p, <3>1, <3>2, RedirectFacts
    <3> QED
      BY <1>2, <1>3, <2>1, <3>1, <3>3 DEF TabInv, Serving, AtSignIn, AtDashboard
  <2> QED  BY <1>1, <1>5, <2>2, <2>3 DEF Dashboard
<1>6. CASE Logout(t)
  <2>1. request[t].path = "logout" /\ Redirect(t, NoSession, "login", NULL)
    BY <1>6 DEF Logout, Serving
  <2>2. NoSession \in Sessions /\ NoSession.returnTo = NULL /\ NoSession.user = 0
    BY <1>1, SessionFacts
  <2>3. /\ cookie' = NoSession /\ tab' = tab /\ request'[t] # NULL
        /\ request'[t].path = "login" /\ request'[t].session = NoSession
    BY <1>p, <2>1, <2>2, RedirectFacts
  <2> QED
    BY <1>2, <2>1, <2>2, <2>3 DEF TabInv, Serving, AtSignIn, AtDashboard
<1> QED  BY <1>4, <1>5, <1>6

\* The browser's requests keep it too.
LEMMA BrowseKeepsWay ==
    ASSUME OracleTypeOK, NEW t \in Tabs, TabInv(t), Browse(t)
    PROVE  TabInv(t)'
<1>1. /\ request[t] = NULL /\ request'[t] # NULL
      /\ request'[t].session = cookie /\ cookie' = cookie
      /\ expired' = expired /\ DOMAIN tokens \subseteq DOMAIN tokens'
      /\ tab'[t].at = tab[t].at
  BY BrowseFacts
<1>2. /\ cookie.returnTo \in {NULL, tab[t].opened}
      /\ cookie.user # 0 => cookie.returnTo = NULL
      /\ cookie.user # 0 => cookie.user \in DOMAIN tokens'
  BY <1>1 DEF TabInv, Serving
<1>3. CASE /\ request'[t].path = "mina" /\ request'[t].id = tab'[t].opened
  BY <1>1, <1>2, <1>3 DEF TabInv, Serving, AtSignIn, AtDashboard
<1>4. CASE /\ tab[t].at \in {"mina", "login"} /\ request'[t].path = "humanode"
           /\ tab' = tab
  BY <1>1, <1>2, <1>4 DEF TabInv, Serving, AtSignIn, AtDashboard
<1>5. CASE /\ tab[t].at = "humanode" /\ request'[t].path = "callback"
           /\ request'[t].state = tab[t].state /\ tab' = tab
  BY <1>1, <1>2, <1>5 DEF TabInv, Serving, AtSignIn, AtDashboard
<1>6. CASE tab[t].at = "humanode" /\ request'[t].path = "login" /\ tab' = tab
  BY <1>1, <1>2, <1>6 DEF TabInv, Serving, AtSignIn, AtDashboard
<1>7. CASE request'[t].path = "logout" /\ tab'[t].opened = NULL
  BY <1>1, <1>2, <1>7 DEF TabInv, Serving, AtSignIn, AtDashboard
<1> QED  BY <1>3, <1>4, <1>5, <1>6, <1>7, BrowseFacts

\* All answers do.
LEMMA ServeKeepsWay ==
    ASSUME OracleTypeOK, MinaAsked, TestHasNoSession, NEW t \in Tabs, TabInv(t),
           Serve(t)
    PROVE  TabInv(t)'
  BY MinaKeepsWay, TestKeepsWay, HumanodeKeepsWay, CallbackKeepsWay,
     OthersKeepWay DEF Serve

-----------------------------------------------------------------------------
(***************************************************************************)
(* What an answer leaves alone.                                            *)
(***************************************************************************)

LEMMA RedirectFrame ==
    ASSUME OracleTypeOK, NEW t \in Tabs, NEW s, NEW path, NEW id,
           Redirect(t, s, path, id)
    PROVE  /\ request'[t].path = path /\ request'[t].id = id
           /\ tab'[t].at = tab[t].at
           /\ \A u \in Tabs \ {t} : request'[u] = request[u] /\ tab'[u] = tab[u]
  BY DEF Redirect, Get, OracleTypeOK

LEMMA ShowFrame ==
    ASSUME OracleTypeOK, NEW t \in Tabs, NEW s, NEW page, NEW id,
           Show(t, s, page, id)
    PROVE  /\ request'[t] = NULL
           /\ tab'[t].at = page
           /\ \A u \in Tabs \ {t} : request'[u] = request[u] /\ tab'[u] = tab[u]
<1>1. tab[t] \in Shown /\ tab \in [Tabs -> Shown]
  BY DEF OracleTypeOK
<1>2. tab'[t] = [tab[t] EXCEPT !.at = page, !.id = id]
  BY <1>1 DEF Show
<1> QED  BY <1>1, <1>2 DEF Show, Shown, OracleTypeOK

\* The other tabs, the links and the tokens; only an id's route is redirected
\* to for an id.
LEMMA ServeFrame ==
    ASSUME OracleTypeOK, NEW t \in Tabs, Serve(t)
    PROVE  /\ request[t] # NULL
           /\ UNCHANGED <<oracle, tokens, expired, opens>>
           /\ \A u \in Tabs \ {t} : request'[u] = request[u] /\ tab'[u] = tab[u]
           /\ \/ request'[t] = NULL
              \/ request'[t].path # "mina"
              \/ request'[t].id # NULL
<1>0. request \in [Tabs -> Requests \cup {NULL}] /\ tab \in [Tabs -> Shown]
  BY DEF OracleTypeOK
<1> DEFINE Frame == /\ \A u \in Tabs \ {t} : /\ request'[u] = request[u]
                                             /\ tab'[u] = tab[u]
                    /\ \/ request'[t] = NULL
                       \/ request'[t].path # "mina"
                       \/ request'[t].id # NULL
<1>1. ASSUME NEW s, NEW page, NEW id, Show(t, s, page, id)
      PROVE  Frame
  BY <1>1, ShowFrame
<1>2. ASSUME NEW s, NEW path, NEW id, Redirect(t, s, path, id),
             path # "mina" \/ id # NULL
      PROVE  Frame
  BY <1>2, RedirectFrame
<1>3. CASE MinaAuth(t)
  BY <1>1, <1>2, <1>3 DEF MinaAuth, Serving
<1>4. CASE \E h \in Humans : TestMinaAuth(t, h)
  BY <1>1, <1>4 DEF TestMinaAuth, Serving
<1>5. CASE AuthHumanode(t)
  <2>1. CASE request[t].session.user # 0
    BY <1>1, <1>5, <2>1 DEF AuthHumanode, Serving
  <2>2. CASE request[t].session.user = 0
    BY <1>0, <1>5, <2>2 DEF AuthHumanode, Serving
  <2> QED  BY <2>1, <2>2
<1>6. CASE \E verified \in BOOLEAN : Callback(t, verified)
  BY <1>2, <1>6 DEF Callback, GoOn, Serving
<1>7. CASE Login(t)
  BY <1>1, <1>7 DEF Login, Serving
<1>8. CASE Dashboard(t)
  <2>1. CASE /\ request' = [request EXCEPT ![t] = NULL]
             /\ tab' = [tab EXCEPT ![t].at = "dashboard", ![t].id = NULL]
    BY <1>0, <1>8, <2>1 DEF Dashboard, Serving
  <2>2. CASE Redirect(t, [request[t].session EXCEPT !.user = 0], "login", NULL)
    BY <1>2, <1>8, <2>2 DEF Dashboard, Serving
  <2> QED  BY <1>8, <2>1, <2>2 DEF Dashboard
<1>9. CASE Logout(t)
  BY <1>2, <1>9 DEF Logout, Serving
<1> QED  BY <1>3, <1>4, <1>5, <1>6, <1>7, <1>8, <1>9 DEF Serve

-----------------------------------------------------------------------------
(***************************************************************************)
(* The steps of the oracle.                                                *)
(***************************************************************************)
OracleInv ==
    /\ OracleTypeOK
    /\ CacheSigned
    /\ MinaAsked
    /\ BlankTabs
    /\ TestHasNoSession
    /\ OneTab

LEMMA ServeStep ==
    ASSUME OracleInv, NEW t \in Tabs, Serve(t)
    PROVE  OracleInv'
<1> USE DEF OracleInv
<1>1. /\ request[t] # NULL
      /\ UNCHANGED <<oracle, tokens, expired, opens>>
      /\ \A u \in Tabs \ {t} : request'[u] = request[u] /\ tab'[u] = tab[u]
      /\ \/ request'[t] = NULL
         \/ request'[t].path # "mina"
         \/ request'[t].id # NULL
  BY ServeFrame
<1>2. opens[t] # 0
  BY <1>1 DEF BlankTabs
<1>3. OracleTypeOK'
  BY ServeTypes, TypesSplit DEF MinaAsked, OracleTypeOK, WebTypes, RestTypes
<1>4. CacheSigned'
  <2>0. cache \in [BioIds -> Signed \cup {NULL}]
    BY DEF OracleTypeOK
  <2>1. CASE UNCHANGED cache
    BY <2>1 DEF CacheSigned
  <2>2. ASSUME NEW i \in BioIds, NEW h \in Humans,
               cache' = [cache EXCEPT ![i] = [payload |-> i, bioAuthId |-> h]]
        PROVE  CacheSigned'
    BY <2>0, <2>2 DEF CacheSigned
  <2>3. CASE MinaAuth(t)
    <3>1. request[t].id # NULL /\ request[t].id \in BioIds
      BY <1>1, <2>3, ServedFacts DEF MinaAuth, MinaAsked
    <3> QED  BY <2>1, <2>2, <2>3, <3>1, MinaAuthLeads
  <2>4. CASE \E h \in Humans : TestMinaAuth(t, h)
    <3>1. request[t].id \in BioIds
      BY <1>1, <2>4, ServedFacts DEF TestMinaAuth, MinaAsked
    <3> QED  BY <2>2, <2>4, <3>1 DEF TestMinaAuth
  <2> QED
    BY <2>1, <2>3, <2>4 DEF Serve, AuthHumanode, Callback, Login, Dashboard, Logout
<1>5. MinaAsked'
  BY <1>1 DEF MinaAsked, Serving
<1>6. BlankTabs'
  BY <1>1, <1>2 DEF BlankTabs
<1>7. TestHasNoSession'
  <2> SUFFICES ASSUME oracle = "oracle-auth-test"
               PROVE  /\ cookie' = NoSession
                      /\ \A u \in Tabs :
                            /\ tab'[u].at \in {"blank", "signed"}
                            /\ request'[u] # NULL => request'[u].path = "mina"
    BY <1>1 DEF TestHasNoSession
  <2>1. cookie = NoSession /\ request[t].path = "mina"
    BY <1>1 DEF TestHasNoSession
  <2>2. PICK h \in Humans : TestMinaAuth(t, h)
    BY <2>1 DEF Serve, MinaAuth, AuthHumanode, Callback, Login, Dashboard, Logout,
                Serving
  <2>3. Show(t, cookie, "signed", request[t].id)
    BY <2>2 DEF TestMinaAuth
  <2>4. cookie' = cookie /\ request'[t] = NULL /\ tab'[t].at = "signed"
    BY <2>3, ShowFrame DEF Show
  <2> QED  BY <1>1, <2>1, <2>4 DEF TestHasNoSession
<1>8. OneTab'
  <2> SUFFICES ASSUME NEW u \in Tabs, OnlyTab(u)'
               PROVE  TabInv(u)'
    BY DEF OneTab
  <2>1. u = t /\ OnlyTab(t)
    BY <1>1, <1>2 DEF OnlyTab
  <2> QED  BY <2>1, ServeKeepsWay DEF OneTab
<1> QED  BY <1>3, <1>4, <1>5, <1>6, <1>7, <1>8

LEMMA BrowseStep ==
    ASSUME OracleInv, NEW t \in Tabs, Browse(t)
    PROVE  OracleInv'
<1> USE DEF OracleInv
<1>1. /\ WebTypes' /\ RestTypes'
      /\ request[t] = NULL /\ request'[t] # NULL
      /\ cookie' = cookie
      /\ \A u \in Tabs \ {t} : /\ request'[u] = request[u]
                               /\ tab'[u] = tab[u]
                               /\ opens'[u] = opens[u]
      /\ UNCHANGED <<oracle, cache>>
      /\ tab'[t].at = tab[t].at
  BY BrowseFacts
<1>2. \/ /\ request'[t].path = "mina"
         /\ request'[t].id # NULL
         /\ opens'[t] = opens[t] + 1
      \/ /\ tab[t].at \in {"mina", "login", "humanode", "signed", "dashboard"}
         /\ tab[t].at = "signed" => oracle = "oracle-auth"
         /\ request'[t].path # "mina"
         /\ opens' = opens
  BY BrowseFacts
<1>3. opens'[t] # 0
  <2>1. opens[t] \in Nat
    BY DEF OracleTypeOK
  <2>2. opens[t] + 1 # 0
    BY <2>1
  <2>3. tab[t].at # "blank" => opens[t] # 0
    BY DEF BlankTabs
  <2> QED  BY <1>2, <2>2, <2>3
<1>4. OracleTypeOK'
  BY <1>1 DEF OracleTypeOK, WebTypes, RestTypes
<1>5. CacheSigned'
  BY <1>1 DEF CacheSigned
<1>6. MinaAsked'
  BY <1>1, <1>2 DEF MinaAsked, Serving
<1>7. BlankTabs'
  BY <1>1, <1>3 DEF BlankTabs
<1>8. TestHasNoSession'
  BY <1>1, <1>2 DEF TestHasNoSession
<1>9. OneTab'
  <2> SUFFICES ASSUME NEW u \in Tabs, OnlyTab(u)'
               PROVE  TabInv(u)'
    BY DEF OneTab
  <2>1. u = t /\ OnlyTab(t)
    BY <1>1, <1>3 DEF OnlyTab
  <2> QED  BY <2>1, BrowseKeepsWay DEF OneTab
<1> QED  BY <1>4, <1>5, <1>6, <1>7, <1>8, <1>9

\* A token that has expired may make what a session stands for void; what is
\* cached may be lost.
LEMMA FaultStep ==
    ASSUME OracleInv,
           \/ \E token \in DOMAIN tokens : TokenExpires(token)
           \/ \E i \in BioIds : CacheExpires(i)
           \/ Restart
    PROVE  OracleInv'
<1> USE DEF OracleInv
<1>1. UNCHANGED <<oracle, cookie, tab, request, tokens, opens, forms>>
  BY DEF TokenExpires, CacheExpires, Restart
<1>2. faults' \in 0 .. MaxFaults
  BY BoundFacts DEF TokenExpires, CacheExpires, Restart, Fault, OracleTypeOK
<1>3. \/ cache' = cache
      \/ \E i \in BioIds : cache' = [cache EXCEPT ![i] = NULL]
      \/ cache' = [i \in BioIds |-> NULL]
  BY DEF TokenExpires, CacheExpires, Restart
<1>4. cache' \in [BioIds -> Signed \cup {NULL}] /\ CacheSigned'
  BY <1>3 DEF OracleTypeOK, CacheSigned
<1>5. expired' = expired \/ (expired' # {} /\ expired' \subseteq DOMAIN tokens)
  BY DEF TokenExpires, CacheExpires, Restart, OracleTypeOK
<1>6. OracleTypeOK'
  BY <1>1, <1>2, <1>4, <1>5 DEF OracleTypeOK
<1>7. MinaAsked' /\ BlankTabs' /\ TestHasNoSession'
  BY <1>1 DEF MinaAsked, BlankTabs, TestHasNoSession, Serving
<1>8. OneTab'
  <2> SUFFICES ASSUME NEW u \in Tabs, OnlyTab(u)'
               PROVE  TabInv(u)'
    BY DEF OneTab
  <2>1. TabInv(u)
    BY <1>1 DEF OneTab, OnlyTab
  <2> QED
    BY <1>1, <1>5, <2>1 DEF TabInv, Serving, AtSignIn, AtDashboard
<1> QED  BY <1>4, <1>6, <1>7, <1>8

LEMMA OracleStepKeeps ==
    ASSUME OracleInv, OracleStep
    PROVE  OracleInv'
  BY ServeStep, BrowseStep, FaultStep DEF OracleStep

\* Nothing of it depends on the count of faults.
LEMMA OracleStutters ==
    ASSUME OracleInv, faults' \in 0 .. MaxFaults,
           UNCHANGED <<oracle, cookie, tab, request, cache, tokens, expired,
                       opens, forms>>
    PROVE  OracleInv'
<1>1. OracleTypeOK'
  BY DEF OracleInv, OracleTypeOK
<1>2. CacheSigned' /\ MinaAsked' /\ BlankTabs' /\ TestHasNoSession'
  BY DEF OracleInv, CacheSigned, MinaAsked, BlankTabs, TestHasNoSession, Serving
<1>3. OneTab'
  BY DEF OracleInv, OneTab, OnlyTab, TabInv, Serving, AtSignIn, AtDashboard
<1> QED  BY <1>1, <1>2, <1>3 DEF OracleInv

LEMMA OracleInitially == OracleInit => OracleInv
<1> SUFFICES ASSUME OracleInit
             PROVE  OracleInv
  OBVIOUS
<1> USE BoundFacts DEF OracleInit
<1>1. OracleTypeOK
  <2>1. cookie \in Sessions
    BY DEF NoSession, Sessions
  <2>2. tab \in [Tabs -> Shown]
    BY DEF Shown, Pages
  <2>3. tokens \in Seq(Humans)
    OBVIOUS
  <2> QED  BY <2>1, <2>2, <2>3 DEF OracleTypeOK
<1>2. CacheSigned /\ MinaAsked /\ BlankTabs /\ TestHasNoSession
  BY DEF CacheSigned, MinaAsked, BlankTabs, TestHasNoSession, Serving
<1>3. OneTab
  BY DEF OneTab, TabInv, Serving, AtSignIn, AtDashboard, NoSession
<1> QED  BY <1>1, <1>2, <1>3 DEF OracleInv

-----------------------------------------------------------------------------
(***************************************************************************)
(* The page.                                                               *)
(***************************************************************************)
PageStates == [auth : Signed \cup {NULL}, link : BioIds \cup {NULL}, counter : Nat]

PageTypeOK ==
    /\ identifier \in BioIds
    /\ bioAuthState \in PageStates
    /\ polls \in Seq(Polls)
    /\ clicks \in Seq(Clicks)
    /\ moves \in 0 .. MaxMoves /\ lost \in 0 .. MaxMoves

LEMMA PageBounds == MaxMoves \in Nat /\ First \in BioIds
  BY PageAssumption

\* After a render there is a run with the counter it has, if a poll is needed and
\* the rest of the runs had one if it changed nothing.
LEMMA RenderFacts ==
    ASSUME NEW i \in BioIds, NEW s \in PageStates, NEW rest \in Seq(Polls),
           Render(i, s, rest)
    PROVE  /\ identifier' = i /\ bioAuthState' = s
           /\ polls' \in Seq(Polls)
           /\ \A n \in DOMAIN rest : n \in DOMAIN polls' /\ polls'[n] = rest[n]
           /\ NeedsPoll(s) /\ <<i, s>> # <<identifier, bioAuthState>> =>
                 \E n \in DOMAIN polls' : polls'[n].counter = s.counter
<1> DEFINE run == [id |-> i, counter |-> s.counter, at |-> "query"]
<1>1. run \in Polls /\ run.counter = s.counter
  BY DEF Polls, PageStates
<1>2. /\ polls' = rest \/ polls' = Append(rest, run)
      /\ NeedsPoll(s) /\ <<i, s>> # <<identifier, bioAuthState>> =>
            polls' = Append(rest, run)
  BY DEF Render
<1> HIDE DEF run
<1>3. /\ Append(rest, run) \in Seq(Polls)
      /\ DOMAIN Append(rest, run) = DOMAIN rest \cup {Len(rest) + 1}
      /\ \A n \in DOMAIN rest : Append(rest, run)[n] = rest[n]
      /\ Append(rest, run)[Len(rest) + 1] = run
  BY <1>1, AppendFacts
<1>4. identifier' = i /\ bioAuthState' = s
  BY DEF Render
<1> QED  BY <1>1, <1>2, <1>3, <1>4

PageInv == PageTypeOK /\ CounterPolled

\* A step that renders: the runs that stay include those with the counter of
\* now, unless it is changed.
LEMMA Rendered ==
    ASSUME PageInv, NEW i \in BioIds, NEW s \in PageStates, NEW rest \in Seq(Polls),
           Render(i, s, rest), lost' = lost, moves' \in 0 .. MaxMoves,
           clicks' \in Seq(Clicks),
           \A n \in DOMAIN polls :
              \/ s # bioAuthState
              \/ polls[n].counter # s.counter
              \/ \E k \in DOMAIN rest : rest[k] = polls[n]
    PROVE  PageInv'
<1>1. /\ identifier' = i /\ bioAuthState' = s
      /\ polls' \in Seq(Polls)
      /\ \A n \in DOMAIN rest : n \in DOMAIN polls' /\ polls'[n] = rest[n]
      /\ NeedsPoll(s) /\ <<i, s>> # <<identifier, bioAuthState>> =>
            \E n \in DOMAIN polls' : polls'[n].counter = s.counter
  BY RenderFacts
<1>2. PageTypeOK'
  BY <1>1 DEF PageInv, PageTypeOK
<1>3. ASSUME NeedsPoll(s), <<i, s>> = <<identifier, bioAuthState>>, ~(lost > 0)
      PROVE  \E n \in DOMAIN polls' : polls'[n].counter = s.counter
  <2>1. s = bioAuthState
    BY <1>3
  <2>2. PICK n \in DOMAIN polls : polls[n].counter = s.counter
    BY <1>3, <2>1 DEF PageInv, CounterPolled
  <2>3. PICK k \in DOMAIN rest : rest[k] = polls[n]
    BY <2>1, <2>2
  <2> QED  BY <1>1, <2>2, <2>3
<1>4. NeedsPoll(s) => \/ \E n \in DOMAIN polls' : polls'[n].counter = s.counter
                      \/ lost' > 0
  BY <1>1, <1>3
<1>5. CounterPolled'
  <2>1. NeedsPoll(bioAuthState)' <=> NeedsPoll(s)
    BY <1>1 DEF NeedsPoll
  <2> QED  BY <1>1, <1>4, <2>1 DEF CounterPolled
<1> QED  BY <1>2, <1>5 DEF PageInv

\* All runs but the one that ended stay.
LEMMA OthersStay ==
    ASSUME NEW S, NEW q \in Seq(S), NEW n \in DOMAIN q, NEW m \in DOMAIN q \ {n}
    PROVE  \E k \in DOMAIN RemoveAt(q, n) : RemoveAt(q, n)[k] = q[m]
<1>0. n \in 1 .. Len(q) /\ m \in 1 .. Len(q) /\ Len(q) \in Nat
  OBVIOUS
<1> DEFINE rest == RemoveAt(q, n)
<1>1. /\ rest \in Seq(S) /\ Len(rest) = Len(q) - 1
      /\ \A k \in 1 .. Len(q) - 1 : rest[k] = IF k < n THEN q[k] ELSE q[k + 1]
  BY <1>0, RemoveAtFacts
<1> HIDE DEF rest
<1>2. DOMAIN rest = 1 .. Len(q) - 1
  BY <1>1
<1>3. CASE m < n
  <2>1. m \in 1 .. Len(q) - 1
    BY <1>0, <1>3
  <2> QED  BY <1>1, <1>2, <1>3, <2>1 DEF rest
<1>4. CASE m > n
  <2>1. m - 1 \in 1 .. Len(q) - 1 /\ ~(m - 1 < n) /\ (m - 1) + 1 = m
    BY <1>0, <1>4
  <2>2. rest[m - 1] = q[m]
    BY <1>1, <2>1
  <2> QED  BY <1>2, <2>1, <2>2 DEF rest
<1> QED  BY <1>0, <1>3, <1>4

LEMMA PageStep ==
    ASSUME PageInv, OracleInv, [Next]_vars
    PROVE  PageInv'
<1> USE PageBounds
<1>0. /\ identifier \in BioIds /\ bioAuthState \in PageStates
      /\ polls \in Seq(Polls) /\ clicks \in Seq(Clicks) /\ moves \in 0 .. MaxMoves
      /\ lost \in 0 .. MaxMoves
  BY DEF PageInv, PageTypeOK
<1>1. CASE UNCHANGED pageVars
  <2>1. UNCHANGED <<identifier, bioAuthState, polls, clicks, moves, lost>>
    BY <1>1 DEF pageVars
  <2> QED  BY <2>1 DEF PageInv, PageTypeOK, CounterPolled, NeedsPoll
<1>2. CASE Click
  <2> DEFINE click == [id |-> identifier, counter |-> bioAuthState.counter]
  <2>1. clicks' = Append(clicks, click)
        /\ UNCHANGED <<identifier, bioAuthState, polls, moves, lost>>
    BY <1>2 DEF Click
  <2>2. click \in Clicks
    BY <1>0 DEF Clicks, PageStates
  <2> HIDE DEF click
  <2>3. Append(clicks, click) \in Seq(Clicks)
    BY <1>0, <2>2, AppendFacts
  <2> QED  BY <2>1, <2>3 DEF PageInv, PageTypeOK, CounterPolled, NeedsPoll
<1>3. ASSUME NEW n \in DOMAIN clicks, Clicked(n)
      PROVE  PageInv'
  <2> DEFINE s == [bioAuthState EXCEPT !.link = clicks[n].id,
                                       !.counter = clicks[n].counter + 1]
  <2>1. /\ clicks' = RemoveAt(clicks, n) /\ moves' = moves /\ lost' = lost
        /\ Render(identifier, s, polls)
    BY <1>3 DEF Clicked
  <2>2. clicks[n] \in Clicks
    BY <1>0, <1>3
  <2>3. s \in PageStates
    <3>1. clicks[n].id \in BioIds \cup {NULL} /\ clicks[n].counter + 1 \in Nat
      BY <2>2 DEF Clicks
    <3> QED  BY <1>0, <3>1 DEF PageStates
  <2> HIDE DEF s
  <2>4. clicks' \in Seq(Clicks)
    BY <1>0, <1>3, <2>1, RemoveAtMembers
  <2>5. moves' \in 0 .. MaxMoves
    BY <1>0, <2>1
  <2> QED  BY <1>0, <2>1, <2>3, <2>4, <2>5, Rendered
<1>4. ASSUME NEW n \in DOMAIN polls, Received(n)
      PROVE  PageInv'
  <2> DEFINE msg == cache[polls[n].id]
             s == [bioAuthState EXCEPT !.auth = msg]
  <2>1. /\ Render(identifier, s, RemoveAt(polls, n)) /\ msg # NULL
        /\ clicks' = clicks /\ moves' = moves /\ lost' = lost
    BY <1>4 DEF Received
  <2>2. polls[n] \in Polls
    BY <1>0, <1>4
  <2>3. polls[n].id \in BioIds
    BY <2>2 DEF Polls
  <2>4. msg \in Signed
    BY <2>1, <2>3 DEF OracleInv, OracleTypeOK
  <2> HIDE DEF msg
  <2>5. s \in PageStates /\ s.auth # NULL
    BY <1>0, <2>1, <2>4 DEF PageStates
  <2> HIDE DEF s
  <2>6. RemoveAt(polls, n) \in Seq(Polls)
    BY <1>0, <1>4, RemoveAtMembers
  <2>7. identifier' = identifier /\ bioAuthState' = s /\ polls' \in Seq(Polls)
    BY <1>0, <2>1, <2>5, <2>6, RenderFacts
  <2>8. PageTypeOK'
    BY <1>0, <2>1, <2>5, <2>7 DEF PageTypeOK
  <2>9. CounterPolled'
    BY <2>5, <2>7 DEF CounterPolled, NeedsPoll
  <2> QED  BY <2>8, <2>9 DEF PageInv
<1>5. ASSUME NEW n \in DOMAIN polls, NotYet(n)
      PROVE  PageInv'
  <2>1. /\ polls' = [polls EXCEPT ![n].at = "delay"]
        /\ UNCHANGED <<identifier, bioAuthState, clicks, moves, lost>>
    BY <1>5 DEF NotYet
  <2>2. [polls[n] EXCEPT !.at = "delay"] \in Polls
        /\ [polls[n] EXCEPT !.at = "delay"].counter = polls[n].counter
    <3>1. polls[n] \in Polls
      BY <1>0, <1>5
    <3> QED  BY <3>1 DEF Polls
  <2>3. polls' \in Seq(Polls) /\ DOMAIN polls' = DOMAIN polls
        /\ polls'[n] = [polls[n] EXCEPT !.at = "delay"]
        /\ \A m \in DOMAIN polls \ {n} : polls'[m] = polls[m]
    BY <1>0, <1>5, <2>1, <2>2
  <2>4. PageTypeOK'
    BY <1>0, <2>1, <2>3 DEF PageTypeOK
  <2>5. \A m \in DOMAIN polls : m \in DOMAIN polls' /\ polls'[m].counter = polls[m].counter
    BY <2>2, <2>3
  <2>6. CounterPolled'
    BY <2>1, <2>5 DEF PageInv, CounterPolled, NeedsPoll
  <2> QED  BY <2>4, <2>6 DEF PageInv
<1>6. ASSUME NEW n \in DOMAIN polls, Recheck(n)
      PROVE  PageInv'
  <2> DEFINE s == [bioAuthState EXCEPT !.counter = polls[n].counter + 1]
  <2>1. /\ Render(identifier, s, RemoveAt(polls, n))
        /\ clicks' = clicks /\ moves' = moves /\ lost' = lost
    BY <1>6 DEF Recheck
  <2>2. polls[n] \in Polls
    BY <1>0, <1>6
  <2>3. s \in PageStates /\ polls[n].counter # s.counter
    <3>1. polls[n].counter \in Nat /\ polls[n].counter + 1 \in Nat
          /\ polls[n].counter + 1 # polls[n].counter
      BY <2>2 DEF Polls
    <3> QED  BY <1>0, <3>1 DEF PageStates
  <2> HIDE DEF s
  <2>4. RemoveAt(polls, n) \in Seq(Polls)
    BY <1>0, <1>6, RemoveAtMembers
  <2>5. \A m \in DOMAIN polls :
           \/ polls[m].counter # s.counter
           \/ \E k \in DOMAIN RemoveAt(polls, n) : RemoveAt(polls, n)[k] = polls[m]
    BY <1>0, <2>3, OthersStay
  <2>6. clicks' \in Seq(Clicks) /\ moves' \in 0 .. MaxMoves
    BY <1>0, <2>1
  <2> QED  BY <1>0, <2>1, <2>3, <2>4, <2>5, <2>6, Rendered
<1>7. ASSUME NEW n \in DOMAIN polls, PollFails(n)
      PROVE  PageInv'
  <2>1. /\ polls' = RemoveAt(polls, n) /\ lost' = lost + 1 /\ MayFail
        /\ UNCHANGED <<identifier, bioAuthState, clicks, moves>>
    BY <1>7 DEF PollFails
  <2>2. polls' \in Seq(Polls)
    BY <1>0, <1>7, <2>1, RemoveAtMembers
  <2>3. lost' \in 0 .. MaxMoves /\ lost' > 0
    <3>1. faults \in Nat
      BY BoundFacts DEF OracleInv, OracleTypeOK
    <3> QED  BY <1>0, <2>1, <3>1 DEF MayFail
  <2>4. PageTypeOK'
    BY <1>0, <2>1, <2>2, <2>3 DEF PageTypeOK
  <2> QED  BY <2>3, <2>4 DEF PageInv, CounterPolled
<1>8. ASSUME NEW i \in BioIds, NEW s \in PageStates, Render(i, s, polls),
             clicks' = clicks, MayFail, moves' = moves + 1, lost' = lost
      PROVE  PageInv'
  <2>1. moves' \in 0 .. MaxMoves
    <3>1. faults \in Nat
      BY BoundFacts DEF OracleInv, OracleTypeOK
    <3> QED  BY <1>0, <1>8, <3>1 DEF MayFail
  <2>2. clicks' \in Seq(Clicks)
    BY <1>0, <1>8
  <2> QED  BY <1>0, <1>8, <2>1, <2>2, Rendered
<1>9. CASE \E i \in BioIds : Visit(i)
  BY <1>0, <1>8, <1>9 DEF Visit
<1>10. CASE ResetState
  <2>1. NoBioAuth \in PageStates
    BY DEF NoBioAuth, PageStates
  <2> QED  BY <1>0, <1>8, <1>10, <2>1 DEF ResetState
<1> QED
  BY <1>1, <1>2, <1>3, <1>4, <1>5, <1>6, <1>7, <1>9, <1>10
  DEF Next, Polling, vars

LEMMA PageInitially == Init => PageInv
<1> SUFFICES ASSUME Init
             PROVE  PageInv
  OBVIOUS
<1> USE PageBounds DEF Init
<1>1. NoBioAuth \in PageStates
  BY DEF NoBioAuth, PageStates
<1>2. PageTypeOK
  BY <1>1 DEF PageTypeOK
<1> QED
  BY <1>2 DEF PageInv, CounterPolled, NeedsPoll, NoBioAuth

-----------------------------------------------------------------------------
(***************************************************************************)
(* The theorems.                                                           *)
(***************************************************************************)
LEMMA InvSplit == BioAuthInv <=> OracleInv /\ PageInv
  BY DEF BioAuthInv, OracleInv, PageInv, TypeOK, PageTypeOK, PageStates

LEMMA OracleNext ==
    ASSUME OracleInv, [Next]_vars
    PROVE  OracleInv'
<1> USE DEF OracleInv
<1>1. CASE OracleStep
  BY <1>1, OracleStepKeeps
<1>2. CASE UNCHANGED oracleVars
  <2>1. faults' \in 0 .. MaxFaults
    BY <1>2 DEF oracleVars, OracleTypeOK
  <2> QED  BY <1>2, <2>1, OracleStutters DEF oracleVars
<1> QED
  BY <1>1, <1>2
  DEF Next, Polling, Click, Clicked, Received, NotYet, Recheck, PollFails, Visit,
      ResetState, vars

\* The inductive invariant of the oracle, its one tab and the page holds in
\* every state.
THEOREM BioAuthInvariant == Spec => []BioAuthInv
<1>1. Init => BioAuthInv
  BY OracleInitially, PageInitially, InvSplit DEF Init
<1>2. BioAuthInv /\ [Next]_vars => BioAuthInv'
  <2> SUFFICES ASSUME BioAuthInv, [Next]_vars
               PROVE  BioAuthInv'
    OBVIOUS
  <2>1. OracleInv' /\ PageInv'
    BY InvSplit, OracleNext, PageStep
  <2> QED
    BY <2>1 DEF BioAuthInv, OracleInv, PageInv, TypeOK, PageTypeOK, PageStates
<1> QED  BY <1>1, <1>2, PTL DEF Spec

\* While there is a link and no message the page polls, whatever is clicked,
\* visited and reset meanwhile, unless a poll failed.
THEOREM PollNeverDies == Spec => []PollAlive
<1>1. BioAuthInv => PollAlive
  <2> SUFFICES ASSUME BioAuthInv, NeedsPoll(bioAuthState), ~(lost > 0)
               PROVE  polls # <<>>
    BY DEF PollAlive
  <2>1. PICK n \in DOMAIN polls : polls[n].counter = bioAuthState.counter
    BY DEF BioAuthInv, CounterPolled
  <2> QED  BY <2>1
<1> QED  BY <1>1, BioAuthInvariant, PTL

\* With one tab, the id whose link was opened is the one that is signed, and
\* the dashboard is reached only after a token has expired.
THEOREM AlwaysLandsWhereAsked == Spec => []LandsWhereAsked
<1>1. BioAuthInv => LandsWhereAsked
  <2> SUFFICES ASSUME BioAuthInv, NEW t \in Tabs,
                      request[t] = NULL, tab[t].opened # NULL, OnlyTab(t)
               PROVE  /\ tab[t].at = "signed" => tab[t].id = tab[t].opened
                      /\ tab[t].at = "dashboard" => expired # {}
    BY DEF LandsWhereAsked
  <2>1. TabInv(t)
    BY DEF BioAuthInv, OneTab
  <2> QED  BY <2>1 DEF TabInv, AtDashboard
<1> QED  BY <1>1, BioAuthInvariant, PTL

=============================================================================
