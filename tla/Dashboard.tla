-------------------------------- MODULE Dashboard ------------------------------
(***************************************************************************)
(* The embedded console (the function XN of the compiled bundle under      *)
(* internal/api/web) in the tabs of one browser, and what the server knows *)
(* of its sessions.  A handler runs with the token and the role of the     *)
(* render it was created in (me), its answer meets whatever the tab shows  *)
(* by then, and tabs share localStorage.                                   *)
(***************************************************************************)
EXTENDS Integers, Sequences, FiniteSets

CONSTANTS
  Tabs,
  Accounts,  \* users that can log in
  RoleOf,    \* their roles
  None,
  Secured,   \* a global token is configured
  MaxLogins, MaxEvents, MaxPolls  \* bounds: sessions, actions of users and failures together,
                                  \* polls a tab has in flight

DashboardAssumption ==
  /\ RoleOf \in [Accounts -> {"admin_proj", "admin_db", "user_db", "visitor"}]
  /\ None \notin Accounts /\ Secured \in BOOLEAN
  /\ {MaxLogins, MaxEvents, MaxPolls} \subseteq Nat

VARIABLES
  tab,      \* per tab: token, role and user (state of XN), page, busy flags, search timer
  local,    \* localStorage: arora_token, arora_role, arora_username
  account,  \* the user of every session there ever was; tokens are its positions
  live,     \* the tokens the server knows
  net,      \* requests and answers in flight
  events    \* bound

vars == <<tab, local, account, live, net, events>>

Tokens == 1 .. Len(account)

\* Nobody is logged in.
Nobody == [token |-> 0, role |-> "visitor", user |-> None]

Session(n, u) == [token |-> n, role |-> RoleOf[u], user |-> u]

\* A document that was just loaded: the session comes from localStorage.
Fresh == [session |-> local, page |-> "overview", busy |-> {}, search |-> None]

--------------------------------------------------------------------------------
(* The server                                                               *)

\* Keys and documents are written with one request, as collections are.
Writes == {"writeKV", "writeDoc"}

\* The roles that checkRole is given for a route.
Allowed(kind) ==
  CASE kind \in {"metrics", "kv", "collections", "docs", "tables", "sql"} -> {"admin_db", "user_db"}
    [] kind \in Writes -> {"admin_db"}
    [] OTHER -> {}

Permitted(kind, role) == role = "admin_proj" \/ role \in Allowed(kind)

Gone(q) == q.me.token \notin live

\* authMiddleware lets a request of a session pass to its handler.
Admit(q) ==
  /\ q.kind # "login" /\ q.status = "sent"
  /\ net' = (net \ {q}) \cup {[q EXCEPT !.status = IF Gone(q) THEN "401" ELSE "admitted"]}
  /\ UNCHANGED <<tab, local, account, live, events>>

\* The handler looks the session up again: checkRole, with resolveSession, or the check of
\* handleGetAuditLogs.
Status(q) ==
  CASE ~ Gone(q) -> IF Permitted(q.kind, RoleOf[account[q.me.token]]) THEN "ok" ELSE "403"
    [] Gone(q) /\ q.kind = "audit" -> "403"
    [] Gone(q) /\ q.kind # "audit" -> IF Secured THEN "401" ELSE "ok"

ServeLogin(q) ==
  /\ q.kind = "login" /\ q.status = "sent" /\ Len(account) < MaxLogins
  /\ account' = Append(account, q.me.user)
  /\ live' = live \cup {Len(account')}
  /\ net' = (net \ {q}) \cup {[q EXCEPT !.status = "ok", !.me = Session(Len(account'), q.me.user)]}
  /\ UNCHANGED <<tab, local, events>>

ServeLogout(q) ==
  /\ q.kind \in {"logout", "expired"} /\ q.status = "admitted"
  /\ live' = live \ {q.me.token}
  /\ net' = (net \ {q}) \cup {[q EXCEPT !.status = "ok"]}
  /\ UNCHANGED <<tab, local, account, events>>

ServeRoute(q) ==
  /\ q.kind \notin {"login", "logout", "expired"} /\ q.status = "admitted"
  /\ net' = (net \ {q}) \cup {[q EXCEPT !.status = Status(q)]}
  /\ UNCHANGED <<tab, local, account, live, events>>

Serve(q) == Admit(q) \/ ServeLogin(q) \/ ServeLogout(q) \/ ServeRoute(q)

\* The answer, or the request, is lost: fetch throws.
Lose(q) ==
  /\ q.status # "failed" /\ events < MaxEvents
  /\ events' = events + 1
  /\ net' = (net \ {q}) \cup {[q EXCEPT !.status = "failed"]}
  /\ UNCHANGED <<tab, local, account, live>>

\* The process restarts: sessions are in memory only, and nobody answers what its handlers
\* had begun.
Restart ==
  /\ events < MaxEvents /\ live # {}
  /\ events' = events + 1 /\ live' = {}
  /\ net' = {q \in net : q.status # "admitted"}
             \cup {[q EXCEPT !.status = "failed"] : q \in {r \in net : r.status = "admitted"}}
  /\ UNCHANGED <<tab, local, account>>

--------------------------------------------------------------------------------
(* Requests                                                                 *)

Request(t, kind, me) == [tab |-> t, kind |-> kind, me |-> me, status |-> "sent"]

\* Requests with a flag in the state of XN: logging in, loading keys, querying documents,
\* running SQL, compacting, restoring.
Flagged == {"login", "kv", "docs", "sql", "compact", "restore"}

LoggedIn(t) == tab[t].session.token # 0
Role(t) == tab[t].session.role

\* Ut, Kt, qt and Zt load nothing for a visitor; the role is that of their render.
Loads(t, kinds, me) == {Request(t, k, me) : k \in IF me.role = "visitor" THEN {} ELSE kinds}

\* The flags go up with the requests.
Send(t, requests) ==
  /\ net' = net \cup requests
  /\ tab' = [tab EXCEPT ![t].busy = @ \cup ({q.kind : q \in requests} \cap Flagged)]

\* The loads of the effect on page and token.
LoadsOf(page) ==
  CASE page = "kv" -> {"kv"}
    [] page = "docs" -> {"collections"}
    [] page = "sql" -> {"tables"}
    [] OTHER -> {}

Timers == {"metrics", "audit", "logs"}

\* Mutant of Polled: the audit feed is polled for everybody.
PolledAll(t) ==
  IF tab[t].page = "overview" THEN {"metrics", "audit"}
  ELSE IF tab[t].page = "logs" THEN {"logs"} ELSE {}

\* What the timers of a tab poll.
Polled(t) ==
  {k \in Timers :
     /\ LoggedIn(t)
     /\ k \in {"metrics", "audit"} <=> tab[t].page = "overview"
     /\ k = "logs" => tab[t].page = "logs"
     /\ k \in {"audit", "logs"} => Role(t) = "admin_proj"}

\* A timer fires, whether or not the last answer has come.
Poll(t, kind) ==
  /\ kind \in Polled(t)
  /\ Cardinality({q \in net : q.tab = t /\ q.kind \in Timers}) < MaxPolls
  /\ Send(t, {Request(t, kind, tab[t].session)})
  /\ UNCHANGED <<local, account, live, events>>

--------------------------------------------------------------------------------
(* The user                                                                 *)

\* The form to log in is there without a token, its button is disabled while it runs.
LogIn(t, u) ==
  /\ ~ LoggedIn(t) /\ "login" \notin tab[t].busy
  /\ Send(t, {Request(t, "login", [Nobody EXCEPT !.user = u])})

\* nn: only its answer clears the session.
LogOut(t) ==
  /\ LoggedIn(t)
  /\ Send(t, {Request(t, "logout", tab[t].session)})

\* The menu offers the logs to project admins, and nothing but the overview to visitors.
Offered(role) ==
  {"overview"} \cup (IF role = "visitor" THEN {} ELSE {"kv", "docs", "sql"})
               \cup (IF role = "admin_proj" THEN {"logs"} ELSE {})

Go(t, page) ==
  LET requests == Loads(t, LoadsOf(page), tab[t].session) IN
  /\ LoggedIn(t) /\ page \in Offered(Role(t)) \ {tab[t].page}
  /\ net' = net \cup requests
  /\ tab' = [tab EXCEPT ![t].page = page, ![t].busy = @ \cup ({q.kind : q \in requests} \cap Flagged)]

\* Typing a prefix sets a timer of 300 ms, which outlives the page and the session.
Search(t) ==
  /\ LoggedIn(t) /\ tab[t].page = "kv"
  /\ tab' = [tab EXCEPT ![t].search = tab[t].session]
  /\ UNCHANGED net

\* Wt, Gt, Jt, Yt and Xt refuse database users and visitors themselves.
MayWrite(role) == role \notin {"user_db", "visitor"}

\* What the handlers of a page send when a button is clicked.  A second run of SQL is
\* possible from the browser of tables (Qt), also while one is running.
Clicked(t) ==
  CASE tab[t].page = "kv" /\ MayWrite(Role(t)) -> {"writeKV"}
    [] tab[t].page = "docs" -> {"docs"} \cup IF MayWrite(Role(t)) THEN {"writeDoc"} ELSE {}
    [] tab[t].page = "sql" -> {"sql"}
    [] tab[t].page = "overview" /\ Role(t) = "admin_proj" -> {"compact", "restore"} \ tab[t].busy
    [] OTHER -> {}

Click(t, kind) ==
  /\ LoggedIn(t) /\ kind \in Clicked(t)
  /\ Send(t, {Request(t, kind, tab[t].session)})

\* A reload aborts the requests of the tab.
Reload(t) ==
  /\ tab' = [tab EXCEPT ![t] = Fresh]
  /\ net' = {q \in net : q.tab # t}

UserAct(t) ==
  /\ events < MaxEvents /\ events' = events + 1
  /\ \/ \E u \in Accounts : LogIn(t, u)
     \/ LogOut(t)
     \/ \E page \in {"overview", "kv", "docs", "sql", "logs"} : Go(t, page)
     \/ Search(t)
     \/ \E kind \in Writes \cup {"docs", "sql", "compact", "restore"} : Click(t, kind)
     \/ Reload(t)
  /\ UNCHANGED <<local, account, live>>

SearchTimer(t) ==
  /\ tab[t].search # None
  /\ LET requests == Loads(t, {"kv"}, tab[t].search) IN
       /\ net' = net \cup requests
       /\ tab' = [tab EXCEPT ![t].search = None, ![t].busy = @ \cup {q.kind : q \in requests}]
  /\ UNCHANGED <<local, account, live, events>>

--------------------------------------------------------------------------------
(* Answers                                                                  *)

\* Mutant of Idle: the flag goes down when all went well only.
IdleIfOk(q) == IF q.status = "ok" THEN tab[q.tab].busy \ {q.kind} ELSE tab[q.tab].busy

\* finally: the flag goes down with every answer.
Idle(q) == tab[q.tab].busy \ {q.kind}

ReceiveLogin(q) ==
  /\ q.kind = "login" /\ q.status \in {"ok", "failed"}
  /\ net' = net \ {q}
  /\ IF q.status = "ok"
     THEN /\ tab' = [tab EXCEPT ![q.tab] = [@ EXCEPT !.session = q.me, !.page = "overview", !.busy = Idle(q)]]
          /\ local' = q.me
     ELSE /\ tab' = [tab EXCEPT ![q.tab].busy = Idle(q)]
          /\ UNCHANGED local
  /\ UNCHANGED <<account, live, events>>

\* Mutant of LoggedOut: the role stays in localStorage.
LoggedOutNoRole == [Nobody EXCEPT !.role = local.role]

\* nn clears its keys of localStorage whatever the answer was.
LoggedOut == Nobody

\* The end of nn, in whatever session the tab is by now.
ReceiveLogout(q) ==
  /\ q.kind \in {"logout", "expired"} /\ q.status \notin {"sent", "admitted"}
  /\ net' = net \ {q}
  /\ tab' = [tab EXCEPT ![q.tab].session = Nobody]
  /\ local' = LoggedOut
  /\ UNCHANGED <<account, live, events>>

\* Mutant of Expired: a 401 is taken for an error like any other.
ExpiredNever(q) == FALSE

\* Ht calls nn on 401; logging in and restoring use fetch itself.
Expired(q) == q.status = "401" /\ q.me.token # 0 /\ q.kind # "restore"

\* What an answer makes its handler send.  A write loads the page again; the first list
\* of collections selects one, whose documents the tab then loads.
FollowUps(q) ==
  CASE Expired(q) -> {{Request(q.tab, "expired", q.me)}}
    [] q.kind = "writeKV" /\ q.status = "ok" -> {Loads(q.tab, {"kv"}, q.me)}
    [] q.kind = "writeDoc" /\ q.status = "ok" -> {Loads(q.tab, {k}, q.me) : k \in {"docs", "collections"}}
    [] q.kind = "collections" /\ q.status = "ok" -> {{}, Loads(q.tab, {"docs"}, tab[q.tab].session)}
    [] OTHER -> {{}}

Receive(q) ==
  /\ q.kind \notin {"login", "logout", "expired"} /\ q.status \notin {"sent", "admitted"}
  /\ \E next \in FollowUps(q) :
       /\ net' = (net \ {q}) \cup next
       /\ tab' = [tab EXCEPT ![q.tab].busy = Idle(q) \cup ({r.kind : r \in next} \cap Flagged)]
  /\ UNCHANGED <<local, account, live, events>>

Answer(q) == ReceiveLogin(q) \/ ReceiveLogout(q) \/ Receive(q)

--------------------------------------------------------------------------------
Init ==
  /\ local = Nobody /\ tab = [t \in Tabs |-> Fresh]
  /\ account = <<>> /\ live = {} /\ net = {} /\ events = 0

Next ==
  \/ \E t \in Tabs : UserAct(t) \/ SearchTimer(t) \/ \E k \in Timers : Poll(t, k)
  \/ \E q \in net : Serve(q) \/ Answer(q) \/ Lose(q)
  \/ Restart

Spec == Init /\ [][Next]_vars

Polls(t) == {q \in net : q.tab = t /\ q.kind \in Timers}
Expiries(t) == {q \in net : q.tab = t /\ q.kind = "expired"}

\* Timers fire, and every request is answered or fails: said of what the property needs.
FairStep(t, a) ==
  \/ a = "poll" /\ \E k \in Timers : Poll(t, k)
  \/ a = "serve poll" /\ \E q \in Polls(t) : Serve(q)
  \/ a = "answer poll" /\ \E q \in Polls(t) : Answer(q)
  \/ a = "serve logout" /\ \E q \in Expiries(t) : Serve(q)
  \/ a = "answer logout" /\ \E q \in Expiries(t) : Answer(q)

FairSteps == {"poll", "serve poll", "answer poll", "serve logout", "answer logout"}
Fairness == \A t \in Tabs : \A a \in FairSteps : WF_vars(FairStep(t, a))

FairSpec == Spec /\ Fairness

--------------------------------------------------------------------------------
(* Properties                                                               *)

Kinds == Flagged \cup Writes \cup {"metrics", "audit", "logs", "collections", "tables", "logout", "expired"}

\* Sessions that were handed out, or none.
Sessions == {Nobody} \cup {Session(n, account[n]) : n \in Tokens}

TypeOK ==
  /\ account \in Seq(Accounts) /\ live \subseteq Tokens
  /\ \A t \in Tabs :
       /\ tab[t].page \in {"overview", "kv", "docs", "sql", "logs"}
       /\ tab[t].busy \subseteq Flagged
       /\ tab[t].search \in Sessions \cup {None}
  /\ \A q \in net : q.tab \in Tabs /\ q.kind \in Kinds
                       /\ q.status \in {"sent", "admitted", "ok", "401", "403", "failed"}

\* The token, the role and the name that a tab shows, and those in localStorage, are of
\* one login or of none: they are three keys and three states, written by tabs that know
\* nothing of each other (tn, nn and the initial state of XN).
SessionIsOneLogin == local \in Sessions /\ \A t \in Tabs : tab[t].session \in Sessions

\* The role checks of the console are those of the server: whatever the session was when
\* a timer was set or a handler created, an admin or a database user is answered 403 only
\* on an audit poll whose session ended after authMiddleware had let it pass.  (A user may
\* type any SQL; which statements pass is not part of this.)
ForbiddenMeansOver == \A q \in net : q.status = "403" => q.kind = "audit" /\ Gone(q)

\* A tab that shows a spinner, or a disabled button, waits for an answer, through lost
\* requests, expired sessions and logouts (the finally clauses of the handlers).
SpinnerHasRequest ==
  \A t \in Tabs : \A b \in tab[t].busy : \E q \in net : q.tab = t /\ q.kind = b

\* A tab on the overview with a session that the server has forgotten, after a restart
\* or because another tab has logged out, finds out (the polls of XN, Ht).
Dead(t) == LoggedIn(t) /\ tab[t].session.token \notin live

DeadSessionNoticed ==
  \A t \in Tabs : tab[t].page = "overview" /\ Dead(t) ~> tab[t].page # "overview" \/ ~ Dead(t)

--------------------------------------------------------------------------------
(* What the console says and does not keep.                                 *)

\* The console asks for nothing that is answered 403.  An audit poll may be, when another
\* tab logs out between authMiddleware and handleGetAuditLogs, which does not answer 401.
NeverForbidden == \A q \in net : q.status # "403"

\* "Session expired. Please log in again.": a tab that drops its session after a 401 had
\* one that expired.  The answer may be to a session before it.
ExpiredSessionIsDead ==
  [][\A q \in net : q.kind = "expired" /\ ReceiveLogout(q) =>
       tab[q.tab].session.token \notin live]_vars

\* A session that is dropped from localStorage is the one of the tab that drops it: tabs
\* log each other out.
DropsOwnSession ==
  [][\A q \in net : ReceiveLogout(q) => local.token \in {0, q.me.token}]_vars
================================================================================
