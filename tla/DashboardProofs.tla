----------------------------- MODULE DashboardProofs -----------------------------
(***************************************************************************)
(* Proofs about Dashboard, for any number of tabs, accounts and sessions   *)
(* and without bound on the users: what a tab shows is one login, and a    *)
(* request whose session lasts is not forbidden.                           *)
(***************************************************************************)
EXTENDS Dashboard, TLAPS

\* No account is a visitor's.  handleCreateUser takes any role: such an account would be
\* refused the metrics that its console polls.
NoVisitors == DashboardAssumption /\ \A u \in Accounts : RoleOf[u] # "visitor"

Members == {"admin_proj", "admin_db", "user_db"}
Statuses == {"sent", "admitted", "ok", "401", "403", "failed"}
Pages == {"overview", "kv", "docs", "sql", "logs"}

Me == [token : Nat, role : Members \cup {"visitor"}, user : Accounts \cup {None}]
RequestSet == [tab : Tabs, kind : Kinds, me : Me, status : Statuses]
Document == [session : Me, page : Pages, busy : SUBSET Flagged, search : Me \cup {None}]

SoundTab(d) ==
  d \in Document /\ d.session \in Sessions /\ d.search \in Sessions \cup {None}

\* A request goes out in a session that may make it; a login in none.
SoundRequest(q) ==
  /\ q \in RequestSet /\ (q.status = "403" => q.kind = "audit" /\ Gone(q))
  /\ q.kind = "login" => q.me.user \in Accounts
  /\ (q.kind = "login" /\ q.status # "ok") \/ q.me \in Sessions
  /\ q.kind \in {"login", "logout", "expired"} \/ Permitted(q.kind, q.me.role)

IInv ==
  /\ account \in Seq(Accounts) /\ live \subseteq Tokens
  /\ local \in Sessions
  /\ tab \in [Tabs -> Document] /\ \A t \in Tabs : SoundTab(tab[t])
  /\ \A q \in net : SoundRequest(q)

--------------------------------------------------------------------------------
(* Sessions                                                                 *)

LEMMA SessionsAreMe ==
  ASSUME NoVisitors, account \in Seq(Accounts)
  PROVE  /\ Nobody \in Me /\ Sessions \subseteq Me
         /\ \A s \in Sessions : s = Nobody \/ s.role \in Members
<1>1. Nobody \in Me
  BY DEF Nobody, Me
<1>2. ASSUME NEW n \in Tokens
      PROVE  Session(n, account[n]) \in Me /\ Session(n, account[n]).role \in Members
  <2>1. n \in Nat /\ account[n] \in Accounts
    BY <1>2 DEF Tokens
  <2>2. RoleOf[account[n]] \in Members
    BY <2>1 DEF NoVisitors, DashboardAssumption, Members
  <2> QED BY <2>1, <2>2 DEF Session, Me
<1> QED BY <1>1, <1>2 DEF Sessions

\* Who has a token has a role.
LEMMA MemberOf ==
  ASSUME NoVisitors, account \in Seq(Accounts), NEW s \in Sessions,
         s.token # 0 \/ s.role # "visitor"
  PROVE  s.role \in Members
BY SessionsAreMe DEF Nobody

\* The server gives a token the role that its session shows.
LEMMA RoleOfToken ==
  ASSUME NEW s \in Sessions, s.token \in Tokens
  PROVE  s.role = RoleOf[account[s.token]]
<1>1. s # Nobody
  BY DEF Nobody, Tokens
<1>2. PICK n \in Tokens : s = Session(n, account[n])
  BY <1>1 DEF Sessions
<1> QED BY <1>2 DEF Session

--------------------------------------------------------------------------------
(* Requests                                                                 *)

LoadKinds == {"kv", "collections", "docs", "tables"}

LEMMA RequestIsSound ==
  ASSUME NoVisitors, IInv, NEW t \in Tabs, NEW kind \in Kinds \ {"login"}, NEW me \in Sessions,
         kind \in {"logout", "expired"} \/ Permitted(kind, me.role)
  PROVE  SoundRequest(Request(t, kind, me))
<1>1. me \in Me
  BY SessionsAreMe DEF IInv
<1> QED BY <1>1 DEF SoundRequest, Request, RequestSet, Statuses

LEMMA LoadsAreSound ==
  ASSUME NoVisitors, IInv, NEW t \in Tabs, NEW kinds \in SUBSET LoadKinds, NEW me \in Sessions,
         NEW q \in Loads(t, kinds, me)
  PROVE  SoundRequest(q)
<1>1. me.role # "visitor" /\ \E k \in kinds : q = Request(t, k, me)
  <2>1. me.role # "visitor"
    BY DEF Loads
  <2> QED BY <2>1 DEF Loads
<1>2. PICK k \in kinds : q = Request(t, k, me)
  BY <1>1
<1>3. me.role \in Members
  BY <1>1, MemberOf DEF IInv
<1>4. k \in Kinds \ {"login"} /\ Permitted(k, me.role)
  BY <1>3 DEF LoadKinds, Kinds, Flagged, Permitted, Allowed, Members, Writes
<1> QED BY <1>2, <1>4, RequestIsSound

--------------------------------------------------------------------------------
(* Steps                                                                    *)

\* A step that leaves the sessions of the server as they are, or ends some.
LEMMA StepOf ==
  ASSUME IInv, account' = account, live' \subseteq live, local' \in Sessions,
         NEW new, net' \subseteq net \cup new, \A q \in new : SoundRequest(q),
         tab' \in [Tabs -> Document], \A t \in Tabs : SoundTab(tab'[t])
  PROVE  IInv'
<1>1. Tokens' = Tokens /\ Sessions' = Sessions /\ \A q : Gone(q) => Gone(q)'
  BY DEF Tokens, Sessions, Gone
<1>2. \A q : SoundRequest(q) => SoundRequest(q)'
  BY <1>1 DEF SoundRequest
<1> QED BY <1>1, <1>2 DEF IInv, SoundTab

\* A step that gives one tab a sound document.
LEMMA TabStepOf ==
  ASSUME IInv, account' = account, live' \subseteq live, local' \in Sessions,
         NEW new, net' \subseteq net \cup new, \A q \in new : SoundRequest(q),
         NEW t, NEW d, tab' = [tab EXCEPT ![t] = d], t \in Tabs => SoundTab(d)
  PROVE  IInv'
<1>1. \A u \in Tabs : tab'[u] = IF u = t THEN d ELSE tab[u]
  BY DEF IInv
<1>2. \A u \in Tabs : SoundTab(tab'[u])
  BY <1>1 DEF IInv
<1>3. tab' \in [Tabs -> Document]
  BY <1>2, <1>1 DEF IInv, SoundTab
<1> QED BY <1>2, <1>3, StepOf

LEMMA QuietStepOf ==
  ASSUME IInv, account' = account, live' \subseteq live, local' \in Sessions, net' \subseteq net,
         NEW t, NEW d, tab' = [tab EXCEPT ![t] = d], t \in Tabs => SoundTab(d)
  PROVE  IInv'
<1>1. PICK new : new = {}
  OBVIOUS
<1>2. net' \subseteq net \cup new /\ \A q \in new : SoundRequest(q)
  BY <1>1
<1> QED BY <1>2, TabStepOf

\* A step of the network: the tabs see nothing of it.
LEMMA NetStepOf ==
  ASSUME IInv, account' = account, live' \subseteq live, local' = local, tab' = tab,
         NEW q, NEW r, SoundRequest(r), net' = (net \ {q}) \cup {r}
  PROVE  IInv'
<1>1. net' \subseteq net \cup {r} /\ \A x \in {r} : SoundRequest(x)
  OBVIOUS
<1> QED BY <1>1, StepOf DEF IInv

\* Flags and page matter to no session.
LEMMA Relabelled ==
  ASSUME NEW d, SoundTab(d), NEW b \in SUBSET Flagged, NEW p \in Pages,
         NEW s \in Sessions \cap Me, NEW w \in (Sessions \cap Me) \cup {None}
  PROVE  /\ SoundTab([d EXCEPT !.busy = b])
         /\ SoundTab([d EXCEPT !.session = s])
         /\ SoundTab([d EXCEPT !.search = w])
         /\ SoundTab([[d EXCEPT !.page = p] EXCEPT !.busy = b])
         /\ SoundTab([[d EXCEPT !.search = w] EXCEPT !.busy = b])
         /\ SoundTab([[[d EXCEPT !.session = s] EXCEPT !.page = p] EXCEPT !.busy = b])
<1>1. ASSUME NEW x, SoundTab(x)
      PROVE  /\ SoundTab([x EXCEPT !.busy = b]) /\ SoundTab([x EXCEPT !.page = p])
             /\ SoundTab([x EXCEPT !.session = s]) /\ SoundTab([x EXCEPT !.search = w])
  BY <1>1 DEF SoundTab, Document
<1> QED BY <1>1

--------------------------------------------------------------------------------
(* The server                                                               *)

LEMMA ServeLoginStep ==
  ASSUME NoVisitors, IInv, NEW q \in net, ServeLogin(q)
  PROVE  IInv'
<1> PICK n : n = Len(account')
  OBVIOUS
<1> PICK r : r = [q EXCEPT !.status = "ok", !.me = Session(n, q.me.user)]
  OBVIOUS
<1>1. SoundRequest(q) /\ q \in RequestSet /\ q.kind = "login" /\ q.me.user \in Accounts
  BY DEF IInv, ServeLogin, SoundRequest
<1>2. /\ account' = Append(account, q.me.user) /\ account \in Seq(Accounts)
      /\ tab' = tab /\ local' = local /\ live' = live \cup {n} /\ net' = (net \ {q}) \cup {r}
  BY DEF ServeLogin, IInv
<1>3. /\ account' \in Seq(Accounts) /\ n = Len(account) + 1 /\ account'[n] = q.me.user
      /\ \A m \in Tokens : m \in Tokens' /\ account'[m] = account[m]
      /\ n \in Tokens'
  BY <1>1, <1>2 DEF Tokens
<1>4. Sessions \subseteq Sessions'
  BY <1>3 DEF Sessions
<1>5. Session(n, q.me.user) \in Sessions'
  BY <1>3 DEF Sessions
<1>6. Session(n, q.me.user) \in Me
  <2>1. RoleOf[q.me.user] \in Members /\ n \in Nat
    BY <1>1, <1>3 DEF NoVisitors, DashboardAssumption, Members, Tokens
  <2> QED BY <1>1, <2>1 DEF Session, Me
<1>7. /\ r \in RequestSet /\ r.status = "ok" /\ r.me = Session(n, q.me.user)
      /\ r.kind = "login" /\ r.me.user \in Accounts
  BY <1>1, <1>6 DEF RequestSet, Statuses, Session
<1>8. SoundRequest(r)'
  BY <1>5, <1>7 DEF SoundRequest
<1>9. \A x \in net : SoundRequest(x)'
  <2>1. ASSUME NEW x \in net, x.status = "403" PROVE x.kind = "audit" /\ x.me.token # n /\ Gone(x)
    <3>1. x.kind = "audit" /\ Gone(x) /\ x.me \in Sessions
      BY <2>1 DEF IInv, SoundRequest
    <3>2. x.me.token \in Tokens \cup {0}
      BY <3>1 DEF Sessions, Session, Nobody
    <3>3. n \notin Tokens \cup {0}
      BY <1>2, <1>3 DEF Tokens
    <3> QED BY <3>1, <3>2, <3>3
  <2>2. \A x \in net : x.status = "403" => x.kind = "audit" /\ Gone(x)'
    BY <1>2, <2>1 DEF Gone
  <2> QED BY <1>4, <2>2 DEF IInv, SoundRequest
<1>10. \A t \in Tabs : SoundTab(tab[t])'
  BY <1>2, <1>4 DEF IInv, SoundTab
<1>11. live' \subseteq Tokens'
  BY <1>2, <1>3 DEF IInv
<1> QED BY <1>2, <1>3, <1>4, <1>8, <1>9, <1>10, <1>11 DEF IInv

\* An answer keeps the request; a 403 ends a poll of the audit log.
LEMMA AnsweredIsSound ==
  ASSUME NEW q, SoundRequest(q), q.kind # "login", NEW s \in Statuses,
         s = "403" => q.kind = "audit" /\ Gone(q)
  PROVE  SoundRequest([q EXCEPT !.status = s])
BY DEF SoundRequest, RequestSet, Gone

LEMMA AdmitStep ==
  ASSUME NoVisitors, IInv, NEW q \in net, Admit(q)
  PROVE  IInv'
<1>1. PICK s \in {"401", "admitted"} :
        /\ account' = account /\ live' \subseteq live /\ local' = local /\ tab' = tab
        /\ net' = (net \ {q}) \cup {[q EXCEPT !.status = s]}
  BY DEF Admit
<1>2. SoundRequest([q EXCEPT !.status = s])
  BY AnsweredIsSound DEF IInv, Admit, Statuses
<1> QED BY <1>1, <1>2, NetStepOf

LEMMA ServeLogoutStep ==
  ASSUME NoVisitors, IInv, NEW q \in net, ServeLogout(q)
  PROVE  IInv'
<1>1. SoundRequest([q EXCEPT !.status = "ok"])
  BY AnsweredIsSound DEF IInv, ServeLogout, Statuses
<1>2. /\ account' = account /\ live' \subseteq live /\ local' = local /\ tab' = tab
      /\ net' = (net \ {q}) \cup {[q EXCEPT !.status = "ok"]}
  BY DEF ServeLogout
<1> QED BY <1>1, <1>2, NetStepOf

\* The server asks for the role that the console has checked.
LEMMA ServeRouteStep ==
  ASSUME NoVisitors, IInv, NEW q \in net, ServeRoute(q)
  PROVE  IInv'
<1>1. /\ SoundRequest(q) /\ q.kind # "login" /\ q.me \in Sessions
      /\ Permitted(q.kind, q.me.role)
  BY DEF IInv, ServeRoute, SoundRequest
<1>2. ~ Gone(q) => q.me.role = RoleOf[account[q.me.token]]
  BY <1>1, RoleOfToken DEF IInv, Gone
<1>3. Status(q) \in {"ok", "401"} \/ (Status(q) = "403" /\ q.kind = "audit" /\ Gone(q))
  BY <1>1, <1>2 DEF Status
<1>4. SoundRequest([q EXCEPT !.status = Status(q)])
  BY <1>1, <1>3, AnsweredIsSound DEF Statuses
<1>5. /\ account' = account /\ live' = live /\ local' = local /\ tab' = tab
      /\ net' = (net \ {q}) \cup {[q EXCEPT !.status = Status(q)]}
  BY DEF ServeRoute
<1> QED BY <1>4, <1>5, NetStepOf

LEMMA LoseStep ==
  ASSUME NoVisitors, IInv, NEW q \in net, Lose(q)
  PROVE  IInv'
<1>1. SoundRequest([q EXCEPT !.status = "failed"])
  BY DEF IInv, SoundRequest, RequestSet, Statuses
<1>2. /\ account' = account /\ live' = live /\ local' = local /\ tab' = tab
      /\ net' = (net \ {q}) \cup {[q EXCEPT !.status = "failed"]}
  BY DEF Lose
<1> QED BY <1>1, <1>2, NetStepOf

LEMMA RestartStep == IInv /\ Restart => IInv'
<1>1. SUFFICES ASSUME IInv, Restart PROVE IInv'
  OBVIOUS
<1> DEFINE lost == {[q EXCEPT !.status = "failed"] : q \in {r \in net : r.status = "admitted"}}
<1>2. ASSUME NEW q \in net
      PROVE  SoundRequest([q EXCEPT !.status = "failed"])
  BY <1>1 DEF IInv, SoundRequest, RequestSet, Statuses
<1>3. \A r \in lost : SoundRequest(r)
  BY <1>2
<1>4. /\ account' = account /\ live' \subseteq live /\ local' = local /\ tab' = tab
      /\ net' \subseteq net \cup lost
  BY <1>1 DEF Restart
<1> HIDE DEF lost
<1> QED BY <1>1, <1>3, <1>4, StepOf DEF IInv

--------------------------------------------------------------------------------
(* The tabs                                                                 *)

\* A tab sends requests and shows flags for them.
LEMMA SendStep ==
  ASSUME NoVisitors, IInv, NEW t \in Tabs, NEW requests, Send(t, requests),
         \A q \in requests : SoundRequest(q),
         account' = account, live' = live, local' = local
  PROVE  IInv'
<1> DEFINE b == tab[t].busy \cup ({q.kind : q \in requests} \cap Flagged)
           d == [tab[t] EXCEPT !.busy = b]
<1>1. SoundTab(tab[t]) /\ b \in SUBSET Flagged
  BY DEF IInv, SoundTab, Document
<1>2. SoundTab(d)
  BY <1>1 DEF SoundTab, Document
<1>3. tab' = [tab EXCEPT ![t] = d] /\ net' = net \cup requests
  BY DEF Send
<1>4. local' \in Sessions
  BY DEF IInv
<1> HIDE DEF d
<1> QED BY <1>2, <1>3, <1>4, TabStepOf

LEMMA PollStep ==
  ASSUME NoVisitors, IInv, NEW t \in Tabs, NEW kind, Poll(t, kind)
  PROVE  IInv'
<1>1. tab[t].session \in Sessions /\ tab[t].session.token # 0 /\ kind \in Timers
  BY DEF IInv, SoundTab, Poll, Polled, LoggedIn
<1>2. tab[t].session.role \in Members
  BY <1>1, MemberOf DEF IInv
<1>3. kind \in {"audit", "logs"} => tab[t].session.role = "admin_proj"
  BY DEF Poll, Polled, Role
<1>4. kind \in Kinds \ {"login"} /\ Permitted(kind, tab[t].session.role)
  BY <1>1, <1>2, <1>3 DEF Timers, Kinds, Flagged, Permitted, Allowed, Members, Writes
<1>5. SoundRequest(Request(t, kind, tab[t].session))
  BY <1>1, <1>4, RequestIsSound
<1> QED BY <1>5, SendStep DEF Poll

LEMMA LogInStep ==
  ASSUME NoVisitors, IInv, NEW t \in Tabs, NEW u \in Accounts, LogIn(t, u),
         account' = account, live' = live, local' = local
  PROVE  IInv'
<1> DEFINE me == [Nobody EXCEPT !.user = u]
<1>1. me \in Me /\ me.user = u
  BY DEF Me, Nobody
<1> HIDE DEF me
<1>2. SoundRequest(Request(t, "login", me))
  BY <1>1 DEF SoundRequest, Request, RequestSet, Statuses, Kinds, Flagged
<1> QED BY <1>2, SendStep DEF LogIn, me

LEMMA LogOutStep ==
  ASSUME NoVisitors, IInv, NEW t \in Tabs, LogOut(t),
         account' = account, live' = live, local' = local
  PROVE  IInv'
<1>1. tab[t].session \in Sessions
  BY DEF IInv, SoundTab
<1>2. SoundRequest(Request(t, "logout", tab[t].session))
  BY <1>1, RequestIsSound DEF Kinds
<1> QED BY <1>2, SendStep DEF LogOut

LEMMA GoStep ==
  ASSUME NoVisitors, IInv, NEW t \in Tabs, NEW page \in Pages, Go(t, page),
         account' = account, live' = live, local' = local
  PROVE  IInv'
<1> DEFINE requests == Loads(t, LoadsOf(page), tab[t].session)
           b == tab[t].busy \cup ({q.kind : q \in requests} \cap Flagged)
           d == [[tab[t] EXCEPT !.page = page] EXCEPT !.busy = b]
<1>1. SoundTab(tab[t]) /\ b \in SUBSET Flagged
  BY DEF IInv, SoundTab, Document
<1>2. LoadsOf(page) \in SUBSET LoadKinds
  BY DEF LoadsOf, LoadKinds
<1>3. \A q \in requests : SoundRequest(q)
  BY <1>1, <1>2, LoadsAreSound DEF SoundTab
<1>4. tab' = [tab EXCEPT ![t] = d] /\ net' = net \cup requests
  BY DEF Go, IInv
<1> HIDE DEF b, requests
<1>5. SoundTab(d)
  BY <1>1, Relabelled DEF SoundTab, Document
<1>6. local' \in Sessions
  BY DEF IInv
<1> HIDE DEF d
<1> QED BY <1>3, <1>4, <1>5, <1>6, TabStepOf

LEMMA ClickStep ==
  ASSUME NoVisitors, IInv, NEW t \in Tabs, NEW kind, Click(t, kind),
         account' = account, live' = live, local' = local
  PROVE  IInv'
<1> DEFINE s == tab[t].session
<1>1. s \in Sessions /\ s.token # 0
  BY DEF IInv, SoundTab, Click, LoggedIn
<1>2. s.role \in Members
  BY <1>1, MemberOf DEF IInv
<1>3. /\ kind \in Writes \cup {"docs", "sql", "compact", "restore"}
      /\ kind \in Writes => s.role \in {"admin_proj", "admin_db"}
      /\ kind \in {"compact", "restore"} => s.role = "admin_proj"
  BY <1>2 DEF Click, Clicked, MayWrite, Role, Members, Writes
<1>4. kind \in Kinds \ {"login"} /\ Permitted(kind, s.role)
  BY <1>2, <1>3 DEF Writes, Kinds, Flagged, Permitted, Allowed, Members
<1>5. SoundRequest(Request(t, kind, s))
  BY <1>1, <1>4, RequestIsSound
<1> QED BY <1>5, SendStep DEF Click

LEMMA SearchStep ==
  ASSUME NoVisitors, IInv, NEW t \in Tabs, Search(t),
         account' = account, live' = live, local' = local
  PROVE  IInv'
<1> DEFINE d == [tab[t] EXCEPT !.search = tab[t].session]
<1>1. SoundTab(tab[t])
  BY DEF IInv
<1>2. SoundTab(d)
  BY <1>1 DEF SoundTab, Document
<1>3. tab' = [tab EXCEPT ![t] = d] /\ net' = net /\ local' \in Sessions
  BY DEF Search, IInv
<1> HIDE DEF d
<1> QED BY <1>2, <1>3, QuietStepOf

LEMMA ReloadStep ==
  ASSUME NoVisitors, IInv, NEW t \in Tabs, Reload(t),
         account' = account, live' = live, local' = local
  PROVE  IInv'
<1>1. local \in Sessions /\ local \in Me
  BY SessionsAreMe DEF IInv
<1>2. SoundTab(Fresh)
  BY <1>1 DEF SoundTab, Document, Fresh, Pages
<1>3. net' \subseteq net /\ tab' = [tab EXCEPT ![t] = Fresh]
  BY DEF Reload
<1> QED BY <1>1, <1>2, <1>3, QuietStepOf

LEMMA SearchTimerStep ==
  ASSUME NoVisitors, IInv, NEW t \in Tabs, SearchTimer(t)
  PROVE  IInv'
<1> DEFINE requests == Loads(t, {"kv"}, tab[t].search)
           b == tab[t].busy \cup {q.kind : q \in requests}
           d == [[tab[t] EXCEPT !.search = None] EXCEPT !.busy = b]
<1>1. SoundTab(tab[t]) /\ tab[t].search \in Sessions
  BY DEF IInv, SoundTab, SearchTimer
<1>2. \A q \in requests : SoundRequest(q)
  BY <1>1, LoadsAreSound DEF LoadKinds
<1>3. b \in SUBSET Flagged
  BY <1>1 DEF Loads, Request, Flagged, SoundTab, Document
<1>4. tab' = [tab EXCEPT ![t] = d] /\ net' = net \cup requests
  BY DEF SearchTimer, IInv
<1>5. account' = account /\ live' = live /\ local' \in Sessions
  BY DEF SearchTimer, IInv
<1> HIDE DEF b, requests
<1>6. SoundTab(d)
  BY <1>1, <1>3 DEF SoundTab, Document
<1> HIDE DEF d
<1> QED BY <1>2, <1>4, <1>5, <1>6, TabStepOf

LEMMA UserStep ==
  ASSUME NoVisitors, IInv, NEW t \in Tabs, UserAct(t)
  PROVE  IInv'
<1>1. account' = account /\ live' = live /\ local' = local
  BY DEF UserAct
<1> QED BY <1>1, LogInStep, LogOutStep, GoStep, SearchStep, ClickStep, ReloadStep DEF UserAct, Pages

--------------------------------------------------------------------------------
(* Answers                                                                  *)

LEMMA ReceiveLoginStep ==
  ASSUME NoVisitors, IInv, NEW q \in net, ReceiveLogin(q)
  PROVE  IInv'
<1> DEFINE t == q.tab
           b == tab[t].busy \ {q.kind}
<1>1. t \in Tabs /\ SoundTab(tab[t]) /\ b \in SUBSET Flagged
  BY DEF IInv, SoundRequest, RequestSet, SoundTab, Document
<1>2. account' = account /\ live' = live /\ net' \subseteq net
  BY DEF ReceiveLogin
<1>3. CASE q.status = "ok"
  <2> DEFINE d == [[[tab[t] EXCEPT !.session = q.me] EXCEPT !.page = "overview"] EXCEPT !.busy = b]
  <2>1. q.me \in Sessions /\ q.me \in Me
    BY <1>3 DEF IInv, SoundRequest, RequestSet
  <2>2. tab' = [tab EXCEPT ![t] = d] /\ local' = q.me
    BY <1>3 DEF ReceiveLogin, Idle
  <2> HIDE DEF b, t
  <2>3. SoundTab(d)
    BY <1>1, <2>1 DEF SoundTab, Document, Pages
  <2> HIDE DEF d
  <2> QED BY <1>2, <2>1, <2>2, <2>3, QuietStepOf
<1>4. CASE q.status # "ok"
  <2> DEFINE d == [tab[t] EXCEPT !.busy = b]
  <2>1. tab' = [tab EXCEPT ![t] = d] /\ local' \in Sessions
    BY <1>4 DEF ReceiveLogin, Idle, IInv
  <2> HIDE DEF b, t
  <2>2. SoundTab(d)
    BY <1>1 DEF SoundTab, Document
  <2> HIDE DEF d
  <2> QED BY <1>2, <2>1, <2>2, QuietStepOf
<1> QED BY <1>3, <1>4

LEMMA ReceiveLogoutStep ==
  ASSUME NoVisitors, IInv, NEW q \in net, ReceiveLogout(q)
  PROVE  IInv'
<1> DEFINE d == [tab[q.tab] EXCEPT !.session = Nobody]
<1>1. q.tab \in Tabs /\ SoundTab(tab[q.tab])
  BY DEF IInv, SoundRequest, RequestSet
<1>2. Nobody \in Sessions /\ Nobody \in Me
  BY SessionsAreMe DEF Sessions, IInv
<1>3. SoundTab(d)
  BY <1>1, <1>2 DEF SoundTab, Document
<1>4. /\ account' = account /\ live' = live /\ net' \subseteq net
      /\ local' = Nobody /\ tab' = [tab EXCEPT ![q.tab] = d]
  BY DEF ReceiveLogout, LoggedOut
<1> HIDE DEF d
<1> QED BY <1>2, <1>3, <1>4, QuietStepOf

\* What an answer makes its handler send is allowed as well.
LEMMA FollowUpsAreSound ==
  ASSUME NoVisitors, IInv, NEW q \in net, q.kind # "login", NEW next \in FollowUps(q),
         NEW r \in next
  PROVE  SoundRequest(r)
<1>1. SoundRequest(q) /\ q.me \in Sessions /\ q.tab \in Tabs
  BY DEF IInv, SoundRequest, RequestSet
<1>2. tab[q.tab].session \in Sessions
  BY <1>1 DEF IInv, SoundTab
<1>3. \/ r = Request(q.tab, "expired", q.me)
      \/ r \in Loads(q.tab, {"kv"}, q.me)
      \/ \E k \in {"docs", "collections"} : r \in Loads(q.tab, {k}, q.me)
      \/ r \in Loads(q.tab, {"docs"}, tab[q.tab].session)
  BY DEF FollowUps
<1>4. SoundRequest(Request(q.tab, "expired", q.me))
  BY <1>1, RequestIsSound DEF Kinds
<1> QED BY <1>1, <1>2, <1>3, <1>4, LoadsAreSound DEF LoadKinds

LEMMA ReceiveStep ==
  ASSUME NoVisitors, IInv, NEW q \in net, Receive(q)
  PROVE  IInv'
<1>1. q.tab \in Tabs /\ SoundTab(tab[q.tab])
  BY DEF IInv, SoundRequest, RequestSet
<1>2. PICK next \in FollowUps(q) :
        /\ net' = (net \ {q}) \cup next
        /\ tab' = [tab EXCEPT ![q.tab].busy = Idle(q) \cup ({r.kind : r \in next} \cap Flagged)]
  BY DEF Receive
<1>3. \A r \in next : SoundRequest(r)
  BY FollowUpsAreSound DEF Receive
<1> DEFINE b == Idle(q) \cup ({r.kind : r \in next} \cap Flagged)
           d == [tab[q.tab] EXCEPT !.busy = b]
<1>4. b \in SUBSET Flagged
  BY <1>1 DEF Idle, SoundTab, Document
<1>5. tab' = [tab EXCEPT ![q.tab] = d]
  BY <1>2
<1> HIDE DEF b
<1>6. SoundTab(d)
  BY <1>1, <1>4 DEF SoundTab, Document
<1>7. account' = account /\ live' = live /\ local' \in Sessions
  BY DEF Receive, IInv
<1> HIDE DEF d
<1> QED BY <1>2, <1>3, <1>5, <1>6, <1>7, TabStepOf

--------------------------------------------------------------------------------
(* Theorems                                                                 *)

LEMMA InitIInv ==
  ASSUME NoVisitors, Init
  PROVE  IInv
<1>1. account \in Seq(Accounts) /\ Nobody \in Sessions
  BY DEF Init, Sessions
<1>2. Nobody \in Me
  BY <1>1, SessionsAreMe
<1>3. Fresh \in Document /\ SoundTab(Fresh)
  BY <1>1, <1>2 DEF Init, Fresh, SoundTab, Document, Pages
<1> QED BY <1>1, <1>3 DEF Init, IInv

LEMMA NextIInv ==
  ASSUME NoVisitors, IInv, [Next]_vars
  PROVE  IInv'
<1>1. CASE UNCHANGED vars
  BY <1>1 DEF vars, IInv, SoundTab, SoundRequest, Sessions, Tokens, Gone
<1>2. CASE \E t \in Tabs : UserAct(t) \/ SearchTimer(t) \/ \E k \in Timers : Poll(t, k)
  BY <1>2, UserStep, SearchTimerStep, PollStep
<1>3. CASE \E q \in net : Serve(q) \/ Answer(q) \/ Lose(q)
  BY <1>3, AdmitStep, ServeLoginStep, ServeLogoutStep, ServeRouteStep, LoseStep, ReceiveLoginStep,
     ReceiveLogoutStep, ReceiveStep DEF Serve, Answer
<1>4. CASE Restart
  BY <1>4, RestartStep
<1> QED BY <1>1, <1>2, <1>3, <1>4 DEF Next

\* Whatever tabs, timers and lost requests do, what is in flight and what is shown is of
\* sessions that were handed out (XN).
THEOREM DashboardInvariant ==
  ASSUME NoVisitors
  PROVE  Spec => []IInv
<1>1. Init => IInv
  BY InitIInv
<1>2. IInv /\ [Next]_vars => IInv'
  BY NextIInv
<1> QED BY <1>1, <1>2, PTL DEF Spec

\* Token, role and name are of one login, in every tab and in localStorage (tn, nn).
THEOREM SessionIsOneLoginHolds ==
  ASSUME NoVisitors
  PROVE  Spec => []SessionIsOneLogin
<1>1. IInv => SessionIsOneLogin
  BY DEF IInv, SoundTab, SessionIsOneLogin
<1> QED BY <1>1, DashboardInvariant, PTL

\* A console is forbidden nothing while its session lasts, whenever its timers and handlers
\* were created and whoever logs out between the two lookups of its session
\* (authMiddleware, checkRole, handleGetAuditLogs).
THEOREM ForbiddenMeansOverHolds ==
  ASSUME NoVisitors
  PROVE  Spec => []ForbiddenMeansOver
<1>1. IInv => ForbiddenMeansOver
  BY DEF IInv, SoundRequest, ForbiddenMeansOver
<1> QED BY <1>1, DashboardInvariant, PTL

--------------------------------------------------------------------------------
(* Spinners                                                                 *)

LEMMA RequestSays ==
  ASSUME NEW t, NEW kind, NEW me
  PROVE  Request(t, kind, me).tab = t /\ Request(t, kind, me).kind = kind
BY DEF Request

\* A tab sends requests: each flag that goes up has one.
LEMMA SendSpins ==
  ASSUME IInv, SpinnerHasRequest, NEW t \in Tabs, NEW requests,
         \A q \in requests : q.tab = t,
         net' = net \cup requests, tab' \in [Tabs -> Document],
         \A u \in Tabs \ {t} : tab'[u] = tab[u],
         tab'[t].busy \subseteq tab[t].busy \cup {q.kind : q \in requests}
  PROVE  SpinnerHasRequest'
BY DEF SpinnerHasRequest

LEMMA SendActSpins ==
  ASSUME IInv, SpinnerHasRequest, NEW t \in Tabs, NEW requests,
         \A q \in requests : q.tab = t, Send(t, requests)
  PROVE  SpinnerHasRequest'
<1>1. tab \in [Tabs -> Document] /\ tab[t] \in Document
  BY DEF IInv
<1>2. PICK b : b = tab[t].busy \cup ({q.kind : q \in requests} \cap Flagged)
  OBVIOUS
<1>3. tab' = [tab EXCEPT ![t].busy = b] /\ net' = net \cup requests
  BY <1>2 DEF Send
<1>4. b \in SUBSET Flagged
  BY <1>1, <1>2 DEF Document
<1>5. tab'[t].busy = b /\ tab' \in [Tabs -> Document] /\ \A u \in Tabs \ {t} : tab'[u] = tab[u]
  BY <1>1, <1>3, <1>4 DEF Document
<1> QED BY <1>2, <1>3, <1>5, SendSpins

LEMMA LoadsOfTab ==
  ASSUME NEW t, NEW kinds, NEW me
  PROVE  \A q \in Loads(t, kinds, me) : q.tab = t
BY RequestSays DEF Loads

LEMMA UserSpins ==
  ASSUME IInv, IInv', SpinnerHasRequest, NEW t \in Tabs, UserAct(t)
  PROVE  SpinnerHasRequest'
<1>0. tab \in [Tabs -> Document] /\ tab' \in [Tabs -> Document] /\ tab[t] \in Document
  BY DEF IInv
<1>1. ASSUME NEW kind, NEW me, Send(t, {Request(t, kind, me)}) PROVE SpinnerHasRequest'
  BY <1>1, SendActSpins, RequestSays
<1>2. ASSUME \/ \E u \in Accounts : LogIn(t, u)
             \/ LogOut(t)
             \/ \E kind \in Writes \cup {"docs", "sql", "compact", "restore"} : Click(t, kind)
      PROVE  SpinnerHasRequest'
  BY <1>1, <1>2 DEF LogIn, LogOut, Click
<1>3. ASSUME NEW page \in Pages, Go(t, page) PROVE SpinnerHasRequest'
  <2>1. PICK requests : requests = Loads(t, LoadsOf(page), tab[t].session)
    OBVIOUS
  <2>2. PICK b : b = tab[t].busy \cup ({q.kind : q \in requests} \cap Flagged)
    OBVIOUS
  <2>3. net' = net \cup requests /\ \A q \in requests : q.tab = t
    BY <1>3, <2>1, LoadsOfTab DEF Go
  <2>4. PICK d : d = [tab[t] EXCEPT !.page = page]
    OBVIOUS
  <2>5. d \in Document
    BY <1>0, <2>4 DEF Document
  <2>6. tab' = [tab EXCEPT ![t] = [d EXCEPT !.busy = b]]
    BY <1>0, <1>3, <2>1, <2>2, <2>4 DEF Go
  <2>7. tab'[t].busy = b /\ \A u \in Tabs \ {t} : tab'[u] = tab[u]
    BY <1>0, <2>5, <2>6 DEF Document
  <2> QED BY <1>0, <2>2, <2>3, <2>7, SendSpins
<1>4. CASE Search(t)
  <2>1. /\ net' = net /\ \A u \in Tabs \ {t} : tab'[u] = tab[u]
        /\ tab'[t].busy = tab[t].busy
    BY <1>0, <1>4 DEF Search, Document
  <2> QED BY <2>1 DEF SpinnerHasRequest
<1>5. CASE Reload(t)
  <2>1. /\ net' = {q \in net : q.tab # t} /\ \A u \in Tabs \ {t} : tab'[u] = tab[u]
        /\ tab'[t].busy = {}
    BY <1>0, <1>5 DEF Reload, Fresh
  <2> QED BY <2>1 DEF SpinnerHasRequest
<1> QED BY <1>2, <1>3, <1>4, <1>5 DEF UserAct, Pages

LEMMA TimersSpin ==
  ASSUME IInv, IInv', SpinnerHasRequest, NEW t \in Tabs, SearchTimer(t) \/ \E k \in Timers : Poll(t, k)
  PROVE  SpinnerHasRequest'
<1>0. tab \in [Tabs -> Document] /\ tab' \in [Tabs -> Document] /\ tab[t] \in Document
  BY DEF IInv
<1>1. ASSUME NEW k \in Timers, Poll(t, k) PROVE SpinnerHasRequest'
  BY <1>1, SendActSpins, RequestSays DEF Poll
<1>2. CASE SearchTimer(t)
  <2>1. PICK requests : requests = Loads(t, {"kv"}, tab[t].search)
    OBVIOUS
  <2>2. PICK b : b = tab[t].busy \cup {q.kind : q \in requests}
    OBVIOUS
  <2>3. net' = net \cup requests /\ \A q \in requests : q.tab = t
    BY <1>2, <2>1, LoadsOfTab DEF SearchTimer
  <2>4. PICK d : d = [tab[t] EXCEPT !.search = None]
    OBVIOUS
  <2>5. d \in Document
    BY <1>0, <2>4 DEF Document
  <2>6. tab' = [tab EXCEPT ![t] = [d EXCEPT !.busy = b]]
    BY <1>0, <1>2, <2>1, <2>2, <2>4 DEF SearchTimer
  <2>7. tab'[t].busy = b /\ \A u \in Tabs \ {t} : tab'[u] = tab[u]
    BY <1>0, <2>5, <2>6 DEF Document
  <2> QED BY <1>0, <2>2, <2>3, <2>7, SendSpins
<1> QED BY <1>1, <1>2

\* The server and the network change what a request says of its answer, and nothing else.
LEMMA NetSpins ==
  ASSUME IInv, SpinnerHasRequest, NEW q \in net, Serve(q) \/ Lose(q)
  PROVE  SpinnerHasRequest'
<1>0. q \in RequestSet
  BY DEF IInv, SoundRequest
<1>1. ASSUME NEW x, NEW s, x = [q EXCEPT !.status = s]
      PROVE  x.tab = q.tab /\ x.kind = q.kind /\ DOMAIN x = {"tab", "kind", "me", "status"}
  BY <1>0, <1>1 DEF RequestSet
<1>2. PICK r : net' = (net \ {q}) \cup {r} /\ r.tab = q.tab /\ r.kind = q.kind
  <2>1. CASE ServeLogin(q)
    <3>1. PICK x : x = [q EXCEPT !.status = "ok"]
      OBVIOUS
    <3>2. PICK me : me = Session(Len(account'), q.me.user)
      OBVIOUS
    <3>3. PICK y : y = [x EXCEPT !.me = me]
      OBVIOUS
    <3>4. y.tab = q.tab /\ y.kind = q.kind
      BY <1>1, <3>1, <3>3
    <3>5. net' = (net \ {q}) \cup {y}
      BY <2>1, <3>1, <3>2, <3>3 DEF ServeLogin
    <3> QED BY <3>4, <3>5
  <2>2. CASE Admit(q) \/ ServeLogout(q) \/ ServeRoute(q) \/ Lose(q)
    <3>1. PICK s : net' = (net \ {q}) \cup {[q EXCEPT !.status = s]}
      BY <2>2 DEF Admit, ServeLogout, ServeRoute, Lose
    <3>2. PICK x : x = [q EXCEPT !.status = s]
      OBVIOUS
    <3> QED BY <1>1, <3>1, <3>2
  <2> QED BY <2>1, <2>2 DEF Serve
<1>3. tab' = tab
  BY DEF Serve, Admit, ServeLogin, ServeLogout, ServeRoute, Lose
<1> QED BY <1>2, <1>3 DEF SpinnerHasRequest

\* A request that a restart ends is answered: its handler waits for that.
LEMMA RestartSpins ==
  ASSUME IInv, SpinnerHasRequest, Restart
  PROVE  SpinnerHasRequest'
<1>1. ASSUME NEW q \in net PROVE \E r \in net' : r.tab = q.tab /\ r.kind = q.kind
  <2>1. CASE q.status # "admitted"
    BY <2>1 DEF Restart
  <2>2. CASE q.status = "admitted"
    <3>1. PICK r : r = [q EXCEPT !.status = "failed"]
      OBVIOUS
    <3>2. r \in net'
      BY <2>2, <3>1 DEF Restart
    <3>3. q \in RequestSet
      BY DEF IInv, SoundRequest
    <3>4. r.tab = q.tab /\ r.kind = q.kind
      BY <3>1, <3>3 DEF RequestSet
    <3> QED BY <3>2, <3>4
  <2> QED BY <2>1, <2>2
<1>2. tab' = tab
  BY DEF Restart
<1> QED BY <1>1, <1>2 DEF SpinnerHasRequest

\* An answer takes its own flag down; what its handler sends has its flag.
LEMMA AnswerSpins ==
  ASSUME IInv, IInv', SpinnerHasRequest, NEW q \in net, Answer(q)
  PROVE  SpinnerHasRequest'
<1>0. /\ tab \in [Tabs -> Document] /\ tab' \in [Tabs -> Document]
      /\ q.tab \in Tabs /\ tab[q.tab] \in Document
  BY DEF IInv, SoundRequest, RequestSet
<1>1. CASE ReceiveLogin(q)
  <2>1. net' = net \ {q} /\ (\A u \in Tabs \ {q.tab} : tab'[u] = tab[u])
    BY <1>0, <1>1 DEF ReceiveLogin
  <2>2. tab'[q.tab].busy = tab[q.tab].busy \ {q.kind}
    <3>1. CASE q.status = "ok"
      <4>1. PICK x : x = [tab[q.tab] EXCEPT !.session = q.me]
        OBVIOUS
      <4>2. PICK y : y = [x EXCEPT !.page = "overview"]
        OBVIOUS
      <4>3. PICK z : z = [y EXCEPT !.busy = Idle(q)]
        OBVIOUS
      <4>4. DOMAIN y = {"session", "page", "busy", "search"}
        BY <1>0, <4>1, <4>2 DEF Document
      <4>5. tab'[q.tab] = z
        BY <1>0, <1>1, <3>1, <4>1, <4>2, <4>3 DEF ReceiveLogin
      <4> QED BY <4>3, <4>4, <4>5 DEF Idle
    <3>2. CASE q.status # "ok"
      BY <1>0, <1>1, <3>2 DEF ReceiveLogin, Idle, Document
    <3> QED BY <3>1, <3>2
  <2> QED BY <2>1, <2>2 DEF SpinnerHasRequest
<1>2. CASE ReceiveLogout(q)
  <2>1. /\ net' = net \ {q} /\ q.kind \notin Flagged
        /\ \A u \in Tabs : tab'[u].busy = tab[u].busy /\ tab[u].busy \subseteq Flagged
    BY <1>0, <1>2 DEF ReceiveLogout, Document, Flagged
  <2> QED BY <2>1 DEF SpinnerHasRequest
<1>3. CASE Receive(q)
  <2>1. PICK next \in FollowUps(q) :
          /\ net' = (net \ {q}) \cup next
          /\ tab' = [tab EXCEPT ![q.tab].busy = Idle(q) \cup ({r.kind : r \in next} \cap Flagged)]
    BY <1>3 DEF Receive
  <2>2. \A r \in next : r.tab = q.tab
    <3>1. \/ next = {Request(q.tab, "expired", q.me)}
          \/ \E kinds, me : next = Loads(q.tab, kinds, me)
          \/ next = {}
      BY DEF FollowUps
    <3> QED BY <3>1, RequestSays, LoadsOfTab
  <2>3. /\ tab'[q.tab].busy = (tab[q.tab].busy \ {q.kind}) \cup ({r.kind : r \in next} \cap Flagged)
        /\ \A u \in Tabs \ {q.tab} : tab'[u] = tab[u]
    BY <1>0, <2>1 DEF Idle, Document
  <2> QED BY <2>1, <2>2, <2>3 DEF SpinnerHasRequest
<1> QED BY <1>1, <1>2, <1>3 DEF Answer

\* A tab that shows a spinner, or a disabled button, waits for an answer (the finally
\* clauses of XN's handlers).
THEOREM SpinnerHasRequestHolds ==
  ASSUME NoVisitors
  PROVE  Spec => []SpinnerHasRequest
<1>1. Init => SpinnerHasRequest
  BY DEF Init, Fresh, SpinnerHasRequest
<1>2. IInv /\ IInv' /\ SpinnerHasRequest /\ [Next]_vars => SpinnerHasRequest'
  <2> SUFFICES ASSUME IInv, IInv', SpinnerHasRequest, [Next]_vars PROVE SpinnerHasRequest'
    OBVIOUS
  <2>1. CASE UNCHANGED vars
    BY <2>1 DEF vars, SpinnerHasRequest
  <2>2. CASE Restart
    BY <2>2, RestartSpins
  <2> QED BY <2>1, <2>2, UserSpins, TimersSpin, NetSpins, AnswerSpins DEF Next
<1> QED BY <1>1, <1>2, DashboardInvariant, PTL DEF Spec
================================================================================
