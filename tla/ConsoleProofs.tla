------------------------------ MODULE ConsoleProofs -----------------------------
(***************************************************************************)
(* Proofs about WebConsole, for any number of tabs, any roles a browser    *)
(* brings along, any deployment and without bound on the user: what a tab  *)
(* that rests shows, and that a known role is never signed out; and, by    *)
(* the proofs about Dashboard, about what MCConsoles puts together.        *)
(***************************************************************************)
EXTENDS MCConsoles, TLAPS

\* The role s is the one that the pages at p are for.
Admits(p, s) == (p \in AdminPaths => s = "admin") /\ (p \in UserPaths => s = "user")

\* A document holds still when no navigation has started.
Still(d) == d.phase \in {"hydrated", "shown"} /\ d.nav = None

\* Of a document d while localStorage holds the role s: a request without a token was
\* made without a role, and a load has its request.
Sound(d, s) ==
  /\ d \in Document
  /\ d.phase # "away" => d.path \in Paths
  /\ \A q \in d.requests : q.token = "" => s \notin Roles
  /\ d.load = "loading" => \E q \in d.requests : q.mine

\* The selected tab is one of those shown.
TabShown(d) ==
  /\ d.path = "/" => d.shown \in HomeTabs(d)
  /\ d.path = "/user/console" => d.shown \in ConsoleTabs

\* The invariant of a document.
Good(d, s) ==
  /\ Sound(d, s)
  /\ Still(d) => Admits(d.path, s)
  /\ d.phase = "shown" /\ d.nav = None => TabShown(d)

IInv ==
  /\ cookie \in CookieRoles \cup {"user_db"}
  /\ tab \in [Tabs -> Document]
  /\ \A t \in Tabs : Good(tab[t], stored)

\* No new way to the login page.
StaysIn(d, e) == stored \in Roles => (e.nav = "/login" => d.nav = "/login")

--------------------------------------------------------------------------------
(* The parts of the handlers.                                               *)

LEMMA NoneIsNoPath ==
  /\ None \notin {"/login", "/user", "/admin", "cognito/login", "cognito/logout"}
  /\ None \notin Roles /\ None \notin Paths
BY WebAssumption DEF Roles, Paths, AdminPaths, UserPaths, Outside

\* What the guard answers, and that its silence admits.
LEMMA GuardAdmits ==
  ASSUME NEW p
  PROVE  /\ Guard(p) \in {None, "/login", "/user", "/admin"}
         /\ Guard(p) = None /\ p # "/login" => Admits(p, stored)
         /\ Guard(p) = "/login" => stored = None
<1>1. CASE p = "/login"
  BY <1>1, NoneIsNoPath DEF Guard
<1>2. CASE p # "/login" /\ stored = None
  BY <1>2, NoneIsNoPath DEF Guard, AdminPaths, UserPaths
<1>3. CASE p # "/login" /\ stored # None /\ p \in AdminPaths
  BY <1>3, NoneIsNoPath DEF Guard, Admits, AdminPaths, UserPaths
<1>4. CASE p # "/login" /\ stored # None /\ p \notin AdminPaths /\ p \in UserPaths
  BY <1>4, NoneIsNoPath DEF Guard, Admits, AdminPaths, UserPaths
<1>5. CASE p # "/login" /\ stored # None /\ p \notin AdminPaths /\ p \notin UserPaths
  BY <1>5, NoneIsNoPath DEF Guard, Admits
<1> QED BY <1>1, <1>2, <1>3, <1>4, <1>5

LEMMA LoginAdmits == Admits("/login", stored)
BY DEF Admits, AdminPaths, UserPaths

Navs == {None, "/login", "/user", "/admin"} \cup Outside

\* A navigation changes nothing else.
LEMMA NavIsAll ==
  ASSUME NEW d \in Document, NEW n \in Navs
  PROVE  LET e == [d EXCEPT !.nav = n] IN
         /\ e \in Document /\ e.nav = n
         /\ e.phase = d.phase /\ e.path = d.path /\ e.role = d.role /\ e.load = d.load
         /\ e.shown = d.shown /\ e.requests = d.requests
BY DEF Document, Navs

\* The guard makes a sound document good.
LEMMA GuardedIsGood ==
  ASSUME NEW d, Sound(d, stored), d.phase = "shown" /\ d.nav = None => TabShown(d)
  PROVE  Good(Guarded(d), stored) /\ StaysIn(d, Guarded(d))
<1> DEFINE g == Guard(d.path)
           n == IF g = None THEN d.nav ELSE g
           e == [d EXCEPT !.nav = n]
<1>1. /\ g \in {None, "/login", "/user", "/admin"}
      /\ g = None => Admits(d.path, stored)
      /\ g = "/login" => stored = None
  BY GuardAdmits, LoginAdmits
<1>2. d \in Document /\ n \in Navs /\ Guarded(d) = e
  BY <1>1 DEF Sound, Guarded, Document, Navs
<1>3. /\ e \in Document /\ e.nav = n
      /\ e.phase = d.phase /\ e.path = d.path /\ e.role = d.role /\ e.load = d.load
      /\ e.shown = d.shown /\ e.requests = d.requests
  BY <1>2, NavIsAll
<1> HIDE DEF e
<1>4. Sound(e, stored)
  BY <1>3 DEF Sound
<1>5. Still(e) => Admits(e.path, stored)
  BY <1>1, <1>3, NoneIsNoPath DEF Still
<1>6. e.phase = "shown" /\ e.nav = None => TabShown(e)
  BY <1>3, NoneIsNoPath DEF TabShown, HomeTabs
<1>7. StaysIn(d, e)
  BY <1>1, <1>3, NoneIsNoPath DEF StaysIn
<1> QED BY <1>2, <1>4, <1>5, <1>6, <1>7 DEF Good

RequestSet ==
  [endpoint : {page.endpoint : page \in LoadingPages}, token : {"", "admin_token", "user_token"},
   mine : BOOLEAN]

LEMMA TokenHasRole ==
  Token \in {"", "admin_token", "user_token"} /\ (Token = "" => stored \notin Roles)
BY DEF Token, Roles

\* Mounting a page keeps a document sound and selects a tab that is shown.
LEMMA MountedIsSound ==
  ASSUME NEW d, Sound(d, stored), NEW p \in Paths
  PROVE  LET e == Mounted(d, p) IN
         Sound(e, stored) /\ TabShown(e) /\ e.nav = d.nav /\ e.phase = "shown" /\ e.path = p
<1> DEFINE old == Abandoned(d)
           new == Asked(p)
           load == IF LoadsOf(p) = {} THEN None ELSE "loading"
           e == [d EXCEPT !.path = p, !.phase = "shown", !.shown = FirstTab(p), !.load = load,
                          !.requests = old \cup new]
<1>1. d \in Document /\ d.requests \subseteq RequestSet
  BY DEF Sound, Document, RequestSet
<1>2. Mounted(d, p) = e
  BY DEF Mounted
<1>3. old \subseteq RequestSet /\ \A q \in old : q.token = "" => stored \notin Roles
  BY <1>1 DEF RequestSet, Sound, Abandoned
<1>4. LoadsOf(p) \subseteq {page.endpoint : page \in LoadingPages}
  BY DEF LoadsOf
<1>5. ASSUME NEW q \in new
      PROVE  q \in RequestSet /\ q.mine /\ (q.token = "" => stored \notin Roles)
  <2>1. PICK x \in LoadsOf(p) : q = [endpoint |-> x, token |-> Token, mine |-> TRUE]
    BY DEF Asked
  <2> QED BY <1>4, <2>1, TokenHasRole DEF RequestSet
<1>6. LoadsOf(p) # {} => \E q \in new : q.mine
  <2>1. LoadsOf(p) # {} => new # {}
    BY DEF Asked
  <2> QED BY <1>5, <2>1
<1>7. FirstTab(p) \in {None, "overview", "sql"}
  BY DEF FirstTab
<1>8. old \cup new \in SUBSET RequestSet
  BY <1>3, <1>5
<1> HIDE DEF old, new
<1>9. /\ e \in Document /\ e.nav = d.nav /\ e.phase = "shown" /\ e.path = p /\ e.load = load
      /\ e.shown = FirstTab(p) /\ e.requests = old \cup new /\ e.role = d.role
  <2>1. RequestSet = [endpoint : {page.endpoint : page \in LoadingPages},
                      token : {"", "admin_token", "user_token"}, mine : BOOLEAN]
    BY DEF RequestSet
  <2> HIDE DEF RequestSet
  <2>2. load \in {None, "loading"}
    OBVIOUS
  <2> HIDE DEF load
  <2> QED BY ZenonT(40), <1>1, <1>7, <1>8, <2>1, <2>2 DEF Document, ConsoleTabs
<1> HIDE DEF e
<1>10. Sound(e, stored)
  BY <1>3, <1>5, <1>6, <1>9, WebAssumption DEF Sound
<1>11. TabShown(e)
  BY <1>9 DEF TabShown, FirstTab, HomeTabs, ConsoleTabs
<1> QED BY <1>2, <1>9, <1>10, <1>11

LEMMA AwayIsGood == Good(Away, stored) /\ Away.nav # "/login"
<1>1. Away \in Document
  BY DEF Away, Document
<1> QED BY <1>1, NoneIsNoPath, WebAssumption DEF Good, Sound, Still, Away

LEMMA LoadedIsGood ==
  ASSUME NEW p \in Paths
  PROVE  Good(Loaded(p), stored) /\ Loaded(p).nav # "/login"
<1> DEFINE d == [Away EXCEPT !.path = p, !.phase = "loading"]
<1>1. Away \in Document /\ Away.nav = None /\ Away.load = None /\ Away.requests = {}
  BY DEF Away, Document
<1>2. /\ d \in Document /\ d.nav = None /\ d.load = None /\ d.requests = {}
      /\ d.path = p /\ d.phase = "loading"
  BY <1>1 DEF Document
<1> HIDE DEF d
<1>3. Good(d, stored) /\ d.nav # "/login"
  BY <1>2, NoneIsNoPath, WebAssumption DEF Good, Sound, Still
<1> QED BY <1>3 DEF Loaded, d

--------------------------------------------------------------------------------
(* The steps.                                                               *)

\* The step keeps a known role, and sends no tab to the login page that has one.
StayStep ==
  stored \in Roles =>
    /\ stored' = stored
    /\ \A t \in Tabs : tab'[t].nav = "/login" => tab[t].nav = "/login"

\* A step that gives one tab a good document.
LEMMA OneTab ==
  ASSUME IInv, NEW t \in Tabs, NEW d, Good(d, stored), StaysIn(tab[t], d),
         tab' = [tab EXCEPT ![t] = d], stored' = stored,
         cookie' \in CookieRoles \cup {"user_db"}
  PROVE  IInv' /\ StayStep
<1>1. d \in Document
  BY DEF Good, Sound
<1>2. tab' \in [Tabs -> Document]
  BY <1>1 DEF IInv
<1>3. \A u \in Tabs : tab'[u] = IF u = t THEN d ELSE tab[u]
  BY DEF IInv
<1>4. \A u \in Tabs : Good(tab'[u], stored)
  BY <1>3 DEF IInv
<1>5. IInv'
  BY <1>2, <1>4 DEF IInv, Good, Sound
<1> QED BY <1>3, <1>5 DEF StayStep, StaysIn

LEMMA OpenStep ==
  ASSUME IInv, NEW t \in Tabs, NEW p \in Paths, Open(t, p)
  PROVE  IInv' /\ StayStep
<1>1. Good(Loaded(p), stored) /\ StaysIn(tab[t], Loaded(p))
  BY LoadedIsGood DEF StaysIn
<1> QED BY <1>1, OneTab DEF Open, IInv

LEMMA HydrateStep ==
  ASSUME IInv, NEW t \in Tabs, Hydrate(t)
  PROVE  IInv' /\ StayStep
<1> DEFINE d == [tab[t] EXCEPT !.phase = "hydrated", !.role = cookie]
<1>1. Good(tab[t], stored) /\ tab[t] \in Document /\ tab[t].phase = "loading"
  BY DEF IInv, Hydrate
<1>2. /\ d \in Document /\ d.phase = "hydrated" /\ d.path = tab[t].path /\ d.nav = tab[t].nav
      /\ d.requests = tab[t].requests /\ d.load = tab[t].load
  BY <1>1 DEF IInv, Document
<1> HIDE DEF d
<1>3. Sound(d, stored)
  BY <1>1, <1>2 DEF Good, Sound
<1>4. Good(Guarded(d), stored) /\ StaysIn(d, Guarded(d))
  BY <1>2, <1>3, GuardedIsGood
<1>5. StaysIn(tab[t], Guarded(d))
  BY <1>2, <1>4 DEF StaysIn
<1>6. tab' = [tab EXCEPT ![t] = Guarded(d)] /\ stored' = stored /\ cookie' = cookie
  BY DEF Hydrate, d
<1> QED BY <1>4, <1>5, <1>6, OneTab DEF IInv

LEMMA MountPageStep ==
  ASSUME IInv, NEW t \in Tabs, MountPage(t)
  PROVE  IInv' /\ StayStep
<1> DEFINE e == Mounted(tab[t], tab[t].path)
<1>1. Good(tab[t], stored) /\ tab[t].phase = "hydrated" /\ tab[t].path \in Paths
  BY DEF IInv, MountPage, Good, Sound
<1>2. /\ Sound(e, stored) /\ TabShown(e)
      /\ e.nav = tab[t].nav /\ e.phase = "shown" /\ e.path = tab[t].path
  BY <1>1, MountedIsSound DEF Good
<1>3. tab' = [tab EXCEPT ![t] = e] /\ stored' = stored /\ cookie' = cookie
  BY DEF MountPage
<1> HIDE DEF e
<1>4. Good(e, stored) /\ StaysIn(tab[t], e)
  BY <1>1, <1>2 DEF Good, Still, StaysIn
<1> QED BY <1>3, <1>4, OneTab DEF IInv

LEMMA FollowLinkStep ==
  ASSUME IInv, NEW t \in Tabs, NEW p, FollowLink(t, p)
  PROVE  IInv' /\ StayStep
<1> DEFINE e == Mounted(tab[t], p)
<1>1. p \in Paths
  BY DEF FollowLink, Links, Menu, HomeLinks, Paths, AdminPaths, UserPaths
<1>2. Sound(tab[t], stored)
  BY DEF IInv, Good
<1>3. Sound(e, stored) /\ TabShown(e) /\ e.nav = tab[t].nav
  BY <1>1, <1>2, MountedIsSound
<1>4. tab' = [tab EXCEPT ![t] = Guarded(e)] /\ stored' = stored /\ cookie' = cookie
  BY DEF FollowLink
<1> HIDE DEF e
<1>5. Good(Guarded(e), stored) /\ StaysIn(e, Guarded(e))
  BY <1>3, GuardedIsGood
<1>6. StaysIn(tab[t], Guarded(e))
  BY <1>3, <1>5 DEF StaysIn
<1> QED BY <1>4, <1>5, <1>6, OneTab DEF IInv

LEMMA SelectTabStep ==
  ASSUME IInv, NEW t \in Tabs, NEW x, SelectTab(t, x)
  PROVE  IInv' /\ StayStep
<1> DEFINE e == [tab[t] EXCEPT !.shown = x]
<1>1. Good(tab[t], stored) /\ tab[t] \in Document /\ x \in SubTabs(tab[t])
  BY DEF IInv, SelectTab
<1>2. x \in {"overview", "topology", "modules"} \cup ConsoleTabs
  BY <1>1 DEF SubTabs, HomeTabs
<1>3. /\ e \in Document /\ e.shown = x /\ e.phase = tab[t].phase /\ e.path = tab[t].path
      /\ e.nav = tab[t].nav /\ e.role = tab[t].role /\ e.requests = tab[t].requests
      /\ e.load = tab[t].load
  BY <1>1, <1>2 DEF Document
<1>4. tab' = [tab EXCEPT ![t] = e] /\ stored' = stored /\ cookie' = cookie
  BY DEF SelectTab
<1> HIDE DEF e
<1>5. TabShown(e)
  BY <1>1, <1>3 DEF TabShown, SubTabs, HomeTabs
<1>6. Good(e, stored) /\ StaysIn(tab[t], e)
  BY <1>1, <1>3, <1>5 DEF Good, Sound, Still, StaysIn
<1> QED BY <1>4, <1>6, OneTab DEF IInv

\* Leaving for the backend.
LEMMA LeavingIsGood ==
  ASSUME NEW d, Sound(d, stored), NEW n \in Outside
  PROVE  Good([d EXCEPT !.nav = n], stored) /\ StaysIn(d, [d EXCEPT !.nav = n])
<1> DEFINE e == [d EXCEPT !.nav = n]
<1>1. n # None /\ n # "/login" /\ n \in Navs /\ d \in Document
  BY WebAssumption DEF Outside, Navs, Sound
<1>2. /\ e \in Document /\ e.nav = n /\ e.phase = d.phase /\ e.path = d.path
      /\ e.load = d.load /\ e.requests = d.requests
  BY <1>1, NavIsAll
<1> HIDE DEF e
<1>3. Good(e, stored) /\ StaysIn(d, e)
  BY <1>1, <1>2 DEF Good, Sound, Still, StaysIn
<1> QED BY <1>3 DEF e

LEMMA LoginStep ==
  ASSUME IInv, NEW t \in Tabs, Login(t)
  PROVE  IInv' /\ StayStep
<1>1. Sound(tab[t], stored)
  BY DEF IInv, Good
<1> QED BY <1>1, LeavingIsGood, OneTab DEF Login, IInv, Outside

LEMMA LogoutStep ==
  ASSUME IInv, NEW t \in Tabs, Logout(t)
  PROVE  IInv' /\ StayStep
<1> DEFINE d == [tab[t] EXCEPT !.role = None]
           e == [d EXCEPT !.nav = "cognito/logout"]
<1>1. Sound(tab[t], stored) /\ tab[t] \in Document
  BY DEF IInv, Good
<1>2. /\ d \in Document /\ d.nav = tab[t].nav /\ d.phase = tab[t].phase /\ d.path = tab[t].path
      /\ d.load = tab[t].load /\ d.requests = tab[t].requests
  BY <1>1 DEF Document
<1>3. tab' = [tab EXCEPT ![t] = e] /\ stored' = stored /\ cookie' = cookie
  BY <1>1 DEF Logout, IInv, Document
<1> HIDE DEF d
<1>4. Sound(d, stored)
  BY <1>1, <1>2 DEF Sound
<1>5. Good(e, stored) /\ StaysIn(d, e)
  BY <1>4, LeavingIsGood DEF Outside
<1>6. StaysIn(tab[t], e)
  BY <1>2, <1>5 DEF StaysIn
<1> QED BY <1>3, <1>5, <1>6, OneTab DEF IInv

LEMMA NavigateStep ==
  ASSUME IInv, NEW t \in Tabs, Navigate(t)
  PROVE  IInv' /\ StayStep
<1>1. cookie' \in CookieRoles \cup {"user_db"} /\ stored' = stored
  BY DEF IInv, Navigate, CookieAfterAnswer
<1>2. CASE tab[t].nav \in Outside
  <2>1. tab' = [tab EXCEPT ![t] = Away]
    BY <1>2 DEF Navigate
  <2> QED BY <1>1, <2>1, AwayIsGood, OneTab DEF StaysIn
<1>3. CASE tab[t].nav \notin Outside
  <2>1. tab[t].nav \in Paths
    BY <1>3 DEF IInv, Navigate, Document, Paths, AdminPaths, UserPaths
  <2>2. tab' = [tab EXCEPT ![t] = Loaded(tab[t].nav)]
    BY <1>3 DEF Navigate
  <2> QED BY <1>1, <2>1, <2>2, LoadedIsGood, OneTab DEF StaysIn
<1> QED BY <1>2, <1>3

Loads == {None, "loading", "error", "rows", "empty"}

\* An answer changes three fields.
LEMMA ReceivedFields ==
  ASSUME NEW d, NEW q, NEW load, NEW status, NEW e,
         d \in Document, load \in Loads, e = Received(d, q, load, status)
  PROVE  /\ e \in Document /\ e.requests = d.requests \ {q} /\ e.load = load
         /\ e.nav = IF status = "401" THEN "/login" ELSE d.nav
         /\ e.phase = d.phase /\ e.path = d.path /\ e.role = d.role /\ e.shown = d.shown
<1> DEFINE R == d.requests \ {q}
           n == IF status = "401" THEN "/login" ELSE d.nav
           d1 == [d EXCEPT !.requests = R]
           d2 == [d1 EXCEPT !.load = load]
           d3 == [d2 EXCEPT !.nav = n]
<1>1. R \in SUBSET RequestSet /\ n \in Navs
  BY DEF Document, RequestSet, Navs
<1> HIDE DEF R, n
<1>2. /\ d1 \in Document /\ d1.requests = R /\ d1.phase = d.phase /\ d1.path = d.path
      /\ d1.role = d.role /\ d1.shown = d.shown
  <2>1. RequestSet = [endpoint : {page.endpoint : page \in LoadingPages},
                      token : {"", "admin_token", "user_token"}, mine : BOOLEAN]
    BY DEF RequestSet
  <2> HIDE DEF RequestSet
  <2> QED BY <1>1, <2>1 DEF Document
<1> HIDE DEF d1
<1>3. /\ d2 \in Document /\ d2.requests = d1.requests /\ d2.load = load
      /\ d2.phase = d1.phase /\ d2.path = d1.path /\ d2.role = d1.role /\ d2.shown = d1.shown
  BY ZenonT(40), <1>2 DEF Document, Loads
<1> HIDE DEF d2
<1>4. /\ d3 \in Document /\ d3.requests = d2.requests /\ d3.load = d2.load /\ d3.nav = n
      /\ d3.phase = d2.phase /\ d3.path = d2.path /\ d3.role = d2.role /\ d3.shown = d2.shown
  BY <1>1, <1>3, NavIsAll
<1>5. e = d3
  BY DEF Received, R, n, d1, d2
<1> HIDE DEF d3
<1> QED BY <1>2, <1>3, <1>4, <1>5 DEF R, n

\* A 401 is the answer to a request without a token, which none makes that has a role.
LEMMA AnswerStep ==
  ASSUME IInv, NEW t \in Tabs, NEW q, NEW status, Answer(t, q, status)
  PROVE  IInv' /\ StayStep
<1> DEFINE d == tab[t]
<1>1. Good(d, stored) /\ d \in Document /\ q \in d.requests
  BY DEF IInv, Answer
<1>2. PICK load \in IF q.mine THEN Settled(d.load, status) ELSE {d.load} :
        tab' = [tab EXCEPT ![t] = Received(d, q, load, status)]
  BY DEF Answer
<1> DEFINE e == Received(d, q, load, status)
<1>3. tab' = [tab EXCEPT ![t] = e]
  BY <1>2
<1>4. load \in Loads
  BY <1>1, <1>2 DEF Settled, Document, Loads
<1>5. /\ e \in Document /\ e.requests = d.requests \ {q} /\ e.load = load
      /\ e.nav = IF status = "401" THEN "/login" ELSE d.nav
      /\ e.phase = d.phase /\ e.path = d.path /\ e.role = d.role /\ e.shown = d.shown
  <2>1. d \in Document
    BY <1>1
  <2>2. e = Received(d, q, load, status)
    OBVIOUS
  <2> HIDE DEF d, e
  <2> QED BY <1>4, <2>1, <2>2, ReceivedFields
<1>6. load = "loading" => \E r \in e.requests : r.mine
  <2>1. load = "loading" => ~ q.mine /\ d.load = "loading"
    BY <1>2 DEF Settled
  <2>2. load = "loading" => \E r \in d.requests : r.mine
    BY <1>1, <2>1 DEF Good, Sound
  <2> QED BY <1>5, <2>1, <2>2
<1> HIDE DEF e
<1>7. Sound(e, stored)
  BY <1>1, <1>5, <1>6 DEF Good, Sound
<1>8. cookie' \in CookieRoles \cup {"user_db"}
  BY DEF IInv, Answer, CookieAfterAnswer
<1>9. CASE status # "401"
  <2>1. Good(e, stored) /\ StaysIn(d, e) /\ stored' = stored
    BY <1>1, <1>5, <1>7, <1>9 DEF Good, Still, TabShown, HomeTabs, StaysIn, Answer
  <2> QED BY <1>3, <1>8, <2>1, OneTab
<1>10. CASE status = "401"
  <2>1. stored \notin Roles /\ stored' = None
    <3>1. Status(q) = "401"
      BY <1>10 DEF Answer
    <3>2. q.token = ""
      BY <3>1 DEF Status
    <3> QED BY <1>1, <1>10, <3>2 DEF Good, Sound, Answer
  <2>2. \A u \in Tabs : tab'[u] = IF u = t THEN e ELSE tab[u]
    BY <1>3 DEF IInv
  <2>3. tab' \in [Tabs -> Document]
    BY <1>3, <1>5 DEF IInv
  <2>4. Sound(e, None) /\ ~ Still(e) /\ e.nav # None
    BY <1>5, <1>7, <1>10, NoneIsNoPath DEF Sound, Still
  <2>5. Good(e, None)
    BY <2>4 DEF Good
  <2>6. ASSUME NEW u \in Tabs
        PROVE  Good(tab[u], None)
    <3>1. Good(tab[u], stored)
      BY DEF IInv
    <3>2. Still(tab[u]) => tab[u].path \notin AdminPaths \cup UserPaths
      BY <2>1, <3>1 DEF Good, Admits, Roles
    <3> QED BY <3>1, <3>2, NoneIsNoPath DEF Good, Sound, Admits
  <2>7. \A u \in Tabs : Good(tab'[u], None)
    BY <2>2, <2>5, <2>6
  <2>8. IInv'
    BY <1>8, <2>1, <2>3, <2>7 DEF IInv, Good, Sound
  <2> QED BY <2>1, <2>8 DEF StayStep
<1> QED BY <1>9, <1>10

--------------------------------------------------------------------------------
(* Theorems                                                                 *)

LEMMA InitIInv == Init => IInv
<1>1. SUFFICES ASSUME Init PROVE IInv
  OBVIOUS
<1>2. Good(Away, stored)
  BY AwayIsGood
<1>3. Away \in Document
  BY <1>2 DEF Good, Sound
<1>4. tab \in [Tabs -> Document] /\ \A t \in Tabs : tab[t] = Away
  BY <1>1, <1>3 DEF Init
<1> QED BY <1>1, <1>2, <1>4 DEF Init, IInv

LEMMA NextIInv == IInv /\ [Next]_vars => IInv' /\ (StayStep \/ UNCHANGED vars)
<1>1. SUFFICES ASSUME IInv, Next PROVE IInv' /\ StayStep
  <2>1. IInv /\ UNCHANGED vars => IInv'
    BY DEF vars, IInv, Good, Sound
  <2> QED BY <2>1
<1>2. PICK t \in Tabs : UserAct(t) \/ Hydrate(t) \/ MountPage(t) \/ Navigate(t) \/ Answered(t)
  BY <1>1 DEF Next
<1>3. CASE UserAct(t)
  BY <1>1, <1>3, OpenStep, FollowLinkStep, SelectTabStep, LoginStep, LogoutStep DEF UserAct
<1>4. CASE Hydrate(t)
  BY <1>1, <1>4, HydrateStep
<1>5. CASE MountPage(t)
  BY <1>1, <1>5, MountPageStep
<1>6. CASE Navigate(t)
  BY <1>1, <1>6, NavigateStep
<1>7. CASE Answered(t)
  BY <1>1, <1>7, AnswerStep DEF Answered
<1> QED BY <1>2, <1>3, <1>4, <1>5, <1>6, <1>7

\* The invariant holds in every tab of every browser (AppLayout, fetchAPI, the pages).
THEOREM WebInvariant == Spec => []IInv
BY InitIInv, NextIInv, PTL DEF Spec

\* A tab that stays on a page of admins or of users has that role in localStorage.
THEOREM RestIsAdmittedHolds == Spec => []RestIsAdmitted
<1>1. IInv => RestIsAdmitted
  BY DEF IInv, Good, Still, Admits, RestIsAdmitted, Resting
<1> QED BY <1>1, WebInvariant, PTL

\* A known role is never signed out, and no tab that has one is sent to the login page.
THEOREM RoleKeepsSessionHolds == Spec => RoleKeepsSession
<1>1. IInv /\ [Next]_vars =>
        [(stored \in Roles) =>
           /\ stored' = stored
           /\ \A t \in Tabs : tab'[t].nav = "/login" => tab[t].nav = "/login"]_vars
  BY NextIInv DEF StayStep
<1> QED BY <1>1, WebInvariant, PTL DEF Spec, RoleKeepsSession

\* A tab that waits for nothing shows a page, and no spinner.
THEOREM RestShowsContentHolds == Spec => []RestShowsContent
<1>1. ASSUME IInv PROVE RestShowsContent
  <2>1. SUFFICES ASSUME NEW t \in Tabs, Resting(t), tab[t].phase = "shown", tab[t].requests = {}
                 PROVE  View(tab[t]) # {} /\ "spinner" \notin View(tab[t])
    BY DEF RestShowsContent
  <2> DEFINE d == tab[t]
  <2>2. Sound(d, stored) /\ TabShown(d) /\ d.path \in Paths /\ d.load # "loading"
    BY <1>1, <2>1 DEF IInv, Good, Sound, Resting
  <2>3. HomeTabs(d) \subseteq {"overview", "topology", "modules"}
    BY DEF HomeTabs
  <2>4. ASSUME NEW S, S # {}, "spinner" \notin S
        PROVE  Fetched(d, S) # {} /\ "spinner" \notin Fetched(d, S)
    BY <2>2, <2>4 DEF Fetched
  <2>5. CASE d.path = "/"
    BY <2>2, <2>3, <2>5 DEF View, HomePanel, TabShown
  <2>6. CASE d.path = "/user/console"
    BY <2>2, <2>6 DEF View, ConsolePanel, ConsoleTabs, TabShown
  <2>7. CASE d.path = "/admin/users"
    BY <2>4, <2>7 DEF View, AdminUsersView
  <2>8. CASE d.path = "/admin/audit"
    BY <2>4, <2>8 DEF View, AdminAuditView
  <2>9. CASE d.path = "/user"
    BY <2>4, <2>9 DEF View, UserDashboardView
  <2>10. CASE d.path = "/user/keys"
    <3>1. "spinner" \notin ApiKeysView(d) /\ "form" \in ApiKeysView(d)
      BY <2>4 DEF ApiKeysView
    <3> QED BY <2>10, <3>1 DEF View
  <2>11. CASE d.path = "/login" \/ d.path = "/admin"
    BY <2>11 DEF View, LoginView, AdminDashboardView
  <2> QED BY <2>2, <2>5, <2>6, <2>7, <2>8, <2>9, <2>10, <2>11 DEF Paths, AdminPaths, UserPaths
<1> QED BY <1>1, WebInvariant, PTL

--------------------------------------------------------------------------------
(* Both consoles: each behaves as its module says, whatever the subject.    *)

DashP == INSTANCE DashboardProofs WITH tab <- dashTab

\* The Next.js console is one.
LEMMA ConsolesAreWeb == ConsolesSpec => Spec
<1>1. ConsolesInit => Init
  BY DEF ConsolesInit
<1>2. [ConsolesNext]_<<subject, vars, dashVars>> => [Next]_vars
  BY DEF ConsolesNext
<1> QED BY <1>1, <1>2, PTL DEF ConsolesSpec, ConsolesSafety, Spec

\* The embedded console is one.
LEMMA ConsolesAreDash == ConsolesSpec => DashP!Spec
<1>1. ConsolesInit => DashP!Init
  BY DEF ConsolesInit, Dash!Init, DashP!Init, Dash!Fresh, DashP!Fresh, Dash!Nobody, DashP!Nobody
<1>2. ASSUME NEW t \in Tabs, Dash!UserAct(t) PROVE DashP!UserAct(t)
  BY <1>2 DEF Dash!UserAct, DashP!UserAct, Dash!LogIn, DashP!LogIn, Dash!LogOut, DashP!LogOut,
         Dash!Go, DashP!Go, Dash!Search, DashP!Search, Dash!Click, DashP!Click,
         Dash!Reload, DashP!Reload, Dash!Fresh, DashP!Fresh, Dash!Nobody, DashP!Nobody,
         Dash!LoggedIn, DashP!LoggedIn, Dash!Role, DashP!Role, Dash!Send, DashP!Send,
         Dash!Request, DashP!Request, Dash!Flagged, DashP!Flagged, Dash!Loads, DashP!Loads,
         Dash!LoadsOf, DashP!LoadsOf, Dash!Offered, DashP!Offered, Dash!MayWrite, DashP!MayWrite,
         Dash!Clicked, DashP!Clicked, Dash!Writes, DashP!Writes
<1>3. ASSUME NEW t \in Tabs, NEW k, Dash!Poll(t, k) PROVE DashP!Poll(t, k)
  <2>1. Dash!Polled(t) = DashP!Polled(t) /\ Dash!Timers = DashP!Timers
    BY DEF Dash!Polled, DashP!Polled, Dash!Timers, DashP!Timers, Dash!LoggedIn, DashP!LoggedIn,
           Dash!Role, DashP!Role
  <2>2. \A requests : Dash!Send(t, requests) => DashP!Send(t, requests)
    BY DEF Dash!Send, DashP!Send, Dash!Flagged, DashP!Flagged
  <2>3. Dash!Request(t, k, dashTab[t].session) = DashP!Request(t, k, dashTab[t].session)
    BY DEF Dash!Request, DashP!Request
  <2>4. {q \in net : q.tab = t /\ q.kind \in Dash!Timers} = {q \in net : q.tab = t /\ q.kind \in DashP!Timers}
    BY DEF Dash!Timers, DashP!Timers
  <2>5. k \in DashP!Polled(t)
    BY <1>3, <2>1 DEF Dash!Poll
  <2>6. DashP!Cardinality({q \in net : q.tab = t /\ q.kind \in DashP!Timers}) < MaxPolls
    <3>1. \A S : Dash!Cardinality(S) = DashP!Cardinality(S)
      BY DEF Dash!Cardinality, DashP!Cardinality
    <3> QED BY <1>3, <2>4, <3>1 DEF Dash!Poll
  <2>7. DashP!Send(t, {DashP!Request(t, k, dashTab[t].session)})
    BY <1>3, <2>2, <2>3 DEF Dash!Poll
  <2>8. UNCHANGED <<local, account, live, events>>
    BY <1>3 DEF Dash!Poll
  <2> QED BY <2>5, <2>6, <2>7, <2>8 DEF DashP!Poll
<1>4. ASSUME NEW t \in Tabs, Dash!SearchTimer(t) PROVE DashP!SearchTimer(t)
  BY <1>4 DEF Dash!SearchTimer, DashP!SearchTimer, Dash!Loads, DashP!Loads,
         Dash!Request, DashP!Request
<1>5. ASSUME NEW q \in net, Dash!Serve(q) PROVE DashP!Serve(q)
  BY <1>5 DEF Dash!Serve, DashP!Serve, Dash!ServeLogin, DashP!ServeLogin,
         Dash!Admit, DashP!Admit, Dash!Gone, DashP!Gone,
         Dash!ServeLogout, DashP!ServeLogout, Dash!ServeRoute, DashP!ServeRoute,
         Dash!Session, DashP!Session, Dash!Status, DashP!Status, Dash!Permitted, DashP!Permitted,
         Dash!Allowed, DashP!Allowed, Dash!Writes, DashP!Writes
<1>6. ASSUME NEW q \in net, Dash!Answer(q) PROVE DashP!Answer(q)
  BY <1>6 DEF Dash!Answer, DashP!Answer, Dash!ReceiveLogin, DashP!ReceiveLogin,
         Dash!ReceiveLogout, DashP!ReceiveLogout, Dash!Receive, DashP!Receive,
         Dash!Idle, DashP!Idle, Dash!LoggedOut, DashP!LoggedOut, Dash!Nobody, DashP!Nobody,
         Dash!FollowUps, DashP!FollowUps, Dash!Expired, DashP!Expired,
         Dash!Request, DashP!Request, Dash!Flagged, DashP!Flagged, Dash!Loads, DashP!Loads
<1>7. Dash!Next => DashP!Next
  BY <1>2, <1>3, <1>4, <1>5, <1>6
     DEF Dash!Next, DashP!Next, Dash!Lose, DashP!Lose, Dash!Restart, DashP!Restart,
         Dash!Timers, DashP!Timers
<1>8. [ConsolesNext]_<<subject, vars, dashVars>> => [DashP!Next]_DashP!vars
  BY <1>7 DEF ConsolesNext, dashVars, DashP!vars
<1> QED BY <1>1, <1>8, PTL DEF ConsolesSpec, ConsolesSafety, DashP!Spec

\* Token, role and name that a tab shows, or localStorage holds, are of one login (XN).
THEOREM ConsolesShowOneLogin ==
  ASSUME DashP!NoVisitors
  PROVE  ConsolesSpec => []SessionIsOneLogin
<1>1. DashP!SessionIsOneLogin => SessionIsOneLogin
  BY DEF SessionIsOneLogin, Dash!SessionIsOneLogin, DashP!SessionIsOneLogin,
         Dash!Sessions, DashP!Sessions, Dash!Nobody, DashP!Nobody, Dash!Session, DashP!Session,
         Dash!Tokens, DashP!Tokens
<1> QED BY <1>1, ConsolesAreDash, DashP!SessionIsOneLoginHolds, PTL

\* A 403 is the answer to an audit poll whose session ended after authMiddleware had let it
\* pass, and to nothing else (authMiddleware, checkRole, handleGetAuditLogs).
THEOREM ConsolesForbiddenMeansOver ==
  ASSUME DashP!NoVisitors
  PROVE  ConsolesSpec => []ForbiddenMeansOver
<1>1. DashP!ForbiddenMeansOver => ForbiddenMeansOver
  BY DEF ForbiddenMeansOver, Dash!ForbiddenMeansOver, DashP!ForbiddenMeansOver,
         Dash!Gone, DashP!Gone
<1> QED BY <1>1, ConsolesAreDash, DashP!ForbiddenMeansOverHolds, PTL

\* A spinner waits for an answer (the finally clauses of XN's handlers).
THEOREM ConsolesSpinnersWait ==
  ASSUME DashP!NoVisitors
  PROVE  ConsolesSpec => []SpinnerHasRequest
<1>1. DashP!SpinnerHasRequest => SpinnerHasRequest
  BY DEF SpinnerHasRequest, Dash!SpinnerHasRequest, DashP!SpinnerHasRequest
<1> QED BY <1>1, ConsolesAreDash, DashP!SpinnerHasRequestHolds, PTL

\* In both consoles together, too, a tab that stays on a page is admitted to it.
THEOREM ConsolesRestAdmitted == ConsolesSpec => []RestIsAdmitted
BY ConsolesAreWeb, RestIsAdmittedHolds
================================================================================
