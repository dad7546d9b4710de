------------------------------- MODULE WebConsole ------------------------------
(***************************************************************************)
(* The Next.js console (src/frontend) in the tabs of one browser.  Tabs    *)
(* share localStorage and the cookies.  AuthContext takes the role from    *)
(* the cookies, the guard of AppLayout and fetchAPI take it from           *)
(* localStorage.  Setting window.location only starts a navigation: the    *)
(* document runs on until the new one replaces it.                         *)
(*                                                                         *)
(* Nothing in the repository writes aroradb_role to localStorage (fetchAPI *)
(* removes it), and only CognitoALBMiddleware writes the cookies: what a   *)
(* browser brings along is chosen in Init.                                 *)
(***************************************************************************)
EXTENDS Integers, FiniteSets

CONSTANTS
  Tabs,
  None,
  StoredRoles,  \* what aroradb_role in localStorage may be at first
  CookieRoles,  \* what the cookie aroradb_role may be at first
  Deployments,  \* the sets of /api/v1 endpoints that a server may have registered
  Alb,          \* do requests to the API pass the load balancer?
  MaxActs       \* bound: actions of the user

VARIABLES
  stored,    \* localStorage.aroradb_role
  cookie,    \* the cookie aroradb_role (aroradb_user comes and goes with it)
  tab,       \* per tab: the document it shows
  served,    \* the /api/v1 endpoints of this deployment
  acts       \* bound

vars == <<stored, cookie, tab, served, acts>>

Roles == {"admin", "user"}

AdminPaths == {"/admin", "/admin/users", "/admin/audit"}
UserPaths == {"/user", "/user/keys", "/user/console"}
Paths == {"/", "/login"} \cup AdminPaths \cup UserPaths

\* The backend's pages that window.location is set to.
Outside == {"cognito/login", "cognito/logout"}

ASSUME WebAssumption ==
  /\ Alb \in BOOLEAN /\ MaxActs \in Nat
  /\ None \notin Roles \cup Paths \cup Outside \cup {"user_db", "loading"}

--------------------------------------------------------------------------------
(* A document                                                               *)

\* Outside of the console: a blank tab, or the answer of the backend.
Away == [path |-> None, phase |-> "away", role |-> None, nav |-> None,
         load |-> None, shown |-> None, requests |-> {}]

\* A full load starts with fresh providers, and aborts what was in flight.
Loaded(p) == [Away EXCEPT !.path = p, !.phase = "loading"]

\* The endpoints the pages load from when they are mounted.
AdminUsersPage == [path |-> "/admin/users", endpoint |-> "/api/v1/admin/users"]
AdminAuditPage == [path |-> "/admin/audit", endpoint |-> "/api/admin/audit"]
UserDashboard == [path |-> "/user", endpoint |-> "/api/v1/user/stats"]
ApiKeysPage == [path |-> "/user/keys", endpoint |-> "/api/v1/user/keys"]

LoadingPages == {AdminUsersPage, AdminAuditPage, UserDashboard, ApiKeysPage}
LoadsOf(p) == {page.endpoint : page \in {x \in LoadingPages : x.path = p}}

\* Mutant of Token: the mock token of users is forgotten.
TokenAdminOnly == IF stored = "admin" THEN "admin_token" ELSE ""

\* The mock token fetchAPI sends.
Token ==
  CASE stored = "admin" -> "admin_token"
    [] stored = "user" -> "user_token"
    [] OTHER -> ""

\* The tab that a page selects first.
FirstTab(p) ==
  CASE p = "/" -> "overview"
    [] p = "/user/console" -> "sql"
    [] OTHER -> None

\* What pages before asked for is answered to nobody, and two such requests that are
\* alike have the same effect.
Abandoned(doc) == {[q EXCEPT !.mine = FALSE] : q \in doc.requests}
Asked(p) == {[endpoint |-> e, token |-> Token, mine |-> TRUE] : e \in LoadsOf(p)}

\* The page at p is mounted and starts to load.
Mounted(doc, p) ==
  [doc EXCEPT !.path = p, !.phase = "shown", !.shown = FirstTab(p),
              !.load = IF LoadsOf(p) = {} THEN None ELSE "loading",
              !.requests = Abandoned(doc) \cup Asked(p)]

--------------------------------------------------------------------------------
(* The route guard of AppLayout                                             *)

\* Mutant of Guard: the branch of users is a copy of the one of admins.
GuardCopied(p) ==
  CASE p = "/login" -> None
    [] p # "/login" /\ stored = None -> "/login"
    [] p \in AdminPaths /\ stored \notin {None, "admin"} -> "/user"
    [] p \in UserPaths /\ stored \notin {None, "user"} -> "/user"
    [] OTHER -> None

\* Where the guard sends a tab at p.
Guard(p) ==
  CASE p = "/login" -> None
    [] p # "/login" /\ stored = None -> "/login"
    [] p \in AdminPaths /\ stored \notin {None, "admin"} -> "/user"
    [] p \in UserPaths /\ stored \notin {None, "user"} -> "/admin"
    [] OTHER -> None

\* A guard that is content leaves a navigation that has started alone.
Guarded(doc) == [doc EXCEPT !.nav = IF Guard(doc.path) = None THEN @ ELSE Guard(doc.path)]

\* AppLayout shows nothing until its effect has run.
Hydrate(t) ==
  /\ tab[t].phase = "loading"
  /\ tab' = [tab EXCEPT ![t] = Guarded([@ EXCEPT !.phase = "hydrated", !.role = cookie])]
  /\ UNCHANGED <<stored, cookie, served, acts>>

MountPage(t) ==
  /\ tab[t].phase = "hydrated"
  /\ tab' = [tab EXCEPT ![t] = Mounted(@, @.path)]
  /\ UNCHANGED <<stored, cookie, served, acts>>

--------------------------------------------------------------------------------
(* What a document shows, and what can be clicked.  Buttons without a       *)
(* handler (reports, maintenance, keys, "Run Execute") are left out.        *)

Menu(doc) ==
  {"/"} \cup CASE doc.role = "admin" -> AdminPaths
               [] doc.role = "user" -> UserPaths
               [] OTHER -> {}

HomeLinks(doc) ==
  {"/login"} \cup CASE doc.role = "admin" -> {"/admin"}
                    [] doc.role = "user" -> {"/user"}
                    [] OTHER -> {}

HomeTabs(doc) ==
  {"overview"} \cup IF doc.role = "admin" THEN {"topology", "modules"} ELSE {}

HomePanel(doc) == {doc.shown} \cap HomeTabs(doc)

ConsoleTabs == {"sql", "doc", "vector"}
ConsolePanel(doc) == {doc.shown} \cap ConsoleTabs

\* loading ? ... : error ? ... : what was loaded.
Fetched(doc, loaded) ==
  CASE doc.load = "loading" -> {"spinner"}
    [] doc.load = "error" -> {"error"}
    [] OTHER -> loaded

AdminUsersView(doc) ==
  Fetched(doc, {"users"} \cup IF doc.load = "empty" THEN {"No users found."} ELSE {})

AdminAuditView(doc) ==
  Fetched(doc, {"logs"} \cup IF doc.load = "empty" THEN {"No logs found."} ELSE {})

ApiKeysView(doc) ==
  {"form"} \cup Fetched(doc, {"keys"} \cup IF doc.load = "empty" THEN {"No API keys found."} ELSE {})

UserDashboardView(doc) == Fetched(doc, {"gauge", "volume", "errors"})

AdminDashboardView == {"metrics", "telemetry", "maintenance"}

LoginView == {"Sign in with AWS Cognito"}

View(doc) ==
  CASE doc.path = "/" -> HomePanel(doc)
    [] doc.path = "/login" -> LoginView
    [] doc.path = "/admin" -> AdminDashboardView
    [] doc.path = "/admin/users" -> AdminUsersView(doc)
    [] doc.path = "/admin/audit" -> AdminAuditView(doc)
    [] doc.path = "/user" -> UserDashboardView(doc)
    [] doc.path = "/user/keys" -> ApiKeysView(doc)
    [] doc.path = "/user/console" -> ConsolePanel(doc)

\* The login page has no sidebar.
Links(doc) ==
  IF doc.path = "/login" THEN {}
  ELSE Menu(doc) \cup IF doc.path = "/" THEN HomeLinks(doc) ELSE {}

SubTabs(doc) ==
  CASE doc.path = "/" -> HomeTabs(doc)
    [] doc.path = "/user/console" -> ConsoleTabs
    [] OTHER -> {}

--------------------------------------------------------------------------------
(* The user                                                                 *)

Act == acts < MaxActs /\ acts' = acts + 1

\* A path typed into the address bar.
Open(t, p) ==
  /\ Act
  /\ tab' = [tab EXCEPT ![t] = Loaded(p)]
  /\ UNCHANGED <<stored, cookie, served>>

\* Mutant of FollowLink: the effect of the guard runs once, not on every path.
FollowLinkUnguarded(t, p) ==
  /\ Act
  /\ tab[t].phase = "shown" /\ p \in Links(tab[t]) \ {tab[t].path}
  /\ tab' = [tab EXCEPT ![t] = Mounted(@, p)]
  /\ UNCHANGED <<stored, cookie, served>>

\* A client-side navigation: the effect of the new page runs before the guard's.
FollowLink(t, p) ==
  /\ Act
  /\ tab[t].phase = "shown" /\ p \in Links(tab[t]) \ {tab[t].path}
  /\ tab' = [tab EXCEPT ![t] = Guarded(Mounted(@, p))]
  /\ UNCHANGED <<stored, cookie, served>>

SelectTab(t, x) ==
  /\ Act
  /\ tab[t].phase = "shown" /\ x \in SubTabs(tab[t])
  /\ tab' = [tab EXCEPT ![t].shown = x]
  /\ UNCHANGED <<stored, cookie, served>>

Login(t) ==
  /\ Act
  /\ tab[t].phase = "shown" /\ tab[t].path = "/login"
  /\ tab' = [tab EXCEPT ![t].nav = "cognito/login"]
  /\ UNCHANGED <<stored, cookie, served>>

Logout(t) ==
  /\ Act
  /\ tab[t].phase = "shown" /\ tab[t].path # "/login"
  /\ tab' = [tab EXCEPT ![t].role = None, ![t].nav = "cognito/logout"]
  /\ UNCHANGED <<stored, cookie, served>>

--------------------------------------------------------------------------------
(* The browser and the server                                               *)

\* CognitoALBMiddleware comes before authMiddleware: it sets the cookies with every
\* answer, refusals included, to one role for everybody.
CookieAfterAnswer == IF Alb THEN "user_db" ELSE cookie

\* The pending navigation replaces the document.  The backend's login and logout
\* pages carry no token, so authMiddleware refuses them before their handlers run.
Navigate(t) ==
  LET out == tab[t].nav \in Outside IN
  /\ tab[t].nav # None
  /\ tab' = [tab EXCEPT ![t] = IF out THEN Away ELSE Loaded(@.nav)]
  /\ cookie' = IF out THEN CookieAfterAnswer ELSE cookie
  /\ UNCHANGED <<stored, served, acts>>

Statuses == {"200", "401", "403", "404", "failed"}

\* authMiddleware lets the mock tokens pass, the audit view does not know them, and
\* what no module has registered is left to the file server.
Status(q) ==
  CASE q.token = "" -> "401"
    [] q.token # "" /\ q.endpoint = "/api/admin/audit" -> "403"
    [] q.token # "" /\ q.endpoint \in served -> "200"
    [] OTHER -> "404"

\* Mutant of Settled: a load that fails is not settled.
SettledIfOk(load, status) ==
  IF status = "200" THEN {"rows", "empty"} ELSE {load}

\* setLoading(false) comes with the rows, or with the error.
Settled(load, status) ==
  IF status = "200" THEN {"rows", "empty"} ELSE {"error"}

\* fetchAPI returns to its page.
Received(doc, q, load, status) ==
  [doc EXCEPT !.requests = doc.requests \ {q}, !.load = load,
              !.nav = IF status = "401" THEN "/login" ELSE doc.nav]

\* A fetch may fail.  On 401 the browser is signed out, also when the page that
\* asked is gone.
Answer(t, q, status) ==
  /\ q \in tab[t].requests /\ status \in {Status(q), "failed"}
  /\ stored' = IF status = "401" THEN None ELSE stored
  /\ cookie' = IF status = "failed" THEN cookie ELSE CookieAfterAnswer
  /\ \E load \in IF q.mine THEN Settled(tab[t].load, status) ELSE {tab[t].load} :
       tab' = [tab EXCEPT ![t] = Received(@, q, load, status)]
  /\ UNCHANGED <<served, acts>>

--------------------------------------------------------------------------------
Init ==
  /\ stored \in StoredRoles /\ cookie \in CookieRoles /\ served \in Deployments
  /\ tab = [t \in Tabs |-> Away]
  /\ acts = 0

Answered(t) == \E q \in tab[t].requests : \E status \in Statuses : Answer(t, q, status)

UserAct(t) ==
  \/ \E p \in Paths : Open(t, p) \/ FollowLink(t, p)
  \/ \E x \in SubTabs(tab[t]) : SelectTab(t, x)
  \/ Login(t) \/ Logout(t)

Next == \E t \in Tabs : UserAct(t) \/ Hydrate(t) \/ MountPage(t) \/ Navigate(t) \/ Answered(t)

Spec == Init /\ [][Next]_vars

\* React runs the effects of what it has rendered, a navigation that has started
\* ends, and so does every fetch, if only in an error.
FairStep(t, a) ==
  \/ a = "document" /\ (Hydrate(t) \/ MountPage(t) \/ Navigate(t))
  \/ a = "fetch" /\ Answered(t)

Fairness == \A t \in Tabs : \A a \in {"document", "fetch"} : WF_vars(FairStep(t, a))

FairSpec == Spec /\ Fairness

--------------------------------------------------------------------------------
(* Properties                                                               *)

Document ==
  [path : Paths \cup {None}, phase : {"away", "loading", "hydrated", "shown"},
   role : CookieRoles \cup {"user_db", None},
   nav : {None, "/login", "/user", "/admin"} \cup Outside,
   load : {None, "loading", "error", "rows", "empty"},
   shown : {None, "overview", "topology", "modules"} \cup ConsoleTabs,
   requests : SUBSET [endpoint : {page.endpoint : page \in LoadingPages},
                      token : {"", "admin_token", "user_token"}, mine : BOOLEAN]]

TypeOK ==
  /\ stored \in StoredRoles \cup {None} /\ cookie \in CookieRoles \cup {"user_db"}
  /\ tab \in [Tabs -> Document]
  /\ served \in Deployments /\ acts \in 0 .. MaxActs

\* The tab stays where it is.
Resting(t) == tab[t].phase \in {"hydrated", "shown"} /\ tab[t].nav = None

\* A tab that stays on a page of admins or of users has that role in localStorage,
\* however it came there and whatever the other tabs did to localStorage in the
\* meantime (the guard of AppLayout).
RestIsAdmitted ==
  \A t \in Tabs : Resting(t) =>
    /\ tab[t].path \in AdminPaths => stored = "admin"
    /\ tab[t].path \in UserPaths => stored = "user"

\* A browser with a role that fetchAPI knows is never signed out and never sent to
\* the login page by the console itself, also not by answers that come late or for
\* pages that are gone (fetchAPI, AppLayout).
RoleKeepsSession ==
  [][(stored \in Roles) =>
       /\ stored' = stored
       /\ \A t \in Tabs : tab'[t].nav = "/login" => tab[t].nav = "/login"]_vars

\* A tab that waits for nothing shows a page and no spinner, after failed loads, links
\* followed while loading and answers in any order (the pages' effects).
RestShowsContent ==
  \A t \in Tabs :
    Resting(t) /\ tab[t].phase = "shown" /\ tab[t].requests = {} =>
      View(tab[t]) # {} /\ "spinner" \notin View(tab[t])

AtRest(t) == tab[t].phase = "away" \/ (tab[t].phase = "shown" /\ tab[t].nav = None /\ tab[t].requests = {})

\* The redirects of the guard lead somewhere: with no role or a role the console knows
\* every tab comes to rest once the user does (AppLayout, fetchAPI).
TabsSettle ==
  <>[](stored \in Roles \cup {None}) => \A t \in Tabs : <>[]AtRest(t)

--------------------------------------------------------------------------------
(* What the documents and the comments say and the code does not keep.      *)

\* The cookies "hydrate the Next.js UI context" (authentication.md): a tab of a browser
\* that has them is not sent to the login page.  The guard looks into localStorage.
HydratedStays ==
  [][\A t \in Tabs : cookie # None /\ tab[t].nav # "/login" => tab'[t].nav # "/login"]_vars

\* handleCognitoLogout clears "frontend state cookies"; authMiddleware refuses the
\* request before it gets there, and behind the load balancer sets them again.
LogoutClearsCookies ==
  [][\A t \in Tabs : tab[t].nav = "cognito/logout" /\ tab'[t].phase = "away" => cookie' = None]_vars

\* What the menu offers is not taken back by the guard: the menu follows the cookie,
\* the guard follows localStorage.
MenuIsAdmitted ==
  \A t \in Tabs : tab[t].phase = "shown" /\ tab[t].nav = None =>
    \A p \in Menu(tab[t]) : Guard(p) = None

\* A page that the guard refuses loads nothing: its effect runs before the guard's, or
\* before the navigation.
RefusedPageLoadsNothing ==
  \A t \in Tabs : tab[t].nav \in {"/admin", "/user"} => {q \in tab[t].requests : q.mine} = {}

\* Every role settles: one that is neither admin nor user goes to and fro between
\* /admin and /user.
EveryRoleSettles == \A t \in Tabs : <>[]AtRest(t)
================================================================================
