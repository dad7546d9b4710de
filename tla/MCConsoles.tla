-------------------------------- MODULE MCConsoles -------------------------------
(***************************************************************************)
(* The two consoles, each in two tabs of a browser of its own.  They share *)
(* no state, so a behaviour exercises one of them, its subject.            *)
(***************************************************************************)
EXTENDS WebConsole

\* The handlers of the user manager are never registered.  With two of three every
\* outcome of a load occurs.
MCDeployments == {{"/api/v1/admin/users", "/api/v1/user/stats"}}

\* The embedded console
CONSTANTS Accounts, RoleOf, Owner, Secured, MaxLogins, MaxEvents, MaxPolls
VARIABLES dashTab, local, account, live, net, events

dashVars == <<dashTab, local, account, live, net, events>>

\* A project admin and a database user.
MCRoleOf == [u \in Accounts |-> IF u = Owner THEN "admin_proj" ELSE "user_db"]

Dash == INSTANCE Dashboard WITH tab <- dashTab

ASSUME ConsolesAssumption == Dash!DashboardAssumption

VARIABLE subject

ConsolesInit ==
  /\ subject \in {"web", "dashboard"}
  /\ Init /\ Dash!Init
  /\ subject = "web" \/ (stored = None /\ cookie = None)

ConsolesNext ==
  /\ UNCHANGED subject
  /\ IF subject = "web" THEN Next ELSE UNCHANGED vars
  /\ IF subject = "dashboard" THEN Dash!Next ELSE UNCHANGED dashVars

ConsolesSafety == ConsolesInit /\ [][ConsolesNext]_<<subject, vars, dashVars>>

\* The fairness of the two modules; only the subject ever takes a step.
ConsolesFairness ==
  /\ \A t \in Tabs : \A a \in {"document", "fetch"} :
       WF_vars(subject = "web" /\ FairStep(t, a))
  /\ \A t \in Tabs : \A a \in Dash!FairSteps :
       WF_dashVars(subject = "dashboard" /\ Dash!FairStep(t, a))

ConsolesSpec == ConsolesSafety /\ ConsolesFairness

\* tn, nn: token, role and name are of one login.
SessionIsOneLogin == Dash!SessionIsOneLogin

\* The console asks for what the server allows, while its session lasts.
ForbiddenMeansOver == Dash!ForbiddenMeansOver

\* The finally clauses: a spinner has a request.
SpinnerHasRequest == Dash!SpinnerHasRequest

\* Ht: a tab finds out that its session is gone.
DeadSessionNoticed == Dash!DeadSessionNoticed

\* "Session expired": the session was over.
ExpiredSessionIsDead == Dash!ExpiredSessionIsDead
================================================================================
