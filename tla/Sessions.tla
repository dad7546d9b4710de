-------------------------------- MODULE Sessions --------------------------------
(***************************************************************************)
(* Users, sessions and the audit log (internal/api/auth.go, audit.go, the  *)
(* authMiddleware of server.go and the auto-registration of oidc.go) with  *)
(* their two locks.  A request runs in a goroutine of its own; logout logs *)
(* under sessMu, and the audit view answers its client under auditLogsMu.  *)
(* A token comes in the header X-Arora-Token or in the query (?token=);    *)
(* the routes of users, the audit log and the logout read the header only. *)
(***************************************************************************)
EXTENDS Integers, Sequences

CONSTANTS
  Requests,      \* requests; the token a login r hands out is called r
  Users,         \* user names
  DefaultUsers,  \* usersDb: the users known without the store
  Owner, Dba,    \* the default users with the roles admin_proj and admin_db
  GlobalToken,   \* s.cfg.Token, or None when none is configured
  MaxAudit,      \* maxAudit
  None

\* What a request wants, beside a login.
Kinds == {"logout", "view", "put", "create", "delete_user"}

SessionsAssumption ==
  /\ {Owner, Dba} \subseteq DefaultUsers /\ DefaultUsers \subseteq Users
  /\ MaxAudit \in Nat \ {0}
  /\ Requests \cap {None, GlobalToken, "admin_token", "user_token"} = {}
  /\ None \notin Kinds \cup {"login"}

VARIABLES
  users,        \* role of each user in the store, or None
  sessions,     \* token -> role cached at login
  sessMu,       \* the logout that holds sessMu while it logs, or None
  auditLogs,
  auditWriter,  \* who has announced or holds auditLogsMu for writing, or None
  auditReaders, \* who holds it for reading
  req,          \* per request: where it is, its token and how it came, its outcome
  events        \* every audit event in order (history)

vars == <<users, sessions, sessMu, auditLogs, auditWriter, auditReaders, req, events>>
store == <<users, sessions>>
audit == <<auditLogs, auditWriter, auditReaders, events>>

Roles == {"admin_proj", "admin_db", "user_db"}
DefaultRole(u) == IF u = Owner THEN "admin_proj" ELSE IF u = Dba THEN "admin_db" ELSE "user_db"

NewRequest == [at |-> "new", kind |-> None, token |-> None, header |-> TRUE,
               user |-> None, role |-> None, ok |-> FALSE, late |-> FALSE]

\* InitUserDatabase seeds the default users into an empty store.
Init ==
  /\ users = [u \in Users |-> IF u \in DefaultUsers THEN DefaultRole(u) ELSE None]
  /\ sessions = [t \in {} |-> None]
  /\ sessMu = None /\ auditWriter = None /\ auditReaders = {}
  /\ auditLogs = <<>> /\ events = <<>>
  /\ req = [r \in Requests |-> NewRequest]

At(r, at) == req[r].at = at
Goto(r, at) == req' = [req EXCEPT ![r].at = at]
Answer(r) == req' = [req EXCEPT ![r].at = "done", ![r].ok = TRUE]

\* An error is answered; nothing depends on the request any more.
Refuse(r) == req' = [req EXCEPT ![r] = [NewRequest EXCEPT !.at = "done"]]

\* Tokens clients know: those of logins that were answered.
Delivered == {r \in Requests : req[r].kind = "login" /\ At(r, "done") /\ req[r].ok}

\* Tokens that are no session's: those of the demo, with their roles, and the
\* configured one.
MockRole == [admin_token |-> "admin_db", user_token |-> "user_db"]
Standing == DOMAIN MockRole \cup ({GlobalToken} \ {None})

\* The tokens of answered logouts that carried them in the header.
LoggedOut == {req[r].token : r \in {q \in Requests : /\ req[q].kind = "logout" /\ req[q].header
                                                     /\ At(q, "done") /\ req[q].ok}} \ Standing

\* GetSession takes sessMu for reading: it waits for a logout that is logging.
CanRead == sessMu = None

\* The token in the header, and whether it is that of a project admin.
HeaderToken(r) == IF req[r].header THEN req[r].token ELSE None
IsAdmin(r) ==
  LET t == HeaderToken(r) IN t \in DOMAIN sessions /\ sessions[t] = "admin_proj"

\* resolveSession: without a configured token a session that is gone is a project admin's.
RoleOf(t) ==
  IF t \in DOMAIN sessions THEN sessions[t]
  ELSE IF t \in DOMAIN MockRole THEN MockRole[t]
  ELSE IF GlobalToken = None THEN "admin_proj" ELSE None

--------------------------------------------------------------------------------
(* LogAuditEvent                                                            *)

\* A waiting writer keeps new readers out (sync.RWMutex).
AuditLock(r) ==
  /\ At(r, "audit") /\ auditWriter = None
  /\ auditWriter' = r
  /\ Goto(r, "auditing")
  /\ UNCHANGED <<store, sessMu, auditLogs, auditReaders, events>>

Trimmed(log) == IF Len(log) > MaxAudit THEN Tail(log) ELSE log

AuditAppend(r) ==
  LET e == [kind |-> req[r].kind, token |-> req[r].token] IN
  /\ At(r, "auditing") /\ auditReaders = {}
  /\ auditLogs' = Trimmed(Append(auditLogs, e))
  /\ events' = Append(events, e)
  /\ auditWriter' = None
  /\ IF req[r].kind = "logout" THEN Goto(r, "delete") ELSE Answer(r)
  /\ UNCHANGED <<store, sessMu, auditReaders>>

--------------------------------------------------------------------------------
(* handleLogin                                                              *)

\* The user is looked up in the store, then in the defaults, also when the store
\* fails, as it does once a restore has closed its engine.
LoginLookup(r, u) ==
  /\ At(r, "new")
  /\ \E role \in {users[u], IF u \in DefaultUsers THEN DefaultRole(u) ELSE None} \ {None} :
       req' = [req EXCEPT ![r] = [NewRequest EXCEPT !.at = "add", !.kind = "login",
                                                     !.token = r, !.role = role]]
  /\ UNCHANGED <<store, sessMu, audit>>

\* The user is unknown or the password wrong.
LoginRefused(r) ==
  /\ At(r, "new")
  /\ Refuse(r)
  /\ UNCHANGED <<store, sessMu, audit>>

LoginAdd(r) ==
  /\ At(r, "add") /\ sessMu = None
  /\ sessions' = [t \in DOMAIN sessions \cup {r} |->
                    IF t = r THEN req[r].role ELSE sessions[t]]
  /\ Goto(r, "audit")
  /\ UNCHANGED <<users, sessMu, audit>>

--------------------------------------------------------------------------------
(* authMiddleware: every other route first looks the session up.            *)

\* How a token that is no session's came makes no difference.
Admit(r, t, header, kind) ==
  /\ At(r, "new") /\ CanRead
  /\ \/ t \in Delivered \cap DOMAIN sessions
     \/ t \in Standing /\ header
  /\ req' = [req EXCEPT ![r] =
       [NewRequest EXCEPT !.at = "admitted", !.kind = kind, !.token = t,
                          !.header = header, !.late = t \in LoggedOut]]
  /\ UNCHANGED <<store, sessMu, audit>>

\* The token of a session that is gone, or none.
Reject(r, t) ==
  /\ At(r, "new") /\ CanRead
  /\ t \in (Delivered \ DOMAIN sessions) \cup {None}
  /\ req' = [req EXCEPT ![r] = [NewRequest EXCEPT !.at = "done", !.late = t \in LoggedOut]]
  /\ UNCHANGED <<store, sessMu, audit>>

Admitted(r, kind) == At(r, "admitted") /\ req[r].kind = kind

--------------------------------------------------------------------------------
(* handleLogout                                                             *)

\* Mutant of LogoutFind: the lock is not kept while the event is logged.
LogoutFindUnlocked(r) ==
  /\ Admitted(r, "logout") /\ sessMu = None
  /\ IF HeaderToken(r) \in DOMAIN sessions THEN Goto(r, "audit") ELSE Answer(r)
  /\ UNCHANGED <<store, sessMu, audit>>

\* Without a token in the header it answers with success too.
LogoutFind(r) ==
  /\ Admitted(r, "logout") /\ sessMu = None
  /\ IF HeaderToken(r) \in DOMAIN sessions
     THEN Goto(r, "audit") /\ sessMu' = r
     ELSE Answer(r) /\ UNCHANGED sessMu
  /\ UNCHANGED <<store, audit>>

\* Mutant of LogoutDelete: the session stays.
LogoutDeleteNot(r) ==
  /\ At(r, "delete") /\ Answer(r) /\ sessMu' = None
  /\ UNCHANGED <<store, audit>>

LogoutDelete(r) ==
  /\ At(r, "delete")
  /\ sessions' = [t \in DOMAIN sessions \ {req[r].token} |-> sessions[t]]
  /\ sessMu' = None
  /\ Answer(r)
  /\ UNCHANGED <<users, audit>>

--------------------------------------------------------------------------------
(* handleGetAuditLogs                                                       *)

ViewCheck(r) ==
  /\ Admitted(r, "view") /\ CanRead
  /\ IF IsAdmin(r) THEN Goto(r, "view") ELSE Refuse(r)
  /\ UNCHANGED <<store, sessMu, audit>>

ViewLock(r) ==
  /\ At(r, "view") /\ auditWriter = None
  /\ auditReaders' = auditReaders \cup {r}
  /\ Goto(r, "viewing")
  /\ UNCHANGED <<store, sessMu, auditLogs, auditWriter, events>>

\* Mutant of ViewAnswer: the session is looked up under auditLogsMu.
ViewAnswerChecks(r) ==
  /\ At(r, "viewing") /\ CanRead
  /\ auditReaders' = auditReaders \ {r}
  /\ Answer(r)
  /\ UNCHANGED <<store, sessMu, auditLogs, auditWriter, events>>

\* The answer is written while the lock is held.
ViewAnswer(r) ==
  /\ At(r, "viewing")
  /\ auditReaders' = auditReaders \ {r}
  /\ Answer(r)
  /\ UNCHANGED <<store, sessMu, auditLogs, auditWriter, events>>

--------------------------------------------------------------------------------
(* Requests that change the store: a key is put, a user is created, deleted *)
(* or registered from the headers of the load balancer.                     *)

\* checkRole looks the session up again; the engine's Put may fail.
PutKV(r) ==
  /\ Admitted(r, "put") /\ CanRead
  /\ \/ RoleOf(req[r].token) \in {"admin_proj", "admin_db"} /\ Goto(r, "audit")
     \/ Refuse(r)
  /\ UNCHANGED <<store, sessMu, audit>>

UserCheck(r, kind) ==
  /\ Admitted(r, kind) /\ CanRead
  /\ IF IsAdmin(r) THEN Goto(r, kind) ELSE Refuse(r)
  /\ UNCHANGED <<store, sessMu, audit>>

CreateUser(r, u, role) ==
  /\ At(r, "create")
  /\ users' = [users EXCEPT ![u] = role]
  /\ Goto(r, "audit")
  /\ UNCHANGED <<sessions, sessMu, audit>>

\* The owner is refused.
DeleteUser(r, u) ==
  /\ At(r, "delete_user")
  /\ IF u = Owner THEN Refuse(r) /\ UNCHANGED users
     ELSE users' = [users EXCEPT ![u] = None] /\ Goto(r, "audit")
  /\ UNCHANGED <<sessions, sessMu, audit>>

\* The store refuses the Put or the Delete, as a closed engine does.
UserStoreFails(r) ==
  /\ At(r, "create") \/ At(r, "delete_user")
  /\ Refuse(r)
  /\ UNCHANGED <<store, sessMu, audit>>

\* CognitoALBMiddleware: a user the store does not have ...
RegisterLook(r, u) ==
  /\ At(r, "new") /\ users[u] = None
  /\ req' = [req EXCEPT ![r] =
       [NewRequest EXCEPT !.at = "register", !.kind = "register", !.user = u]]
  /\ UNCHANGED <<store, sessMu, audit>>

\* ... is put with the role user_db; an error of the Put is ignored.
RegisterPut(r) ==
  /\ At(r, "register")
  /\ users' \in {users, [users EXCEPT ![req[r].user] = "user_db"]}
  /\ Answer(r)
  /\ UNCHANGED <<sessions, sessMu, audit>>

--------------------------------------------------------------------------------

Begin(r) ==
  \/ LoginRefused(r) \/ \E u \in Users : LoginLookup(r, u) \/ RegisterLook(r, u)
  \/ \E t \in Requests \cup {None} : Reject(r, t)
  \/ \E t \in Requests \cup Standing, header \in BOOLEAN, kind \in Kinds :
       Admit(r, t, header, kind)

Step(r) ==
  \/ LoginAdd(r) \/ LogoutFind(r) \/ LogoutDelete(r)
  \/ AuditLock(r) \/ AuditAppend(r)
  \/ ViewCheck(r) \/ ViewLock(r) \/ ViewAnswer(r)
  \/ PutKV(r) \/ UserCheck(r, "create") \/ UserCheck(r, "delete_user")
  \/ UserStoreFails(r) \/ RegisterPut(r)
  \/ \E u \in Users : DeleteUser(r, u) \/ (\E role \in Roles : CreateUser(r, u, role))

Next == \E r \in Requests : Begin(r) \/ Step(r)

Spec == Init /\ [][Next]_vars

\* A goroutine that can run runs, and a write to a slow client ends with the
\* WriteTimeout of the server.  Requests are finitely many: a lock is free for good
\* when the others are done.
Fairness == \A r \in Requests : WF_vars(Step(r))

FairSpec == Spec /\ Fairness

--------------------------------------------------------------------------------
(* Properties                                                               *)

\* The places of the audit events of one kind about the session t.
Said(kind, t) == {i \in DOMAIN events : events[i].kind = kind /\ events[i].token = t}

TypeOK ==
  /\ \A u \in Users : users[u] \in Roles \cup {None}
  /\ DOMAIN sessions \subseteq Requests
  /\ \A r \in auditReaders : At(r, "viewing")
  /\ auditWriter # None => At(auditWriter, "auditing")
  /\ sessMu # None => req[sessMu].at \in {"audit", "auditing", "delete"}

\* The audit log tells the life of every session: one USER_LOGIN before its token is
\* handed out and one USER_LOGOUT when it ends, in that order, also when logouts of
\* the same session overlap (handleLogin, handleLogout); and the view shows the last
\* MaxAudit events (LogAuditEvent).
SessionsAreAudited ==
  /\ auditLogs = SubSeq(events, IF Len(events) > MaxAudit THEN Len(events) - MaxAudit + 1 ELSE 1,
                        Len(events))
  /\ \A t \in Requests :
       /\ \A i, j \in Said("login", t) : i = j
       /\ \A i, j \in Said("logout", t) : i = j /\ (\E l \in Said("login", t) : l < i)
       /\ t \in Delivered => Said("login", t) # {}
       /\ t \in Delivered \ DOMAIN sessions => Said("logout", t) # {}

\* Nobody who begins after a logout by the header was answered is served with its
\* token, in either place, while logouts, logins and views overlap (handleLogout,
\* authMiddleware).
LoggedOutIsRefused ==
  \A r \in Requests : req[r].late => ~ req[r].ok

\* Every request is answered, with logs written under sessMu and answers under
\* auditLogsMu (handleLogout, handleGetAuditLogs): the locks are never waited for in
\* a circle.
EveryRequestEnds ==
  \A r \in Requests : ~ At(r, "new") ~> At(r, "done")

--------------------------------------------------------------------------------
(* What the code says and does not keep.                                    *)

\* A logout that was answered with success has ended its session: a token in the
\* query is admitted by authMiddleware, and handleLogout does not see it.
LogoutEndsSession ==
  \A r \in Requests : req[r].kind = "logout" /\ At(r, "done") /\ req[r].ok =>
    req[r].token \notin DOMAIN sessions

\* "Auto-register in DB if new": a registration replaces no user.  One that was
\* onboarded between the lookup and the Put is replaced.
RegistersOnlyNewUsers ==
  [][\A r \in Requests : RegisterPut(r) => users[req[r].user] = None]_vars
================================================================================
