----------------------------- MODULE SessionsProofs -----------------------------
(* Proofs about Sessions for any number of requests and users and any length *)
(* of the audit log.                                                        *)
EXTENDS Sessions, SequenceTheorems, TLAPS

Places == {"new", "add", "admitted", "audit", "auditing", "delete", "view", "viewing",
           "create", "delete_user", "register", "done"}

Tokens == Requests \cup Standing \cup {None}

Request == [at : Places, kind : Kinds \cup {"login", "register", None},
            token : Tokens, header : BOOLEAN, user : Users \cup {None}, role : Roles \cup {None},
            ok : BOOLEAN, late : BOOLEAN]

Event == [kind : Kinds \cup {"login", "register", None}, token : Tokens]

Types ==
  /\ users \in [Users -> Roles \cup {None}]
  /\ DOMAIN sessions \subseteq Requests
  /\ req \in [Requests -> Request]
  /\ events \in Seq(Event)

\* Where a request of a kind can be.
Path(q) ==
  /\ q.at # "done" => ~ q.ok
  /\ q.at = "new" => ~ q.late
  /\ q.late => q.at = "done" /\ ~ q.ok
  /\ q.at = "add" => q.kind = "login"
  /\ q.at = "delete" => q.kind = "logout"
  /\ q.at \in {"create", "delete_user"} => q.kind = q.at
  /\ q.at \in {"view", "viewing"} => q.kind = "view"
  /\ q.at = "admitted" => q.kind \in Kinds
  /\ q.at = "register" => q.kind = "register"
  /\ q.at \in {"audit", "auditing"} => q.kind \in Kinds \cup {"login"}

\* A login hands out the token that is named after it; other requests bring one that a
\* login has handed out, or one that is no session's.
Brings(r, q) ==
  /\ q.at # "new" /\ q.kind = "login" => q.token = r
  /\ q.at # "new" /\ q.kind \in Kinds => q.token \in Delivered \cup Standing

\* A logout that has found its session and not deleted it.
Deleting(q) == q.kind = "logout" /\ q.at \in {"audit", "auditing", "delete"}

\* A login whose event is not yet in the log.
Opening(q) == q.kind = "login" /\ q.at \in {"audit", "auditing"}

\* A request that says it has logged out the session whose token is in its header.
SaysOut(q) == q.kind = "logout" /\ q.header /\ q.at = "done" /\ q.ok

Requested == \A r \in Requests : Path(req[r]) /\ Brings(r, req[r])

\* sessMu is held by the logout that deletes, and by nobody else.
Held ==
  /\ sessMu \in Requests \cup {None}
  /\ \A r \in Requests : sessMu = r <=> Deleting(req[r])

Living ==
  /\ \A r \in Requests : Deleting(req[r]) => req[r].token \in DOMAIN sessions
  /\ \A r \in Requests : Opening(req[r]) => r \in DOMAIN sessions
  /\ \A r \in Requests : SaysOut(req[r]) => req[r].token \notin DOMAIN sessions
  /\ \A t \in DOMAIN sessions :
       req[t].kind = "login" /\ req[t].at \in {"audit", "auditing", "done"}

\* The places of the events of one kind about the session t in a log.
Says(log, kind, t) == {i \in DOMAIN log : log[i].kind = kind /\ log[i].token = t}

\* What the log says of a session follows its login and the logout that ends it.
Logged ==
  \A t \in Requests :
    /\ \A i, j \in Says(events, "login", t) : i = j
    /\ \A i, j \in Says(events, "logout", t) : i = j /\ (\E l \in Says(events, "login", t) : l < i)
    /\ Says(events, "login", t) # {} <=> t \in Delivered
    /\ Says(events, "logout", t) # {} =>
         \/ t \in Delivered \ DOMAIN sessions
         \/ \E r \in Requests : /\ req[r].at = "delete"
                                /\ req[r].token = t
    /\ t \in Delivered \ DOMAIN sessions => Says(events, "logout", t) # {}
    /\ \A r \in Requests : req[r].at = "delete" /\ req[r].token = t => Says(events, "logout", t) # {}

\* auditLogs holds the last MaxAudit events.
Kept(n) == IF n > MaxAudit THEN MaxAudit ELSE n
Window ==
  /\ auditLogs \in Seq(Event)
  /\ Len(auditLogs) = Kept(Len(events))
  /\ \A i \in 1 .. Len(auditLogs) : auditLogs[i] = events[Len(events) - Len(auditLogs) + i]

\* auditLogsMu.
Locks ==
  /\ \A r \in auditReaders : r \in Requests /\ At(r, "viewing")
  /\ auditWriter \in Requests \cup {None}
  /\ \A r \in Requests : auditWriter = r => At(r, "auditing")

IInv == Types /\ Requested /\ Held /\ Living /\ Logged /\ Window /\ Locks

--------------------------------------------------------------------------------
(* One lemma per kind of step.                                              *)

\* No session has the name of a mock token or of the configured one.
LEMMA StandingApart == ASSUME SessionsAssumption PROVE Standing \cap Requests = {}
BY DEF SessionsAssumption, Standing, MockRole

\* No request has begun.
LEMMA InitIInv == ASSUME SessionsAssumption, Init PROVE IInv
<1>0. \A r \in Requests : req[r].at = "new" /\ ~ req[r].ok /\ ~ req[r].late
  BY DEF Init, NewRequest
<1>1. Types
  <2>1. users \in [Users -> Roles \cup {None}]
    BY DEF Init, DefaultRole, Roles
  <2>2. req \in [Requests -> Request]
    BY DEF Init, NewRequest, Request, Places, Tokens
  <2>3. events \in Seq(Event) /\ DOMAIN sessions = {}
    BY DEF Init
  <2> QED
    BY <2>1, <2>2, <2>3 DEF Types
<1>2. Requested
  BY <1>0 DEF Requested, Path, Brings
<1>3. Held
  BY <1>0 DEF Held, Deleting, Init, SessionsAssumption
<1>4. Living
  <2>1. DOMAIN sessions = {}
    BY DEF Init
  <2> QED
    BY <1>0, <2>1 DEF Living, Deleting, Opening, SaysOut
<1>5. Logged
  <2>1. \A kind, t : Says(events, kind, t) = {}
    BY DEF Init, Says
  <2>2. Delivered = {}
    BY <1>0 DEF Delivered, At
  <2> QED
    BY <1>0, <2>1, <2>2 DEF Logged
<1>6. Window
  <2>1. auditLogs = <<>> /\ events = <<>> /\ Len(auditLogs) = 0 /\ Len(events) = 0
    BY DEF Init
  <2> QED
    BY <2>1 DEF Window, Kept, SessionsAssumption
<1>7. Locks
  BY DEF Init, Locks, SessionsAssumption
<1> QED
  BY <1>1, <1>2, <1>3, <1>4, <1>5, <1>6, <1>7 DEF IInv

\* A step of one request that touches neither the sessions nor the log.
LEMMA QuietKeepsIInv ==
  ASSUME IInv, NEW r \in Requests, NEW q \in Request,
         req' = [req EXCEPT ![r] = q],
         UNCHANGED <<sessions, sessMu, auditLogs, events>>,
         users' \in [Users -> Roles \cup {None}], Locks',
         req[r].at \notin {"done", "delete"}, q.at \notin {"new", "delete"},
         Path(q), Brings(r, q),
         Deleting(q) <=> Deleting(req[r]), Deleting(q) => q.token = req[r].token,
         Opening(q) <=> Opening(req[r]),
         ~ (q.kind = "login" /\ q.at = "done" /\ q.ok),
         SaysOut(q) => q.token \notin DOMAIN sessions
  PROVE  IInv'
<1>0. /\ Types /\ Requested /\ Held /\ Living /\ Logged /\ Window
      /\ req'[r] = q /\ \A s \in Requests \ {r} : req'[s] = req[s]
  BY DEF IInv, Types
<1>1. Delivered' = Delivered
  BY <1>0 DEF Delivered, At
<1>2. Types'
  BY <1>0 DEF Types
<1>3. Requested'
  <2>1. \A s \in Requests \ {r} : Path(req[s])' /\ Brings(s, req[s])'
    BY <1>0, <1>1 DEF Requested, Path, Brings
  <2>2. Path(req[r])' /\ Brings(r, req[r])'
    BY <1>0, <1>1 DEF Path, Brings
  <2> QED
    BY <2>1, <2>2 DEF Requested
<1>4. Held'
  <2>1. \A s \in Requests : Deleting(req[s])' <=> Deleting(req[s])
    BY <1>0 DEF Deleting
  <2> QED
    BY <1>0, <2>1 DEF Held
<1>5. Living'
  <2>1. \A s \in Requests : Deleting(req[s])' => /\ Deleting(req[s])
                                                /\ req'[s].token = req[s].token
    BY <1>0 DEF Deleting
  <2>2. \A s \in Requests : Opening(req[s])' <=> Opening(req[s])
    BY <1>0 DEF Opening
  <2>3. \A s \in Requests : SaysOut(req[s])' => req'[s].token \notin DOMAIN sessions
    BY <1>0 DEF SaysOut, Living
  <2>4. r \in DOMAIN sessions => Opening(req[r])
    BY <1>0 DEF Living, Opening
  <2>5. \A t \in DOMAIN sessions :
          req'[t].kind = "login" /\ req'[t].at \in {"audit", "auditing", "done"}
    BY <1>0, <2>4 DEF Living, Opening, Types
  <2> QED
    BY <1>0, <2>1, <2>2, <2>3, <2>5 DEF Living
<1>6. Logged'
  <2>1. \A kind, t : Says(events', kind, t) = Says(events, kind, t)
    BY DEF Says
  <2>2. \A s \in Requests : req'[s].at = "delete" => s # r /\ req'[s] = req[s]
    BY <1>0
  <2>3. \A s \in Requests : req[s].at = "delete" => s # r /\ req'[s] = req[s]
    BY <1>0
  <2> QED
    BY <1>0, <1>1, <2>1, <2>2, <2>3 DEF Logged
<1>7. Window'
  BY <1>0 DEF Window
<1> QED
  BY <1>2, <1>3, <1>4, <1>5, <1>6, <1>7 DEF IInv

\* The record of a request that goes on.
LEMMA GotoRecord ==
  ASSUME Types, NEW r \in Requests, NEW p \in Places, Goto(r, p)
  PROVE  \E q \in Request : /\ req' = [req EXCEPT ![r] = q]
                            /\ q.at = p /\ q.kind = req[r].kind /\ q.token = req[r].token
                            /\ q.header = req[r].header /\ q.ok = req[r].ok
                            /\ q.late = req[r].late
<1>0. req[r] \in Request /\ req \in [Requests -> Request]
  BY DEF Types
<1>1. PICK q : q = [req[r] EXCEPT !.at = p]
  OBVIOUS
<1>2. req' = [req EXCEPT ![r] = q]
  BY <1>0, <1>1 DEF Goto
<1>3. /\ q \in Request /\ q.at = p /\ q.kind = req[r].kind /\ q.token = req[r].token
      /\ q.header = req[r].header /\ q.ok = req[r].ok /\ q.late = req[r].late
  BY <1>0, <1>1 DEF Request
<1> QED
  BY <1>2, <1>3

\* The record of a request that is answered.
LEMMA AnswerRecord ==
  ASSUME Types, NEW r \in Requests, Answer(r)
  PROVE  \E q \in Request : /\ req' = [req EXCEPT ![r] = q]
                            /\ q.at = "done" /\ q.kind = req[r].kind
                            /\ q.token = req[r].token /\ q.header = req[r].header
                            /\ q.ok = TRUE /\ q.late = req[r].late
<1>0. req[r] \in Request /\ req \in [Requests -> Request]
  BY DEF Types
<1>1. PICK p : p = [req[r] EXCEPT !.at = "done"]
  OBVIOUS
<1>2. PICK q : q = [p EXCEPT !.ok = TRUE]
  OBVIOUS
<1>3. /\ p \in Request /\ p.kind = req[r].kind /\ p.token = req[r].token /\ p.late = req[r].late
      /\ p.header = req[r].header /\ p.at = "done"
  BY <1>0, <1>1 DEF Request, Places
<1>4. /\ q \in Request /\ q.at = "done" /\ q.kind = req[r].kind /\ q.token = req[r].token
      /\ q.header = req[r].header /\ q.ok = TRUE /\ q.late = req[r].late
  BY <1>2, <1>3 DEF Request
<1>5. req' = [req EXCEPT ![r] = q]
  BY <1>0, <1>1, <1>2 DEF Answer, Request
<1> QED
  BY <1>4, <1>5

\* A request that begins or is refused has a record made from a new one.
LEMMA BeginKeepsIInv ==
  ASSUME SessionsAssumption, IInv, NEW r \in Requests, NEW q \in Request,
         req' = [req EXCEPT ![r] = q],
         req[r].at \in {"new", "admitted", "create", "delete_user"}, ~ Deleting(req[r]),
         q.at \in {"add", "admitted", "register", "done"}, ~ q.ok, q.late => q.at = "done",
         q.at = "add" => q.kind = "login" /\ q.token = r,
         q.at = "admitted" => q.kind \in Kinds /\ q.token \in Delivered \cup Standing,
         q.at = "register" => q.kind = "register",
         q.at = "done" => q.kind = None,
         UNCHANGED <<store, sessMu, audit>>
  PROVE  IInv'
<1>0. /\ Types /\ Locks /\ users \in [Users -> Roles \cup {None}]
      /\ req \in [Requests -> Request] /\ None \notin Kinds /\ None # "login"
  BY DEF IInv, Types, SessionsAssumption
<1>1. Path(q) /\ Brings(r, q)
  BY <1>0 DEF Path, Brings, Kinds
<1>2. ~ Deleting(q) /\ ~ Opening(q) /\ ~ SaysOut(q) /\ ~ Opening(req[r])
  BY DEF Deleting, Opening, SaysOut
<1>3. Locks'
  BY <1>0 DEF Locks, At, audit
<1>4. /\ UNCHANGED <<sessions, sessMu, auditLogs, events>>
      /\ users' \in [Users -> Roles \cup {None}]
  BY <1>0 DEF store, audit
<1> QED
  BY <1>1, <1>2, <1>3, <1>4, QuietKeepsIInv

\* A request is refused.
LEMMA RefuseKeepsIInv ==
  ASSUME SessionsAssumption, IInv, NEW r \in Requests, Refuse(r),
         req[r].at \in {"new", "admitted", "create", "delete_user"},
         UNCHANGED <<store, sessMu, audit>>
  PROVE  IInv'
<1>1. PICK q : q = [NewRequest EXCEPT !.at = "done"]
  OBVIOUS
<1>2. q \in Request /\ q.at = "done" /\ ~ q.ok /\ ~ q.late /\ q.kind = None
  BY <1>1 DEF NewRequest, Request, Places, Tokens
<1>3. req' = [req EXCEPT ![r] = q] /\ ~ Deleting(req[r])
  BY <1>1 DEF Refuse, Deleting
<1> QED
  BY <1>2, <1>3, BeginKeepsIInv

\* A request begins: a login has found its user, a registration has not; one that comes
\* after the logout of its session is not admitted.
LEMMA BeginsKeepIInv ==
  ASSUME SessionsAssumption, IInv, NEW r \in Requests, Begin(r)
  PROVE  IInv'
<1>0. req[r].at = "new" /\ ~ Deleting(req[r]) /\ Types /\ Living /\ None \in Tokens
  BY DEF IInv, Begin, LoginLookup, LoginRefused, RegisterLook, Admit, Reject, At, Deleting, Tokens
<1>1. ASSUME NEW u \in Users, LoginLookup(r, u) PROVE IInv'
  <2>1. PICK role \in {users[u], IF u \in DefaultUsers THEN DefaultRole(u) ELSE None} \ {None} :
          req' = [req EXCEPT ![r] = [NewRequest EXCEPT !.at = "add", !.kind = "login",
                                                        !.token = r, !.role = role]]
    BY <1>1 DEF LoginLookup
  <2>2. role \in Roles
    BY <1>0, <2>1 DEF Types, DefaultRole, Roles
  <2>3. PICK q : q = [NewRequest EXCEPT !.at = "add", !.kind = "login", !.token = r, !.role = role]
    OBVIOUS
  <2>4. /\ q \in Request /\ q.at = "add" /\ ~ q.ok /\ ~ q.late /\ q.kind = "login" /\ q.token = r
    BY <1>0, <2>2, <2>3 DEF NewRequest, Request, Places, Tokens
  <2> QED
    BY <1>0, <1>1, <2>1, <2>3, <2>4, BeginKeepsIInv DEF LoginLookup
<1>2. ASSUME NEW u \in Users, RegisterLook(r, u) PROVE IInv'
  <2>1. PICK q : q = [NewRequest EXCEPT !.at = "register", !.kind = "register", !.user = u]
    OBVIOUS
  <2>2. q \in Request /\ q.at = "register" /\ ~ q.ok /\ ~ q.late /\ q.kind = "register"
    BY <1>0, <2>1 DEF NewRequest, Request, Places
  <2> QED
    BY <1>0, <1>2, <2>1, <2>2, BeginKeepsIInv DEF RegisterLook
<1>3. ASSUME NEW t \in Requests \cup Standing, NEW header \in BOOLEAN, NEW kind \in Kinds,
             Admit(r, t, header, kind)
      PROVE  IInv'
  <2>1. t \notin LoggedOut
    BY <1>0, <1>3 DEF Admit, LoggedOut, Living, SaysOut, At
  <2>2. PICK late : late = (t \in LoggedOut)
    OBVIOUS
  <2>3. late \in BOOLEAN /\ late = FALSE
    <3>1. late \in BOOLEAN
      BY <2>2
    <3>2. late <=> FALSE
      BY <2>2, <2>1
    <3> QED
      BY <3>1, <3>2
  <2>4. PICK q : q = [NewRequest EXCEPT !.at = "admitted", !.kind = kind, !.token = t,
                                        !.header = header, !.late = late]
    OBVIOUS
  <2>5. /\ q \in Request /\ q.at = "admitted" /\ ~ q.ok /\ ~ q.late
        /\ q.kind = kind /\ q.token = t
    BY <1>0, <2>4, <2>3 DEF NewRequest, Request, Places, Tokens
  <2>6. t \in Delivered \cup Standing /\ UNCHANGED <<store, sessMu, audit>>
    BY <1>3 DEF Admit
  <2>7. req' = [req EXCEPT ![r] = q]
    BY <1>3, <2>2, <2>4 DEF Admit
  <2> QED
    BY <1>0, <2>5, <2>6, <2>7, BeginKeepsIInv
<1>4. ASSUME NEW t \in Requests \cup {None}, Reject(r, t) PROVE IInv'
  <2>1. PICK late : late = (t \in LoggedOut)
    OBVIOUS
  <2>2. late \in BOOLEAN
    BY <2>1
  <2>3. PICK q : q = [NewRequest EXCEPT !.at = "done", !.late = late]
    OBVIOUS
  <2>4. q \in Request /\ q.at = "done" /\ ~ q.ok /\ q.kind = None
    BY <1>0, <2>3, <2>2 DEF NewRequest, Request, Places
  <2>5. req' = [req EXCEPT ![r] = q] /\ UNCHANGED <<store, sessMu, audit>>
    BY <1>4, <2>1, <2>3 DEF Reject
  <2> QED
    BY <1>0, <2>4, <2>5, BeginKeepsIInv
<1>5. CASE LoginRefused(r)
  BY <1>0, <1>5, RefuseKeepsIInv DEF LoginRefused
<1> QED
  BY <1>1, <1>2, <1>3, <1>4, <1>5 DEF Begin

\* A request goes on to another place of its kind.
LEMMA GotoKeepsIInv ==
  ASSUME IInv, NEW r \in Requests,
         NEW p \in {"audit", "auditing", "view", "viewing", "create", "delete_user"}, Goto(r, p),
         UNCHANGED <<sessions, sessMu, auditLogs, events>>,
         users' \in [Users -> Roles \cup {None}], Locks',
         req[r].at \notin {"new", "add", "delete", "register", "done"},
         p \in {"view", "viewing"} => req[r].kind = "view",
         p \in {"create", "delete_user"} => req[r].kind = p,
         req[r].at \in {"audit", "auditing"} <=> p = "auditing",
         p = "audit" => req[r].kind \notin {"login", "logout"}
  PROVE  IInv'
<1>0. Types /\ Path(req[r]) /\ Brings(r, req[r]) /\ p \in Places
  BY DEF IInv, Requested, Places
<1>1. PICK q \in Request : /\ req' = [req EXCEPT ![r] = q]
                          /\ q.at = p /\ q.kind = req[r].kind /\ q.token = req[r].token
                          /\ q.header = req[r].header /\ q.ok = req[r].ok
                          /\ q.late = req[r].late
  BY <1>0, GotoRecord
<1>2. req[r] \in Request /\ ~ req[r].ok /\ ~ req[r].late
  BY <1>0 DEF Path, Types
<1>3. "login" \notin Kinds
  BY DEF Kinds
<1>4. req[r].kind \in Kinds \cup {"login"} /\ (req[r].kind = "login" => p = "auditing")
  BY <1>0, <1>2, <1>3 DEF Path, Request, Places, Kinds
<1>5. p \in {"create", "delete_user"} => req[r].kind \in Kinds
  BY <1>4
<1>6. Path(q) /\ Brings(r, q)
  BY <1>0, <1>1, <1>2, <1>4, <1>5 DEF Path, Brings
<1>7. (Deleting(q) <=> Deleting(req[r])) /\ (Opening(q) <=> Opening(req[r])) /\ ~ SaysOut(q)
  BY <1>1 DEF Deleting, Opening, SaysOut
<1> QED
  BY <1>1, <1>2, <1>6, <1>7, QuietKeepsIInv

\* A request is answered that neither opens nor ends a session.
LEMMA AnswerKeepsIInv ==
  ASSUME IInv, NEW r \in Requests, Answer(r),
         UNCHANGED <<sessions, sessMu, auditLogs, events>>,
         users' \in [Users -> Roles \cup {None}], Locks',
         req[r].at \notin {"new", "add", "audit", "delete", "done"},
         req[r].at = "auditing" => req[r].kind \notin {"login", "logout"},
         req[r].kind = "logout" /\ req[r].header => req[r].token \notin DOMAIN sessions
  PROVE  IInv'
<1>0. Types /\ Path(req[r]) /\ Brings(r, req[r])
  BY DEF IInv, Requested
<1>1. PICK q \in Request : /\ req' = [req EXCEPT ![r] = q]
                          /\ q.at = "done" /\ q.kind = req[r].kind /\ q.token = req[r].token
                          /\ q.header = req[r].header
                          /\ q.ok = TRUE /\ q.late = req[r].late
  BY <1>0, AnswerRecord
<1>2. req[r] \in Request /\ ~ req[r].late
  BY <1>0 DEF Path, Types
<1>3. req[r].kind # "login"
  BY <1>0, <1>2 DEF Path, Request, Places, Kinds
<1>4. Path(q) /\ Brings(r, q)
  BY <1>0, <1>1, <1>2 DEF Path, Brings
<1>5. ~ Deleting(q) /\ ~ Opening(q) /\ (SaysOut(q) => q.token \notin DOMAIN sessions)
  BY <1>1 DEF Deleting, Opening, SaysOut
<1>6. ~ Deleting(req[r]) /\ ~ Opening(req[r])
  BY <1>3 DEF Deleting, Opening
<1> QED
  BY <1>1, <1>2, <1>3, <1>4, <1>5, <1>6, QuietKeepsIInv

\* auditLogsMu is taken, not released, by a request that goes on.
LEMMA StepKeepsLocks ==
  ASSUME IInv, NEW r \in Requests, \A s \in Requests \ {r} : req'[s] = req[s],
         auditReaders' = auditReaders \ {r} \/ (req[r].at # "viewing" /\ UNCHANGED auditReaders),
         auditWriter' = None \/ (req[r].at # "auditing" /\ UNCHANGED auditWriter), None \notin Requests
  PROVE  Locks'
BY DEF IInv, Locks, At

\* Steps of handlers that only look at the sessions, or change users.
LEMMA HandlerKeepsIInv ==
  ASSUME SessionsAssumption, IInv, NEW r \in Requests,
         \/ AuditLock(r) \/ ViewCheck(r) \/ ViewLock(r) \/ ViewAnswer(r) \/ PutKV(r)
         \/ UserCheck(r, "create") \/ UserCheck(r, "delete_user")
         \/ UserStoreFails(r) \/ RegisterPut(r)
         \/ \E u \in Users : DeleteUser(r, u) \/ \E role \in Roles : CreateUser(r, u, role)
  PROVE  IInv'
<1>0. /\ Types /\ Path(req[r]) /\ Locks /\ req \in [Requests -> Request]
      /\ None \notin Requests
      /\ users \in [Users -> Roles \cup {None}]
  BY DEF IInv, Requested, Types, SessionsAssumption
<1>1. CASE AuditLock(r)
  <2>1. Goto(r, "auditing") /\ req[r].at = "audit" /\ auditWriter' = r /\ UNCHANGED auditReaders
    BY <1>1 DEF AuditLock, At
  <2>2. req'[r].at = "auditing" /\ \A s \in Requests \ {r} : req'[s] = req[s]
    BY <1>0, <2>1 DEF Goto, Request
  <2>3. Locks'
    BY <1>0, <2>1, <2>2 DEF Locks, At
  <2> QED
    BY <1>0, <1>1, <2>1, <2>3, GotoKeepsIInv DEF AuditLock, store
<1>2. CASE ViewLock(r)
  <2>1. Goto(r, "viewing") /\ req[r].at = "view" /\ UNCHANGED auditWriter
        /\ auditReaders' = auditReaders \cup {r}
    BY <1>2 DEF ViewLock, At
  <2>2. req'[r].at = "viewing" /\ \A s \in Requests \ {r} : req'[s] = req[s]
    BY <1>0, <2>1 DEF Goto, Request
  <2>3. Locks'
    BY <1>0, <2>1, <2>2 DEF Locks, At
  <2>4. req[r].kind = "view"
    BY <1>0, <2>1 DEF Path
  <2> QED
    BY <1>0, <1>2, <2>1, <2>3, <2>4, GotoKeepsIInv DEF ViewLock, store
<1>3. CASE ViewAnswer(r)
  <2>1. Answer(r) /\ req[r].at = "viewing" /\ UNCHANGED auditWriter
        /\ auditReaders' = auditReaders \ {r}
    BY <1>3 DEF ViewAnswer, At
  <2>2. \A s \in Requests \ {r} : req'[s] = req[s]
    BY <1>0, <2>1 DEF Answer
  <2>3. Locks'
    BY <1>0, <2>1, <2>2, StepKeepsLocks
  <2>4. req[r].kind = "view"
    BY <1>0, <2>1 DEF Path
  <2> QED
    BY <1>0, <1>3, <2>1, <2>3, <2>4, AnswerKeepsIInv DEF ViewAnswer, store
<1>4. CASE ViewCheck(r) \/ PutKV(r) \/ UserCheck(r, "create") \/ UserCheck(r, "delete_user")
  <2>1. PICK p \in {"view", "audit", "create", "delete_user"} :
          /\ Goto(r, p) \/ Refuse(r)
          /\ p \in {"create", "delete_user"} => req[r].kind = p
          /\ req[r].at = "admitted" /\ req[r].kind \in {"view", "put", "create", "delete_user"}
          /\ p = "view" => req[r].kind = "view"
    BY <1>4 DEF ViewCheck, PutKV, UserCheck, Admitted, At
  <2>2. UNCHANGED <<users, sessions, sessMu, auditLogs, auditWriter, auditReaders, events>>
    BY <1>4 DEF ViewCheck, PutKV, UserCheck, store, audit
  <2>3. Locks'
    <3>1. \A s \in Requests \ {r} : req'[s] = req[s]
      BY <1>0, <2>1 DEF Goto, Refuse
    <3> QED
      BY <1>0, <2>1, <2>2, <3>1, StepKeepsLocks
  <2>4. CASE Goto(r, p)
    BY <1>0, <2>1, <2>2, <2>3, <2>4, GotoKeepsIInv
  <2>5. CASE Refuse(r)
    BY <2>1, <2>2, <2>5, RefuseKeepsIInv DEF store, audit
  <2> QED
    BY <2>1, <2>4, <2>5
<1>5. ASSUME NEW u \in Users, DeleteUser(r, u) \/ \E role \in Roles : CreateUser(r, u, role)
      PROVE  IInv'
  <2>1. /\ Goto(r, "audit") \/ (Refuse(r) /\ UNCHANGED users)
        /\ req[r].at \in {"create", "delete_user"}
        /\ UNCHANGED <<sessions, sessMu, auditLogs, auditWriter, auditReaders, events>>
    BY <1>5 DEF DeleteUser, CreateUser, At, audit
  <2>2. users' \in [Users -> Roles \cup {None}]
    BY <1>0, <1>5 DEF DeleteUser, CreateUser
  <2>3. Locks'
    <3>1. \A s \in Requests \ {r} : req'[s] = req[s]
      BY <1>0, <2>1 DEF Goto, Refuse
    <3> QED
      BY <1>0, <2>1, <3>1, StepKeepsLocks
  <2>4. req[r].kind \in {"create", "delete_user"}
    BY <1>0, <2>1 DEF Path
  <2>5. CASE Goto(r, "audit")
    BY <1>0, <2>1, <2>2, <2>3, <2>4, <2>5, GotoKeepsIInv
  <2>6. CASE Refuse(r) /\ UNCHANGED users
    BY <2>1, <2>6, RefuseKeepsIInv DEF store, audit
  <2> QED
    BY <2>1, <2>5, <2>6
<1>6. CASE RegisterPut(r)
  <2>1. /\ Answer(r) /\ req[r].at = "register"
        /\ UNCHANGED <<sessions, sessMu, auditLogs, auditWriter, auditReaders, events>>
        /\ users' \in [Users -> Roles \cup {None}]
    BY <1>0, <1>6 DEF RegisterPut, At, audit, Roles
  <2>2. Locks'
    <3>1. \A s \in Requests \ {r} : req'[s] = req[s]
      BY <1>0, <2>1 DEF Answer
    <3> QED
      BY <1>0, <2>1, <3>1, StepKeepsLocks
  <2>3. req[r].kind = "register"
    BY <1>0, <2>1 DEF Path
  <2> QED
    BY <1>0, <2>1, <2>2, <2>3, AnswerKeepsIInv
<1>7. CASE UserStoreFails(r)
  BY <1>7, RefuseKeepsIInv DEF UserStoreFails, At
<1> QED
  BY <1>1, <1>2, <1>3, <1>4, <1>5, <1>6, <1>7

\* A login adds its session, which no logout knows.
LEMMA LoginAddKeepsIInv ==
  ASSUME SessionsAssumption, IInv, NEW r \in Requests, LoginAdd(r)
  PROVE  IInv'
<1>0. /\ Types /\ Requested /\ Held /\ Living /\ Logged /\ Window /\ Locks
      /\ req[r].at = "add" /\ sessMu = None /\ None \notin Requests
      /\ UNCHANGED <<users, sessMu, auditLogs, auditWriter, auditReaders, events>>
      /\ DOMAIN sessions' = DOMAIN sessions \cup {r}
  BY DEF IInv, LoginAdd, At, audit, SessionsAssumption
<1>1. PICK q \in Request : /\ req' = [req EXCEPT ![r] = q]
                          /\ q.at = "audit" /\ q.kind = req[r].kind /\ q.token = req[r].token
                          /\ q.header = req[r].header /\ q.ok = req[r].ok
                          /\ q.late = req[r].late
  <2>1. Goto(r, "audit") /\ "audit" \in Places
    BY DEF LoginAdd, Places
  <2> QED
    BY <1>0, <2>1, GotoRecord
<1>2. /\ q.kind = "login" /\ q.token = r /\ ~ q.ok /\ ~ q.late /\ req[r].kind = "login"
      /\ req'[r] = q /\ \A s \in Requests \ {r} : req'[s] = req[s]
  BY <1>0, <1>1 DEF Requested, Path, Brings, Types
<1>3. Delivered' = Delivered /\ r \notin Delivered
  BY <1>0, <1>1, <1>2 DEF Delivered, At
<1>4. Types'
  BY <1>0, <1>1 DEF Types
<1>5. Requested'
  <2>1. \A s \in Requests \ {r} : Path(req[s])' /\ Brings(s, req[s])'
    BY <1>0, <1>2, <1>3 DEF Requested, Path, Brings
  <2>2. Path(req[r])' /\ Brings(r, req[r])'
    BY <1>1, <1>2 DEF Path, Brings, Kinds
  <2> QED
    BY <2>1, <2>2 DEF Requested
<1>6. Held' /\ Locks'
  BY <1>0, <1>1, <1>2 DEF Held, Deleting, Locks, At
<1>7. Living'
  <2>1. \A s \in Requests : ~ Deleting(req[s])'
    BY <1>0, <1>6 DEF Held
  <2>2. \A s \in Requests : Opening(req[s])' => s \in DOMAIN sessions'
    BY <1>0, <1>2 DEF Living, Opening
  <2>3. \A s \in Requests : SaysOut(req[s])' => req'[s].token \notin DOMAIN sessions'
    <3> SUFFICES ASSUME NEW s \in Requests, SaysOut(req[s])'
                 PROVE  req'[s].token \notin DOMAIN sessions'
      OBVIOUS
    <3>1. s # r /\ req'[s] = req[s] /\ SaysOut(req[s])
      BY <1>1, <1>2 DEF SaysOut
    <3>2. req[s].token \in Delivered \cup Standing /\ r \notin Standing
      BY <1>0, <3>1, StandingApart DEF SaysOut, Requested, Brings, Kinds
    <3> QED
      BY <1>0, <1>3, <3>1, <3>2 DEF Living
  <2>4. \A t \in DOMAIN sessions' :
          req'[t].kind = "login" /\ req'[t].at \in {"audit", "auditing", "done"}
    BY <1>0, <1>1, <1>2 DEF Living, Types
  <2> QED
    BY <2>1, <2>2, <2>3, <2>4 DEF Living
<1>8. Logged'
  <2>1. \A kind, t : Says(events', kind, t) = Says(events, kind, t)
    BY <1>0 DEF Says
  <2>2. Delivered \ DOMAIN sessions' = Delivered \ DOMAIN sessions
    BY <1>0, <1>3
  <2>3. \A s \in Requests : req'[s].at = "delete" => s # r /\ req'[s] = req[s]
    BY <1>1, <1>2
  <2>4. \A s \in Requests : req[s].at = "delete" => s # r /\ req'[s] = req[s]
    BY <1>0, <1>2
  <2> QED
    BY <1>0, <1>3, <2>1, <2>2, <2>3, <2>4 DEF Logged
<1>9. Window'
  BY <1>0 DEF Window
<1> QED
  BY <1>4, <1>5, <1>6, <1>7, <1>8, <1>9 DEF IInv

\* A logout takes sessMu and keeps it when it has found its session.
LEMMA LogoutFindKeepsIInv ==
  ASSUME SessionsAssumption, IInv, NEW r \in Requests, LogoutFind(r)
  PROVE  IInv'
<1>0. /\ Types /\ Requested /\ Held /\ Living /\ Logged /\ Window /\ Locks
      /\ req[r].at = "admitted" /\ req[r].kind = "logout" /\ sessMu = None /\ None \notin Requests
      /\ UNCHANGED <<users, sessions, auditLogs, auditWriter, auditReaders, events>>
      /\ users \in [Users -> Roles \cup {None}]
  BY DEF IInv, LogoutFind, Admitted, At, store, audit, SessionsAssumption, Types
<1>1. CASE HeaderToken(r) \notin DOMAIN sessions
  <2>1. Answer(r) /\ UNCHANGED sessMu
    BY <1>1 DEF LogoutFind
  <2>2. \A s \in Requests \ {r} : req'[s] = req[s]
    BY <2>1, <1>0 DEF Answer, Types
  <2>3. Locks'
    BY <1>0, <2>2, StepKeepsLocks
  <2> QED
    BY <1>0, <1>1, <2>1, <2>3, AnswerKeepsIInv DEF HeaderToken
<1>2. CASE HeaderToken(r) \in DOMAIN sessions
  <2>1. Goto(r, "audit") /\ sessMu' = r /\ "audit" \in Places
    BY <1>2 DEF LogoutFind, Places
  <2>2. PICK q \in Request : /\ req' = [req EXCEPT ![r] = q]
                            /\ q.at = "audit" /\ q.kind = req[r].kind /\ q.token = req[r].token
                            /\ q.header = req[r].header /\ q.ok = req[r].ok
                            /\ q.late = req[r].late
    BY <1>0, <2>1, GotoRecord
  <2>3. /\ q.kind = "logout" /\ ~ q.ok /\ ~ q.late
        /\ req'[r] = q /\ \A s \in Requests \ {r} : req'[s] = req[s]
    BY <1>0, <2>2 DEF Requested, Path, Types
  <2>4. Delivered' = Delivered
    BY <1>0, <2>2, <2>3 DEF Delivered, At
  <2>5. Types'
    BY <1>0, <2>2 DEF Types
  <2>6. Requested'
    <3>1. \A s \in Requests \ {r} : Path(req[s])' /\ Brings(s, req[s])'
      BY <1>0, <2>3, <2>4 DEF Requested, Path, Brings
    <3>2. Path(req[r])' /\ Brings(r, req[r])'
      BY <1>0, <2>2, <2>3, <2>4 DEF Requested, Path, Brings, Kinds
    <3> QED
      BY <3>1, <3>2 DEF Requested
  <2>7. Held' /\ Locks'
    BY <1>0, <2>1, <2>2, <2>3 DEF Held, Deleting, Locks, At
  <2>8. Living'
    <3>1. \A s \in Requests : Deleting(req[s])' => s = r
      BY <2>1, <2>7 DEF Held
    <3>2. \A s \in Requests : Opening(req[s])' => Opening(req[s])
      BY <2>2, <2>3 DEF Opening
    <3>3. \A s \in Requests : SaysOut(req[s])' => SaysOut(req[s]) /\ req'[s] = req[s]
      BY <2>2, <2>3 DEF SaysOut
    <3>4. r \notin DOMAIN sessions
      BY <1>0 DEF Living
    <3>5. req'[r].token \in DOMAIN sessions
      BY <1>0, <1>2, <2>2, <2>3 DEF HeaderToken, Types
    <3>6. \A t \in DOMAIN sessions :
            req'[t].kind = "login" /\ req'[t].at \in {"audit", "auditing", "done"}
      BY <1>0, <2>3, <3>4 DEF Living, Types
    <3> QED
      BY <1>0, <3>1, <3>2, <3>3, <3>5, <3>6 DEF Living
  <2>9. Logged'
    <3>1. \A kind, t : Says(events', kind, t) = Says(events, kind, t)
      BY <1>0 DEF Says
    <3>2. \A s \in Requests : req'[s].at = "delete" => s # r /\ req'[s] = req[s]
      BY <2>2, <2>3
    <3>3. \A s \in Requests : req[s].at = "delete" => s # r /\ req'[s] = req[s]
      BY <1>0, <2>3
    <3> QED
      BY <1>0, <2>4, <3>1, <3>2, <3>3 DEF Logged
  <2>10. Window'
    BY <1>0 DEF Window
  <2> QED
    BY <2>5, <2>6, <2>7, <2>8, <2>9, <2>10 DEF IInv
<1> QED
  BY <1>1, <1>2

\* The session that a logout has logged is deleted, and sessMu is free again.
LEMMA LogoutDeleteKeepsIInv ==
  ASSUME SessionsAssumption, IInv, NEW r \in Requests, LogoutDelete(r)
  PROVE  IInv'
<1>0. /\ Types /\ Requested /\ Held /\ Living /\ Logged /\ Window /\ Locks
      /\ req[r].at = "delete" /\ sessMu' = None /\ None \notin Requests
      /\ UNCHANGED <<users, auditLogs, auditWriter, auditReaders, events>>
      /\ DOMAIN sessions' = DOMAIN sessions \ {req[r].token}
  BY DEF IInv, LogoutDelete, At, audit, SessionsAssumption
<1>1. PICK q \in Request : /\ req' = [req EXCEPT ![r] = q]
                          /\ q.at = "done" /\ q.kind = req[r].kind /\ q.token = req[r].token
                          /\ q.ok = TRUE /\ q.late = req[r].late
  <2>1. Answer(r)
    BY DEF LogoutDelete
  <2> QED
    BY <1>0, <2>1, AnswerRecord
<1>2. /\ q.kind = "logout" /\ ~ q.late /\ req[r].kind = "logout"
      /\ req[r].token \in Delivered /\ sessMu = r
      /\ req'[r] = q /\ \A s \in Requests \ {r} : req'[s] = req[s]
  BY <1>0, <1>1, StandingApart DEF Requested, Path, Brings, Types, Kinds, Held, Living, Deleting
<1>3. Delivered' = Delivered
  BY <1>0, <1>1, <1>2 DEF Delivered, At
<1>4. Types'
  BY <1>0, <1>1 DEF Types
<1>5. Requested'
  <2>1. \A s \in Requests \ {r} : Path(req[s])' /\ Brings(s, req[s])'
    BY <1>0, <1>2, <1>3 DEF Requested, Path, Brings
  <2>2. Path(req[r])' /\ Brings(r, req[r])'
    BY <1>1, <1>2, <1>3 DEF Path, Brings, Kinds
  <2> QED
    BY <2>1, <2>2 DEF Requested
<1>6. Held' /\ Locks'
  BY <1>0, <1>1, <1>2 DEF Held, Deleting, Locks, At
<1>7. Living'
  <2>1. \A s \in Requests : ~ Deleting(req[s])'
    BY <1>0, <1>6 DEF Held
  <2>2. \A s \in Requests : Opening(req[s])' => s \in DOMAIN sessions'
    BY <1>0, <1>1, <1>2 DEF Living, Opening, Delivered, At
  <2>3. \A s \in Requests : SaysOut(req[s])' => req'[s].token \notin DOMAIN sessions'
    BY <1>0, <1>1, <1>2 DEF Living, SaysOut
  <2>4. \A t \in DOMAIN sessions' :
          req'[t].kind = "login" /\ req'[t].at \in {"audit", "auditing", "done"}
    BY <1>0, <1>1, <1>2 DEF Living, Types
  <2> QED
    BY <2>1, <2>2, <2>3, <2>4 DEF Living
<1>8. Logged'
  <2>1. \A kind, t : Says(events', kind, t) = Says(events, kind, t)
    BY <1>0 DEF Says
  <2>2. \A s \in Requests : req'[s].at = "delete" => s # r /\ req'[s] = req[s]
    BY <1>1, <1>2
  <2>3. Says(events, "logout", req[r].token) # {}
    BY <1>0, <1>2 DEF Logged, Delivered
  <2>4. \A t \in Requests : Says(events, "logout", t) # {} =>
          \/ t \in Delivered \ DOMAIN sessions'
          \/ \E s \in Requests : req'[s].at = "delete" /\ req'[s].token = t
    BY <1>0, <1>2 DEF Logged
  <2> QED
    BY <1>0, <1>3, <2>1, <2>2, <2>3, <2>4 DEF Logged
<1>9. Window'
  BY <1>0 DEF Window
<1> QED
  BY <1>4, <1>5, <1>6, <1>7, <1>8, <1>9 DEF IInv

--------------------------------------------------------------------------------
(* LogAuditEvent.                                                           *)

\* A longer log says one thing more.
LEMMA AppendSays ==
  ASSUME events \in Seq(Event), NEW e \in Event, events' = Append(events, e)
  PROVE  /\ events' \in Seq(Event)
         /\ \A kind, t : Says(events, kind, t) \subseteq 1 .. Len(events)
         /\ \A kind, t : Says(events', kind, t) =
              IF e.kind = kind /\ e.token = t THEN Says(events, kind, t) \cup {Len(events) + 1}
              ELSE Says(events, kind, t)
<1>1. /\ events' \in Seq(Event) /\ Len(events') = Len(events) + 1 /\ Len(events) \in Nat
      /\ \A i \in 1 .. Len(events) : events'[i] = events[i]
      /\ events'[Len(events) + 1] = e
      /\ DOMAIN events = 1 .. Len(events) /\ DOMAIN events' = 1 .. Len(events')
  OBVIOUS
<1> QED
  BY <1>1 DEF Says

\* The view keeps its window when an event is added.
LEMMA WindowMoves ==
  ASSUME SessionsAssumption, Window, events \in Seq(Event), NEW e \in Event,
         events' = Append(events, e), auditLogs' = Trimmed(Append(auditLogs, e))
  PROVE  Window'
<1>0. MaxAudit \in Nat \ {0}
  BY DEF SessionsAssumption
<1>1. PICK log : log = Append(auditLogs, e)
  OBVIOUS
<1>2. /\ auditLogs \in Seq(Event) /\ Len(auditLogs) \in Nat
      /\ log \in Seq(Event) /\ Len(log) = Len(auditLogs) + 1 /\ log[Len(log)] = e
      /\ \A i \in 1 .. Len(auditLogs) : log[i] = auditLogs[i]
  BY <1>1 DEF Window
<1>3. /\ Len(events') = Len(events) + 1 /\ Len(events) \in Nat /\ events'[Len(events')] = e
      /\ \A i \in 1 .. Len(events) : events'[i] = events[i]
  OBVIOUS
<1>4. /\ Len(auditLogs) = Kept(Len(events)) /\ Len(auditLogs) <= Len(events)
      /\ \A i \in 1 .. Len(log) : log[i] = events'[Len(events') - Len(log) + i]
  <2>1. Len(auditLogs) = Kept(Len(events)) /\ Len(auditLogs) <= Len(events)
    BY <1>0, <1>3 DEF Window, Kept
  <2>2. \A i \in 1 .. Len(auditLogs) : log[i] = events'[Len(events') - Len(log) + i]
    BY <1>2, <1>3, <2>1 DEF Window
  <2> QED
    BY <1>2, <1>3, <2>1, <2>2
<1>5. CASE Len(log) > MaxAudit
  <2>1. /\ auditLogs' = Tail(log) /\ Len(auditLogs) = MaxAudit /\ Len(log) # 0
    BY <1>0, <1>1, <1>2, <1>3, <1>4, <1>5 DEF Trimmed, Kept
  <2>2. /\ auditLogs' \in Seq(Event) /\ Len(auditLogs') = Len(log) - 1
        /\ \A i \in 1 .. Len(auditLogs') : auditLogs'[i] = log[i + 1]
    BY <1>2, <2>1
  <2>3. Len(auditLogs') = Kept(Len(events'))
    BY <1>0, <1>2, <1>3, <1>4, <2>1, <2>2 DEF Kept
  <2>4. ASSUME NEW i \in 1 .. Len(auditLogs')
        PROVE  auditLogs'[i] = events'[Len(events') - Len(auditLogs') + i]
    <3>1. i + 1 \in 1 .. Len(log) /\ auditLogs'[i] = log[i + 1]
      BY <1>2, <2>2
    <3>2. log[i + 1] = events'[Len(events') - Len(log) + (i + 1)]
      BY <1>4, <3>1
    <3>3. Len(events') - Len(log) + (i + 1) = Len(events') - Len(auditLogs') + i
      BY <1>2, <1>3, <2>2, <3>1
    <3> QED
      BY <3>1, <3>2, <3>3
  <2> QED
    BY <2>2, <2>3, <2>4 DEF Window
<1>6. CASE ~ (Len(log) > MaxAudit)
  <2>1. auditLogs' = log
    BY <1>1, <1>6 DEF Trimmed
  <2>2. Len(auditLogs') = Kept(Len(events'))
    BY <1>0, <1>2, <1>3, <1>4, <1>6, <2>1 DEF Kept
  <2> QED
    BY <1>2, <1>4, <2>1, <2>2 DEF Window
<1> QED
  BY <1>5, <1>6

\* What AuditAppend does whatever the kind of its request.
LEMMA AuditAppends ==
  ASSUME SessionsAssumption, IInv, NEW r \in Requests, AuditAppend(r)
  PROVE  /\ UNCHANGED <<users, sessions, sessMu>>
         /\ Window' /\ Locks' /\ events' \in Seq(Event) /\ Len(events) \in Nat
         /\ req[r].at = "auditing" /\ req[r] \in Request
         /\ \A kind, t : Says(events, kind, t) \subseteq 1 .. Len(events)
         /\ \A kind, t : Says(events', kind, t) =
              IF req[r].kind = kind /\ req[r].token = t THEN Says(events, kind, t) \cup {Len(events) + 1}
              ELSE Says(events, kind, t)
<1>0. /\ Types /\ Window /\ Locks /\ req[r].at = "auditing" /\ req[r] \in Request
      /\ events \in Seq(Event) /\ None \notin Requests
      /\ UNCHANGED <<users, sessions, sessMu, auditReaders>> /\ auditWriter' = None
  BY DEF IInv, Types, AuditAppend, At, store, SessionsAssumption
<1>1. PICK e : e = [kind |-> req[r].kind, token |-> req[r].token]
  OBVIOUS
<1>2. e \in Event /\ e.kind = req[r].kind /\ e.token = req[r].token
  BY <1>0, <1>1 DEF Event, Request
<1>3. events' = Append(events, e) /\ auditLogs' = Trimmed(Append(auditLogs, e))
  BY <1>1 DEF AuditAppend
<1>4. Window'
  BY <1>0, <1>2, <1>3, WindowMoves
<1>5. /\ events' \in Seq(Event)
      /\ \A kind, t : Says(events, kind, t) \subseteq 1 .. Len(events)
      /\ \A kind, t : Says(events', kind, t) =
           IF req[r].kind = kind /\ req[r].token = t THEN Says(events, kind, t) \cup {Len(events) + 1}
           ELSE Says(events, kind, t)
  BY <1>0, <1>2, <1>3, AppendSays
<1>6. Locks'
  <2>1. \A s \in Requests \ {r} : req'[s] = req[s]
    BY <1>0 DEF AuditAppend, Goto, Answer, Types
  <2> QED
    BY <1>0, <2>1, StepKeepsLocks
<1> QED
  BY <1>0, <1>4, <1>5, <1>6

\* An event about no session.
LEMMA OtherAppendKeepsIInv ==
  ASSUME SessionsAssumption, IInv, NEW r \in Requests, AuditAppend(r),
         req[r].kind \notin {"login", "logout"}
  PROVE  IInv'
<1>0. /\ Types /\ Requested /\ Held /\ Living /\ Logged
      /\ UNCHANGED <<users, sessions, sessMu>> /\ Answer(r)
      /\ Window' /\ Locks' /\ events' \in Seq(Event) /\ req[r].at = "auditing" /\ req[r] \in Request
      /\ \A kind \in {"login", "logout"} : \A t : Says(events', kind, t) = Says(events, kind, t)
  <2>1. Types /\ Requested /\ Held /\ Living /\ Logged /\ Answer(r)
    BY DEF IInv, AuditAppend
  <2>2. /\ UNCHANGED <<users, sessions, sessMu>> /\ Window' /\ Locks' /\ events' \in Seq(Event)
        /\ req[r].at = "auditing" /\ req[r] \in Request
    BY AuditAppends
  <2>3. \A kind \in {"login", "logout"} : \A t : Says(events', kind, t) = Says(events, kind, t)
    BY AuditAppends
  <2> QED
    BY <2>1, <2>2, <2>3
<1>1. PICK q \in Request : /\ req' = [req EXCEPT ![r] = q]
                          /\ q.at = "done" /\ q.kind = req[r].kind /\ q.token = req[r].token
                          /\ q.ok = TRUE /\ q.late = req[r].late
  BY <1>0, AnswerRecord
<1>2. /\ ~ q.late /\ req[r].kind \in Kinds
      /\ req'[r] = q /\ \A s \in Requests \ {r} : req'[s] = req[s]
  BY <1>0, <1>1 DEF Requested, Path, Types
<1>3. Delivered' = Delivered
  BY <1>0, <1>1, <1>2 DEF Delivered, At
<1>4. Types'
  BY <1>0, <1>1 DEF Types
<1>5. Requested'
  <2>1. \A s \in Requests \ {r} : Path(req[s])' /\ Brings(s, req[s])'
    BY <1>0, <1>2, <1>3 DEF Requested, Path, Brings
  <2>2. Path(req[r])' /\ Brings(r, req[r])'
    BY <1>0, <1>1, <1>2, <1>3 DEF Requested, Path, Brings
  <2> QED
    BY <2>1, <2>2 DEF Requested
<1>6. Held'
  BY <1>0, <1>1, <1>2 DEF Held, Deleting
<1>7. Living'
  BY <1>0, <1>1, <1>2 DEF Living, Deleting, Opening, SaysOut, Types
<1>8. Logged'
  <2>1. \A s \in Requests : req'[s].at = "delete" => s # r /\ req'[s] = req[s]
    BY <1>1, <1>2
  <2>2. \A s \in Requests : req[s].at = "delete" => s # r /\ req'[s] = req[s]
    BY <1>0, <1>2
  <2> QED
    BY <1>0, <1>3, <2>1, <2>2 DEF Logged
<1> QED
  BY <1>0, <1>4, <1>5, <1>6, <1>7, <1>8 DEF IInv

\* The event of a login is its first, and its token is handed out.
LEMMA LoginAppendKeepsIInv ==
  ASSUME SessionsAssumption, IInv, NEW r \in Requests, AuditAppend(r), req[r].kind = "login"
  PROVE  IInv'
<1>0. /\ Types /\ Requested /\ Held /\ Living /\ Logged
      /\ UNCHANGED <<users, sessions, sessMu>> /\ Answer(r)
      /\ Window' /\ Locks' /\ events' \in Seq(Event) /\ Len(events) \in Nat
      /\ req[r].at = "auditing" /\ req[r] \in Request /\ req[r].token = r
      /\ \A t : Says(events', "logout", t) = Says(events, "logout", t)
      /\ \A t \in Requests \ {r} : Says(events', "login", t) = Says(events, "login", t)
      /\ Says(events', "login", r) = Says(events, "login", r) \cup {Len(events) + 1}
  <2>1. Types /\ Requested /\ Held /\ Living /\ Logged /\ Answer(r)
    BY DEF IInv, AuditAppend
  <2>2. /\ UNCHANGED <<users, sessions, sessMu>> /\ Window' /\ Locks' /\ events' \in Seq(Event)
        /\ req[r].at = "auditing" /\ req[r] \in Request /\ Len(events) \in Nat
    BY AuditAppends
  <2>3. req[r].token = r
    BY <2>1, <2>2 DEF Requested, Brings
  <2>4. \A t : Says(events', "logout", t) = Says(events, "logout", t)
    BY AuditAppends
  <2>5. \A t : Says(events', "login", t) =
           IF t = r THEN Says(events, "login", t) \cup {Len(events) + 1} ELSE Says(events, "login", t)
    BY <2>3, AuditAppends
  <2> QED
    BY <2>1, <2>2, <2>3, <2>4, <2>5
<1>1. PICK q \in Request : /\ req' = [req EXCEPT ![r] = q]
                          /\ q.at = "done" /\ q.kind = req[r].kind /\ q.token = req[r].token
                          /\ q.ok = TRUE /\ q.late = req[r].late
  BY <1>0, AnswerRecord
<1>2. /\ ~ q.late /\ q.kind = "login" /\ q.token = r
      /\ req'[r] = q /\ \A s \in Requests \ {r} : req'[s] = req[s]
  BY <1>0, <1>1 DEF Requested, Path, Types
<1>3. /\ Delivered' = Delivered \cup {r} /\ r \notin Delivered /\ r \in DOMAIN sessions
  BY <1>0, <1>1, <1>2 DEF Delivered, At, Living, Opening
<1>4. Types'
  BY <1>0, <1>1 DEF Types
<1>5. Requested'
  <2>1. \A s \in Requests \ {r} : Path(req[s])' /\ Brings(s, req[s])'
    BY <1>0, <1>2, <1>3 DEF Requested, Path, Brings
  <2>2. Path(req[r])' /\ Brings(r, req[r])'
    BY <1>0, <1>1, <1>2 DEF Path, Brings, Kinds
  <2> QED
    BY <2>1, <2>2 DEF Requested
<1>6. Held'
  BY <1>0, <1>1, <1>2 DEF Held, Deleting
<1>7. Living'
  BY <1>0, <1>1, <1>2 DEF Living, Deleting, Opening, SaysOut, Types
<1>8. Logged'
  <2>1. Says(events, "login", r) = {} /\ Says(events, "logout", r) = {}
    <3>1. Says(events, "login", r) = {}
      BY <1>0, <1>3 DEF Logged
    <3> QED
      BY <1>0, <3>1 DEF Logged
  <2>2. /\ Says(events', "login", r) = {Len(events) + 1} /\ Says(events', "logout", r) = {}
        /\ r \in Delivered' /\ r \notin Delivered' \ DOMAIN sessions'
    BY <1>0, <1>3, <2>1
  <2>3. \A s \in Requests : req'[s].at = "delete" => s # r /\ req'[s] = req[s]
    BY <1>1, <1>2
  <2>4. \A s \in Requests : req[s].at = "delete" => s # r /\ req'[s] = req[s]
    BY <1>0, <1>2
  <2>5. \A s \in Requests : req'[s].at = "delete" => req'[s].token # r
    BY <1>0, <1>3, <2>3, StandingApart DEF Requested, Path, Brings, Kinds
  <2>6. ASSUME NEW t \in Requests \ {r}
        PROVE  /\ t \in Delivered' <=> t \in Delivered
               /\ t \in Delivered' \ DOMAIN sessions' <=> t \in Delivered \ DOMAIN sessions
               /\ Says(events', "login", t) = Says(events, "login", t) /\ Says(events', "logout", t) = Says(events, "logout", t)
    BY <1>0, <1>3
  <2> QED
    BY <1>0, <2>2, <2>3, <2>4, <2>5, <2>6 DEF Logged
<1> QED
  BY <1>0, <1>4, <1>5, <1>6, <1>7, <1>8 DEF IInv

\* The event of a logout is its session's only one: no other logout holds sessMu.
LEMMA LogoutAppendKeepsIInv ==
  ASSUME SessionsAssumption, IInv, NEW r \in Requests, AuditAppend(r), req[r].kind = "logout"
  PROVE  IInv'
<1>0. /\ Types /\ Requested /\ Held /\ Living /\ Logged
      /\ UNCHANGED <<users, sessions, sessMu>> /\ Goto(r, "delete") /\ "delete" \in Places
      /\ Window' /\ Locks' /\ events' \in Seq(Event) /\ Len(events) \in Nat
      /\ req[r].at = "auditing" /\ req[r] \in Request
      /\ \A t : Says(events', "login", t) = Says(events, "login", t)
      /\ \A t : t # req[r].token => Says(events', "logout", t) = Says(events, "logout", t)
      /\ Says(events', "logout", req[r].token) = Says(events, "logout", req[r].token) \cup {Len(events) + 1}
      /\ \A t : Says(events, "login", t) \subseteq 1 .. Len(events)
  <2>1. Types /\ Requested /\ Held /\ Living /\ Logged /\ Goto(r, "delete") /\ "delete" \in Places
    BY DEF IInv, AuditAppend, Places
  <2>2. /\ UNCHANGED <<users, sessions, sessMu>> /\ Window' /\ Locks' /\ events' \in Seq(Event)
        /\ req[r].at = "auditing" /\ req[r] \in Request /\ Len(events) \in Nat
    BY AuditAppends
  <2>3. \A t : Says(events', "login", t) = Says(events, "login", t)
    BY AuditAppends
  <2>4. \A t : Says(events', "logout", t) =
           IF t = req[r].token THEN Says(events, "logout", t) \cup {Len(events) + 1}
           ELSE Says(events, "logout", t)
    BY AuditAppends
  <2>5. \A t : Says(events, "login", t) \subseteq 1 .. Len(events)
    BY AuditAppends
  <2> QED
    BY <2>1, <2>2, <2>3, <2>4, <2>5
<1>1. PICK q \in Request : /\ req' = [req EXCEPT ![r] = q]
                          /\ q.at = "delete" /\ q.kind = req[r].kind /\ q.token = req[r].token
                          /\ q.header = req[r].header /\ q.ok = req[r].ok
                          /\ q.late = req[r].late
  BY <1>0, GotoRecord
<1>2. PICK t : t = req[r].token
  OBVIOUS
<1>3. /\ ~ q.late /\ ~ q.ok /\ q.kind = "logout" /\ q.token = t /\ t \in Delivered /\ t \in Requests
      /\ req'[r] = q /\ \A s \in Requests \ {r} : req'[s] = req[s]
      /\ sessMu = r /\ t \in DOMAIN sessions
  BY <1>0, <1>1, <1>2, StandingApart DEF Requested, Path, Brings, Types, Kinds, Held, Living, Deleting, Delivered
<1>4. Delivered' = Delivered
  BY <1>0, <1>1, <1>3 DEF Delivered, At
<1>5. Types'
  BY <1>0, <1>1 DEF Types
<1>6. Requested'
  <2>1. \A s \in Requests \ {r} : Path(req[s])' /\ Brings(s, req[s])'
    BY <1>0, <1>3, <1>4 DEF Requested, Path, Brings
  <2>2. Path(req[r])' /\ Brings(r, req[r])'
    BY <1>1, <1>3, <1>4 DEF Path, Brings, Kinds
  <2> QED
    BY <2>1, <2>2 DEF Requested
<1>7. Held'
  BY <1>0, <1>1, <1>3 DEF Held, Deleting
<1>8. Living'
  BY <1>0, <1>1, <1>3 DEF Living, Deleting, Opening, SaysOut, Types
<1>9. Logged'
  <2>1. \A s \in Requests : req[s].at # "delete"
    <3>1. ASSUME NEW s \in Requests, req[s].at = "delete" PROVE FALSE
      <4>1. Deleting(req[s])
        BY <1>0, <3>1 DEF Requested, Path, Deleting
      <4>2. s = r
        BY <1>0, <1>3, <4>1 DEF Held
      <4> QED
        BY <1>0, <3>1, <4>2
    <3> QED
      BY <3>1
  <2>2. Says(events, "logout", t) = {}
    BY <1>0, <1>3, <2>1 DEF Logged
  <2>3. /\ Says(events', "logout", t) = {Len(events) + 1}
        /\ \A u \in Requests \ {t} : Says(events', "logout", u) = Says(events, "logout", u)
    BY <1>0, <1>2, <2>2
  <2>4. \A l \in Says(events, "login", t) : l < Len(events) + 1
    BY <1>0
  <2>5. Says(events, "login", t) # {}
    BY <1>0, <1>3 DEF Logged
  <2>6. \A s \in Requests : req'[s].at = "delete" <=> s = r
    BY <1>1, <1>3, <2>1
  <2>7. req'[r].token = t
    BY <1>3
  <2>8. ASSUME NEW u \in Requests \ {t}
        PROVE  /\ \A i, j \in Says(events', "login", u) : i = j
               /\ \A i, j \in Says(events', "logout", u) : i = j /\ (\E l \in Says(events', "login", u) : l < i)
               /\ Says(events', "login", u) # {} <=> u \in Delivered'
               /\ Says(events', "logout", u) # {} => u \in Delivered' \ DOMAIN sessions'
               /\ u \in Delivered' \ DOMAIN sessions' => Says(events', "logout", u) # {}
    BY <1>0, <1>4, <2>1, <2>3 DEF Logged
  <2>9. /\ \A i, j \in Says(events', "login", t) : i = j
        /\ Says(events', "login", t) # {} /\ t \in Delivered'
        /\ t \notin Delivered' \ DOMAIN sessions'
    BY <1>0, <1>3, <1>4, <2>5 DEF Logged
  <2>10. /\ \A i, j \in Says(events', "logout", t) :
               i = j /\ (\E l \in Says(events', "login", t) : l < i)
         /\ Says(events', "logout", t) # {}
    BY <1>0, <2>3, <2>4, <2>5
  <2> QED
    BY <1>3, <2>6, <2>7, <2>8, <2>9, <2>10 DEF Logged
<1> QED
  BY <1>0, <1>5, <1>6, <1>7, <1>8, <1>9 DEF IInv

--------------------------------------------------------------------------------
(* The theorems.                                                            *)

\* Every step keeps the invariant.
LEMMA NextKeepsIInv ==
  ASSUME SessionsAssumption, IInv, [Next]_vars
  PROVE  IInv'
<1>1. CASE UNCHANGED vars
  BY <1>1 DEF IInv, vars, Types, Requested, Held, Living, Logged, Window, Locks, Path, Brings,
              Deleting, Opening, SaysOut, Says, Delivered, At, Kept
<1>2. ASSUME NEW r \in Requests, Begin(r) PROVE IInv'
  BY <1>2, BeginsKeepIInv
<1>3. ASSUME NEW r \in Requests, AuditAppend(r) PROVE IInv'
  BY <1>3, OtherAppendKeepsIInv, LoginAppendKeepsIInv, LogoutAppendKeepsIInv
<1>4. ASSUME NEW r \in Requests, Step(r) PROVE IInv'
  BY <1>3, <1>4, LoginAddKeepsIInv, LogoutFindKeepsIInv, LogoutDeleteKeepsIInv, HandlerKeepsIInv
     DEF Step
<1> QED
  BY <1>1, <1>2, <1>4 DEF Next

\* The invariant is what the runs check.
LEMMA IInvIsEnough ==
  ASSUME SessionsAssumption, IInv
  PROVE  TypeOK /\ SessionsAreAudited /\ LoggedOutIsRefused
<1>1. TypeOK
  <2>1. sessMu # None => req[sessMu].at \in {"audit", "auditing", "delete"}
    BY DEF IInv, Held, Deleting
  <2>2. auditWriter # None => At(auditWriter, "auditing")
    BY DEF IInv, Locks
  <2> QED
    BY <2>1, <2>2 DEF IInv, Types, Locks, TypeOK
<1>2. auditLogs = SubSeq(events, IF Len(events) > MaxAudit THEN Len(events) - MaxAudit + 1 ELSE 1,
                         Len(events))
  <2>0. /\ MaxAudit \in Nat \ {0} /\ Window /\ events \in Seq(Event) /\ Len(events) \in Nat
        /\ auditLogs \in Seq(Event)
    BY DEF IInv, Types, Window, SessionsAssumption
  <2>1. PICK m : m = IF Len(events) > MaxAudit THEN Len(events) - MaxAudit + 1 ELSE 1
    OBVIOUS
  <2>2. /\ m \in 1 .. Len(events) + 1 /\ Len(auditLogs) = Len(events) - m + 1
        /\ \A i \in 1 .. Len(auditLogs) : auditLogs[i] = events[m + i - 1]
    <3>1. m \in Int /\ m \in 1 .. Len(events) + 1 /\ Len(auditLogs) = Len(events) - m + 1
      BY <2>0, <2>1 DEF Window, Kept
    <3>2. ASSUME NEW i \in 1 .. Len(auditLogs) PROVE auditLogs[i] = events[m + i - 1]
      <4>1. Len(events) - Len(auditLogs) + i = m + i - 1
        BY <2>0, <3>1
      <4>2. auditLogs[i] = events[Len(events) - Len(auditLogs) + i]
        BY <2>0 DEF Window
      <4> QED
        BY <4>1, <4>2
    <3> QED
      BY <3>1, <3>2
  <2>3. PICK sub : sub = SubSeq(events, m, Len(events))
    OBVIOUS
  <2>4. /\ sub \in Seq(Event) /\ Len(sub) = Len(events) - m + 1
        /\ \A i \in 1 .. Len(sub) : sub[i] = events[m + i - 1]
    BY <2>0, <2>2, <2>3, SubSeqProperties
  <2>5. auditLogs = sub
    BY <2>0, <2>2, <2>4, SeqEqual
  <2> QED
    BY <2>1, <2>3, <2>5
<1>3. SessionsAreAudited
  BY <1>2 DEF IInv, Logged, SessionsAreAudited, Says, Said
<1>4. LoggedOutIsRefused
  BY DEF IInv, Requested, Path, LoggedOutIsRefused
<1> QED
  BY <1>1, <1>3, <1>4

\* The invariant holds in every behaviour.
LEMMA Invariant ==
  ASSUME SessionsAssumption
  PROVE  Spec => []IInv
<1>1. Init => IInv
  BY InitIInv
<1>2. IInv /\ [Next]_vars => IInv'
  BY NextKeepsIInv
<1> QED
  BY <1>1, <1>2, PTL DEF Spec

\* Type correctness, the places of the holders of the two locks included.
THEOREM SessionTypes ==
  ASSUME SessionsAssumption
  PROVE  Spec => []TypeOK
<1>1. IInv => TypeOK
  BY IInvIsEnough
<1> QED
  BY <1>1, Invariant, PTL

\* The audit log tells the life of every session, and shows the last MaxAudit events
\* (auth.go: handleLogin, handleLogout; audit.go: LogAuditEvent).
THEOREM AuditOfSessions ==
  ASSUME SessionsAssumption
  PROVE  Spec => []SessionsAreAudited
<1>1. IInv => SessionsAreAudited
  BY IInvIsEnough
<1> QED
  BY <1>1, Invariant, PTL

\* Nobody who begins after a logout by the header was answered is served with its token
\* (auth.go: handleLogout; server.go: authMiddleware).
THEOREM RefusedAfterLogout ==
  ASSUME SessionsAssumption
  PROVE  Spec => []LoggedOutIsRefused
<1>1. IInv => LoggedOutIsRefused
  BY IInvIsEnough
<1> QED
  BY <1>1, Invariant, PTL
================================================================================
