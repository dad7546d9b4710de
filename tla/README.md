# AroraDB: a verification development

TLA+ models of AroraDB's Go backend (`src/backend`) and of its two consoles (the
Next.js one in `src/frontend`, and the one compiled into the backend), the TLC runs
that check them on small instances, and TLAPS proofs about them for every instance.

## The system

The server is one Go process with a data directory. Everything it stores goes
through one log-structured storage engine; SQL tables, JSON documents and users
are encoded as keys of that engine. The HTTP server calls it from one goroutine
per request. There is no process that runs in the background: compaction,
backup and restore run inside requests. The consoles run in browsers, in as many
tabs as the user opens.

| component | source (under `src/backend`, `src/frontend` where it says so) | state | operations | what is hard |
|---|---|---|---|---|
| storage engine | `internal/engine/{bitcask,entry,engine}.go` | data files on disk; `keyDir`, `activeFileID`, `writeOffset`, descriptors | `NewEngine`, `Get`, `Put`, `Delete`, `Scan`, `Close`, rotation | torn and short writes, crashes, power loss, partial failures of rotation, `Delete` in two critical sections |
| compaction | `internal/engine/compact.go` | the temporary file, the new directory | `Compact`, `reloadDB`, `CompactionRatio` | a crash or a failing call between any two of its steps |
| in-memory indexes | `internal/engine/{bptree,inverted,vector}` | maps | insert, lookup | wired to nothing |
| transactions, WAL | `internal/core/{tx,wal,storage}.go` | a transaction's writes; a log file | `Begin`, `Put`, `Commit`, `Rollback`; `Append` | isolation and atomicity of `Commit`; wired to nothing |
| SQL | `internal/sql/{ast,parser,executor}.go` | none of its own: schema, sequence and rows are engine keys | `CREATE`, `INSERT`, `SELECT`, `ListTables` | read-modify-write sequences of engine calls from concurrent requests |
| documents | `internal/document/collection.go` | none of its own: documents are engine keys | `Insert`, `Get`, `Delete`, `Query`, `ListCollections` | key encoding, comparison of mixed types |
| HTTP server | `internal/api/server.go` | the `db` pointer | one handler per route | restore replaces the engine under running requests |
| users, sessions, OIDC | `internal/api/{auth,oidc}.go` | `sessions`, `userStore` | login, logout, create and delete user | check-then-act on the engine, sessions of deleted users |
| audit log | `internal/api/audit.go` | the last 200 entries | append, list | a lock held while a response is written |
| backup, restore | `internal/api/backup.go` | files | zip, unzip | runs beside writers |
| tenant limits | `internal/api/middleware/tenant.go` | one token bucket per tenant | `Allow`, `getBucket` | integer refill, double creation |
| sharding | `internal/cluster/sharding.go` | the hash ring | `AddNode`, `RemoveNode`, `GetNode` | colliding hashes |
| raft wrapper | `internal/cluster/raft.go` | a library's | `Apply`, `Join` | every node bootstraps itself |
| log buffer, metrics, config, modules | `internal/{logs,metrics,config,modules}` | a ring buffer, counters | append, read | counters read and reset apart |
| web console | `src/frontend/src/{context,lib,components,app}` | `aroradb_role` in localStorage, the cookies; per tab the role, the page, its load | hydration, the guard of `AppLayout`, the pages' loads, `fetchAPI`, login, logout | two sources of the role, navigations that start before the page ends, late answers, tabs that share localStorage |
| embedded console | `internal/api/web/assets/index-*.js` (`XN`) | three keys of localStorage; per tab token, role, user, flags, timers | polls, loads, writes, SQL, login, logout | handlers and timers of an older render, answers to an older session, tabs that log each other out |
| deployment, docs | `src/terraform`, `src/docs-site`, ... | - | - | - |

How they interact. The engine is the only component with persistent state; its
`e.mu` makes each of `Get`, `Put` and `Scan` atomic, `Delete` takes it twice,
and `Compact` holds it throughout. Everything above it (SQL, documents, users)
is a sequence of such calls with nothing held between them, from as many
goroutines as there are requests. `handleRestore` replaces `s.db` and `s.cm`
under running requests. `handleBackup` reads the engine's files behind its back.
`userStore` in `auth.go` is a third reference to an engine. Logout takes
`auditLogsMu` while it holds `sessMu`. A request is checked twice: `authMiddleware`
looks its session up, in the header or in the query, and the handler looks it up again,
some of them in the header only. Transactions, tenant limits, the ring, raft,
the indexes and the user manager are complete components that no route reaches.

The embedded console asks the API with the token of a login. The web console asks
with a mock token that it derives from the role in localStorage, which
`authMiddleware` lets pass; behind the load balancer `CognitoALBMiddleware` sets its
cookies with every answer. Nothing in the repository writes the role that the guard
and `fetchAPI` read, and the endpoints under `/api/v1` that three of its pages load
belong to the user manager that nothing registers: the model takes the role that a
browser brings along, and the endpoints a deployment has, as inputs.

What makes each part correct:

| component | it is correct when |
|---|---|
| engine | what was acknowledged is served and survives a restart; what is lost in a power loss is a suffix; it is a map to its callers |
| compaction | it keeps every committed value at every step, crash or not, and nothing else changes |
| SQL | a table is an append-only sequence of the acknowledged rows, and a SELECT is one state of it |
| transactions | the store is the commits applied one after the other; every transaction ends |
| documents | the keys of the engine are named collections, and a document carries its own id |
| server, restore | no write is acknowledged by an engine whose files are gone; a restore that got past `Close` ends with an engine in place |
| backup | an archive is the log of one moment; restoring it gives exactly that |
| sessions, audit | the audit log tells every session's life once and in order; a token logged out by the header is refused; no request waits for ever |
| tenant limits | in every window a bucket grants at most burst plus refill |
| ring | a key goes to the next node clockwise, whatever nodes came and went |
| log buffer, metrics | the last messages, oldest first; no count lost between total and rate |
| web console | a tab that stays on the pages of a role has that role; a known role is never signed out by the console itself; every tab comes to rest, with something to see |
| embedded console | token, role and name are of one login; a 403 says only that the session has just ended; no spinner without a request; a session that is over is noticed |

The hazards behind these properties are listed, each at its line, in
`PROJECT.json`.

## Modules

Arrows read "extends" or "instantiates"; each `MC*` module adds model values and
symmetry for TLC and each `*Proofs` module holds theorems.

```
BitcaskFile <- Bitcask <- BitcaskCompact <- MCBitcaskCompact, BitcaskProofs
                  |  \<- BitcaskBackup  <- MCBitcaskBackup, BitcaskProofs
                  |  \<- MCBitcask
                  +--> KVStore (Map), DurableLog (Log)      refinements
SqlTables --> KVStore (its engine), TableLog (Abstract)     refinement
Transactions --> KVStore (its engine)
Documents --> Collections (Abstract)                        refinement
MCServices extends LogBuffer and instantiates RateLimit, Metrics, HashRing, Documents
MCServer extends ServerRestore and instantiates Transactions, Sessions
MCConsoles extends WebConsole and instantiates Dashboard
SqlTables <- MCSqlTables, SqlTablesProofs   MCServices <- ServicesProofs
Transactions <- TransactionsProofs          Sessions <- SessionsProofs
MCServer <- ServerProofs --> TransactionsProofs, SessionsProofs
Dashboard <- DashboardProofs                MCConsoles <- ConsoleProofs --> DashboardProofs
```

| module | models | state and actions against the code |
|---|---|---|
| `BitcaskFile` | `entry.go`, the scan of `bitcask.go` | a file is its size, the synced size and a set of record fragments by offset; `Scanned`/`LoadDir` are the scan loop (`ScanLoop` is that loop step by step), `Recovered` what a restart finds |
| `Bitcask` | `bitcask.go` | `keyDir`, `activeFileID`, `writeOffset` and the descriptors are the struct's fields; `WriteEntry` is `writeEntry` with its rotation, `DeleteCheck`/`DeleteWrite` the two critical sections of `Delete`, `Open`/`OpenRefused` `NewEngine`; one action for each way a system call or the process can fail |
| `KVStore`, `DurableLog` | the promise of `KVEngine`; a log with a durable prefix | abstract specifications |
| `BitcaskCompact` | `compact.go` | the steps of `Compact` in order, each able to fail or to be the last before a crash; `Reload` is `reloadDB` |
| `BitcaskBackup` | `backup.go`, `handleRestore` | a backup copies one file at a time; a restore checks, closes the engine, removes and extracts file by file; each of these calls can fail, and no extracted byte is synced |
| `SqlTables` | `executor.go` | a statement is a program counter over engine calls; `session` holds the handler's locals; the scan of `ListTables` can fail or pass over schemas |
| `TableLog` | what the executor promises | abstract specification |
| `Transactions` | `tx.go` | `lockedBy` is the manager's mutex, which a commit holds throughout; `toApply` is the loop over its write set; a transaction that was ended stays `Usable` |
| `Documents`, `Collections` | `collection.go`, document routes | a key is the sequence of characters of `doc:<collection>:<id>`; `PutRaw` and `DeleteRaw` are the key-value routes, which write any key; in `Collections` a raw key that is no document's is a stray name |
| `ServerRestore` | `handleRestore`, the handlers | `engines` are all engines ever opened; `db`, `cm`, `userStore` point into it; the directory has a generation; `CloseFails` is the early return of `handleRestore` |
| `Sessions` | `auth.go`, `audit.go`, `authMiddleware`, `oidc.go` | `sessMu` is the logout that holds it while logging, `auditWriter`/`auditReaders` the RWMutex of the audit log with Go's rule that a waiting writer keeps new readers out; `Admit` is `authMiddleware`, with a token from the header or the query, and `RoleOf` is `resolveSession` |
| `RateLimit` | `tenant.go` | integer tokens and a clock in ticks; `Lookup`/`Create` are the two critical sections of `getBucket` |
| `HashRing` | `sharding.go` | `ring` and `ringMap`; the hash is any function, chosen in `Init` |
| `WebConsole` | `api.ts`, `AuthContext`, `AppLayout`, the pages | `tab` is the document of each tab: its phase (`loading`, `hydrated`, `shown`), role, pending navigation, load, selected tab and requests; one action per effect, click, navigation and answer |
| `Dashboard` | the function `XN` of the bundle; `authMiddleware`, `checkRole`, login and logout | `tab` is XN's state; a request carries the session of the render it comes from (`me`); `account` and `live` are the server's sessions, looked up by `Admit` and again by `Status` |
| `MCServices`, `MCServer`, `MCConsoles` | the small services; what runs beside an engine; the consoles: parts that share no modelled state | a behaviour exercises one of them, its `subject` |
| `LogBuffer`, `Metrics` | `buffer.go`, `metrics.go` | the fields; one action per atomic instruction in `Metrics` |

Definitions whose comment begins with "Mutant of" are the changed forms of a
definition below them, each a bug the code might have had; replacing the
definition by its mutant makes the property named in `PROJECT.json` fail. They
are used nowhere else.

### What the models abstract

- **Engine.** A record is its key, its value or `NoValue` for a tombstone, and a
  sequence number. `lsn`, `committed` and `faults` are history and bounds: no
  guard of the code's reads them. The timestamp of a record is written and never
  compared, so it is left out. `VerifyCRC` is modelled by what it establishes: it
  passes on the whole of one record and on nothing else (`Intact`, `ReadsWhole`).
  The key inside a record that was read is never compared with the key asked for,
  so `Get` cuts the value out by length (`ValuePart`, `Garbled`). `CleanLog` says that nothing was written behind a
  torn fragment of the same file; the code does not keep this, which is what
  `bitcask_torn_restart` shows, and what holds is stated under it.
- **Power loss** cuts each file anywhere at or after its synced size. Directory
  entries are taken as durable.
- **Compaction:** a crash inside `Compact` is one of the process. Its run leaves out
  short writes and power loss before it, its proofs do not. The order in
  which `os.ReadDir` lists `aroradb.data.<id>` is kept (`NameRank`, ids below 100).
- **Backup.** A copy may hold a part of a record whose write began after the
  backup did. A restore begins when no backup is being copied, and a backup
  beside a compaction is not modelled.
- **SQL.** The engine is the `KVStore` map, which `EngineImplementsMap` justifies.
  A WHERE clause is the set of rows it keeps, each row is inserted once, and a
  row deleted through `/api/kv` is `DeleteRowKey`.
- **Transactions.** Nothing in the code ends a transaction, so reads, writes, commits and
  rollbacks of one that was ended are steps too; they count as operations (`MaxOps`).
- **Documents.** A filter is the set of bodies it matches. `compareValues` and
  dotted paths are not modelled. The key-value routes write keys of `RawKeys` and values
  of `RawValues`, JSON objects included. A raw key under `doc:` is a document key of the
  names and ids there are or has no second colon (`DocumentsAssumption`): `Names` and
  `AllIds` are meant to be all there are. A body that is refused and one of `null`, which
  panics, store nothing (`RefuseDocument`). Engine calls succeed.
- **Sessions.** Passwords, cookies and redirects are left out; a token is the name of
  the login that handed it out. Beside these there are the two mock tokens and the
  configured one, if any (`Standing`); they get past `authMiddleware` from the header or
  the query, which makes no difference, so the model lets them come in the header.
  Creating and deleting users, the audit log and the logout read the header only
  (`HeaderToken`); `checkRole` takes either. The engine's Put and the user store may fail.
  The critical sections of `GetSession` and of the map update of a login block on nothing
  and are single steps. How a login falls back on the default users is kept
  (`LoginLookup`); the role a session has is the one cached at its login.
- **RateLimit.** One tenant, which is what the code's `getBucket` callers pass.
- **HashRing.** Replicas of a node are hashed to points of a small circle by any
  function; `Collisions` says whether two may share a point.
- **ServerRestore.** What the files hold is `BitcaskBackup`'s matter. `Close` may fail
  after it has marked the engine closed, as it does on a descriptor that a failed rotation
  lost; the engine stays closed and no step of that request opens another.
- **WebConsole.** Rows are "some" or "none"; texts, styles and buttons without a
  handler are left out. Requests of pages that are gone are kept only for the effect
  their answers have (`Abandoned`); two that are alike are one. A full load aborts
  what was in flight. The page of the API's documentation is left out.
- **Dashboard.** Requests that are alike are one, so a second click while the first
  runs matters only by the flags. An answer that is lost and a request that is lost
  are both `failed`. The documents, keys and rows that pages display are left out, so
  that answers to two queries may come in either order is not seen; nor is what SQL
  text says. The server's handlers behind the role check do not fail. A request
  is admitted by one lookup of its session and answered by a second one, with other
  requests between the two; without a configured token (`Secured = FALSE`) the second
  lookup of a session that is gone finds a project admin.

Assumptions of passing runs that the code does *not* keep are constants for that
reason: `WritersOverlap = FALSE` (statements that write one table take turns),
`Overlap = FALSE` (one restore at a time), `Collisions = FALSE` (no two replicas hash
to one point), and in `MCServices` collection names without a colon (`MCNames`). "What the code
does not keep" below says what happens without them.

## Runs

Passing runs:

| run | shows |
|---|---|
| `bitcask_clean` | without torn records the engine is a map (refinement of `KVStore`) through rotations, failed rotations, crashes and restarts, and its index is what a restart would build |
| `bitcask_faults` | with torn and short writes, failed rotations and power loss at any byte, all is served and recovered until a record follows a torn one; a torn record hides nothing before it; the scan loop of the code equals the declarative scan; only the newest file can lose bytes; the files implement a log with a durable prefix |
| `compact` | through every failing call and crash there is a complete copy until `Compact` removes its own output; until then nothing a client sees changes; a `Compact` that succeeds leaves no stale record |
| `backup` | an archive is one moment of the log; a restore without failure gives exactly it; a refused archive changes nothing |
| `sql` | with writers that take turns a table is an append-only sequence, SELECT a snapshot of it that misses no acknowledged row it could read and holds no rejected one, ListTables current |
| `server` | no stale acknowledgement, the engine served is current, a restore past `Close` ends with an engine in place unless it cannot be opened; commits apply one after the other, a commit in progress shows a part of itself only, no transaction waits for ever; the audit log is faithful and keeps the last entries, a token logged out by the header is refused in either place, the two locks are never waited for in a circle |
| `services` | last messages in order; the envelope of a bucket in every window; counts add up; clockwise lookup for every hash without collisions; documents as keys implement `Collections`, beside raw keys and values |
| `consoles` | two tabs of a browser. Web console: a tab rests only on pages its role admits, a known role is never signed out, a tab that waits for nothing shows something, every tab comes to rest. Embedded console: sessions are never mixed, a 403 is answered only to an audit poll whose session has just ended, no spinner is left behind, a dead session is noticed |

Runs that find a violation, each of something a comment, a document or a message
of the repository says (quoted in `PROJECT.json`, "findings"):

| run | the code |
|---|---|
| `bitcask_torn_restart` | appends behind a torn record after a restart; the database then refuses to open or forgets the record |
| `compact_loses_data` | `Compact` removes its own output `aroradb.data.compact` and then fails to rename it: every record is gone |
| `sql_inserts` | two overlapping INSERTs take one row id; both are acknowledged and one row is gone |
| `console_expiry` | two polls of a dead session are both answered 401; the user logs in again after the first, and the second says "Session expired" and drops the new session |

### What the code does not keep

The last section of each module states what else a comment, a document or a name in
the code promises and the code does not do. These definitions are not part of the
runs above, which check what does hold; TLC finds each of them violated within
a minute when it takes the place of the properties in the cfg named here (with
the constants given; those of an instantiated module need a definition in the MC
module, such as `TenantEnvelope == Rate!TenantEnvelope`).

| definition | cfg | the code |
|---|---|---|
| `SyncedBeforeIndexed` | `BitcaskClean` | acknowledges a Put that was not synced |
| `OwnRecord` | `BitcaskFaults` | after two short writes Get returns another key's record |
| `CompactCrashKeepsData`, `NoOldFilesLeft` | `Compact` | loses data in a crash; leaves old files that win at the next start |
| `CopyIsWhole` | `Compact` | drops the keys of a file whose descriptor a failed rotation closed |
| `ArchiveIsComplete` | `Backup` | delivers a well-formed archive without some files when copying fails |
| `FailedRestoreKeepsData`, `RestoredIsArchive` | `Backup` (`MaxLsn = 4` for the second) | removes the old files before it knows that the archive can be extracted; drops the error of `os.Remove` |
| `UsersAreRestored` | `Server` | leaves `userStore` on the closed engine |
| `RefusedRestoreServes` | `Server` | answers 500 when `Close` fails and leaves the engine it has closed in place, over files that are intact |
| `ServedAfterOverlap` | `Server`, `Overlap = TRUE`, `Failures = {}` | two restores can leave an engine in place whose files are gone |
| `CreatedOnce` | `SqlInserts` | two overlapping CREATEs are both acknowledged |
| `SkipsOnlyMissingRows` | `Sql` | SELECT drops rows it failed to read and reports success |
| `ReadsRepeat`, `DeadTxLeftNothing`, `CommittedIsStored`, `FirstCommitterWins`, `EndsOnce` | `Server` | reads do not repeat; a crash leaves half a commit; errors of the engine are dropped; a transaction overwrites what another has changed since it read it; one that was rolled back or committed can be committed |
| `TenantEnvelope` | `Services` | two first requests get two buckets, and the tenant two bursts |
| `ThrottledNotStarved` | `Services`, `MaxTime = 8` | a tenant that asks often gets no token at all |
| `LookupIsClockwise` | `Services`, `Collisions = TRUE` | removing a node takes a point that another node shares |
| `ListsOnlyItsDocuments` | `Services`, with the name `<<"a", ":", "b">>` in `MCNames` | documents of collection `a:b` are listed in collection `a` |
| `ListsOnlyCollections` | `Services` | a raw key `doc:x` is listed as the collection `x` |
| `LogoutEndsSession` | `Server` | a logout whose token came in the query is admitted, answered with success and ends nothing |
| `RegistersOnlyNewUsers` | `Server`, `Users = {Owner, Dba, u1}` | an auto-registration replaces a user onboarded after its lookup |
| `HydratedStays` | `Consoles` | the cookies that are to "hydrate the Next.js UI context" (`authentication.md`) do not keep a tab from the login page: the guard reads localStorage |
| `LogoutClearsCookies` | `Consoles` | the logout page carries no token, is refused before its handler runs, and the load balancer's middleware sets the cookies again |
| `MenuIsAdmitted` | `Consoles` | the menu follows the cookie and the guard localStorage: a link may lead back |
| `RefusedPageLoadsNothing` | `Consoles` | a page's effect runs before the guard's, and loads what the guard then refuses |
| `EveryRoleSettles` | `Consoles` | a role that is neither admin nor user goes to and fro between `/admin` and `/user` for ever |
| `DropsOwnSession` | `Consoles` | a logout drops from localStorage the session of another tab |
| `NeverForbidden` | `Consoles` | an audit poll is answered 403 when another tab logs its session out between `authMiddleware` and `handleGetAuditLogs`, which the console ignores |
| `ForbiddenMeansOver` | `Consoles`, `"visitor"` for `"user_db"` in `MCRoleOf` | `handleCreateUser` takes any role; the console of a visitor polls metrics and is refused |

### Bounds

- **Engine:** two keys, up to two values, 4 bytes to a record (`HeaderSize` 2,
  one byte each of key and value) and `MaxFileSize` 8, so two records fill a file
  and the third rotates. `MaxLsn` 3 to 5 records give up to three files with
  overwrites and tombstones; one or two failures suffice for each kind to hit every
  step. Under faults one value is enough to tell stale from current, since a
  tombstone is the other. The values are symmetric, and so are the keys. How many
  `Delete`s are between their critical sections is not bounded: `deleting` says of which
  keys some is, and the one that writes may or may not be the last of its key (`LeftBy`).
- **SQL:** two sessions are the least that interleave, and every property is about
  one table; three rows and a limit of one cover an empty, a cut and a complete
  result; schemas of width one and two make a row of the wrong width. One failing
  call, scan of schemas or crash, and one deleted row.
- **Compaction:** three records, one failure before it; every call of it can fail,
  among them the rename of a file that is there.
- **Transactions:** two transactions, two keys: the least for a conflict and for a
  half-applied commit. One value and its deletion tell whose write is in the store; two
  operations each leave room to commit or write again after an end.
- **Restore:** two restores and two requests; a request may hold an engine from
  before the first restore until after the second. `Close`, the extraction and the reload
  of either can fail.
- **Backup:** two backups, so that one can be taken beside a restore, and one
  restore of up to two files. Every call of the restore can fail, `Close` included.
- **Sessions:** three requests: a login, and two overlapping logouts of its session,
  or a logout and a view or a request that comes after it, or two logins and a
  logout; three is also the length of the circle that must not close. The audit log
  holds two entries so that it overflows. Two users, the default ones with their two
  roles, and a configured token beside the mock ones.
- **Documents:** two names of which one begins the other, an id that begins with
  the colon, a generated id that a client chose too, two bodies; raw keys that are a
  document's, end with an empty id, or have no second colon; raw values that are no object
  and an object without `_id`.
- **RateLimit:** two tokens a second and four ticks a second, so a refill rounds;
  five ticks are more than a second. **Ring:** three nodes with two replicas each on
  seven points, every hash. **LogBuffer:** a buffer of three and eight writes wraps
  twice. **Metrics:** two requests and four ticks.
- **Web console:** two tabs, the least that share localStorage; the user acts three
  times (open, log out or follow a link, and once more in the other tab), while
  effects, navigations and answers are not bounded. Roles the console knows, one it
  does not know and none; a deployment that has two of the three endpoints under
  `/api/v1`, so that loads succeed, are refused and are not found.
- **Embedded console:** two tabs, an admin and a database user, two logins (so that a
  session comes after one that ended), three actions or failures and one poll in
  flight per tab (two tabs poll at once). A token is configured. `console_expiry` has the same bounds.

### Fairness

The runs that check liveness (`server`, `consoles`) use a fair specification and no
symmetry. Fairness is weak throughout.

- `Transactions`: the steps of a commit, and each way a client ends its transaction: a
  client that began one commits it or rolls it back. Weak fairness suffices for taking
  the manager's lock although it comes and goes, because there are finitely many
  transactions: after the last other one has ended, the lock stays free.
- `ServerRestore`: each restore's steps; beginning one is not fair.
- `Sessions`: each request's steps, for the same reason; that writing an answer to a
  client ends is the server's `WriteTimeout` of 15 seconds. Beginning a request is not
  fair.
- `WebConsole`: per tab, React runs the effects of what it has rendered and a
  navigation that has started ends; every fetch ends, if only in an error. The user is
  not fair.
- `Dashboard`: per tab, timers fire, and polls and the logout after a 401 are served
  and answered. Nothing else is assumed: that is what noticing a dead session needs.

Deadlock checking is off where a system may stop because its bounded inputs are
used up.

## Proofs

TLAPS checks these for all values of the constants.

`BitcaskProofs` (every set of keys and values, record size, file size, number of
records and of failures, each kind of failure, power loss included). No theorem has a
hypothesis but `EngineImplementsMap`, which is false with torn records. The library's
induction cannot be used, but its well-founded order of the numbers can: a set of
numbers has a least element and, if bounded, a greatest (`Least`, `Greatest`), and
that is all the induction these proofs need. What a recursive function or a fold of the
community modules computes is proved the same way: exhibit a solution of its equation,
and show that two solutions cannot differ at a least place.

- **The engine.** The invariants of the runs are not inductive; `IInv` adds what makes
  them so. Files are laid out without overlap and without a gap (`Layout`), so a new
  fragment at the end disturbs no other; the last record of each key is what clients
  were told (`CommittedOK`) and what the index holds (`IndexOK`), as long as the log is
  clean; the active file is the last one, every other has a descriptor, and the write
  offset is its size. One lemma per action shows that it keeps `IInv`. `TypeCorrect`,
  `IndexIsRestartIndex`, `RestartRecovers` and, with a step-by-step refinement argument,
  `EngineImplementsMap` follow. `GetServesCommitted` needs besides that an engine which
  lost its active descriptor still has the others (`Held`), which `Compact` breaks for
  a while.
- **The log.** `LogInv` says that records lie in the order in which they were written
  and that only the last file has bytes that are not synced. So a cut of that file, and
  none of another, takes an end of the log: each step is one of `DurableLog`
  (`FilesImplementLog`), and only power loss takes a record away (`RecordsStay`).
- **The scan loop.** `ScanLoop` is a recursive function. `ScanFrom` says what it should
  return at each offset; it satisfies the equation of the loop (`ScanFromIterates`), and
  any two solutions agree, since the last offset where they differed would be followed
  by one where they agree (`ScanLoopIs`). `ScanLoopFinds` compares it with `Scanned`.
- **Compaction.** Until the copy is complete the engine is what it was (`IInv`), and the
  temporary file holds the live record of each key passed and nothing else (`CopyInv`);
  from then on the copy stands for it. `CInv` says so as long as no damage is done, that
  is, until `Compact` has removed its own output. `CopyStaysComplete`,
  `CompactServesCommitted` and `CompactLeavesLiveOnly` follow. `CompactLeavesOnlyLiveBytes`
  turns the last into the figures of `Stats`: a fold of sizes is the cardinality of the
  bytes covered (`SizesOfParts`), and the live records of the one file that is left cover
  it without overlap and without a gap (`LiveFillsFile`).
- **Backup and restore.** What clients were told is not an invariant of a restore that
  fails, so these proofs rest on less: `DiskInv` is the layout of the files and that the
  active one is the last, and each step of the engine but power loss puts a record
  behind all others or none (`DiskStep`). Of a backup, `CopyingInv` says that what is
  new since it began lies in the last of the files it listed or behind them, in order,
  and that each copy is a beginning of its file with all that was there before. So the
  records an archive misses are newer than those it holds (`MissedIsLater`), which is
  `BackupIsOneMoment`; a torn record on the way does not matter. Of a restore,
  `RestoringInv` says which files it has left (`RestoreGives`, `RejectedKeeps`).

`ServicesProofs` is about `MCServices`, service by service. **Log buffer** (every
capacity, any number of writes): `IInv` says where each message is: those before the
write position are the last ones, and those from it on the ones before, once the buffer
is full. `EntriesCorrect` follows for `GetEntries` in both of its branches. **Metrics**:
the counter of the interval lags behind the total by the reads that are between their
two increments (`CountersInv`); `ReadsInOneRate`. **Tenant limits** (any rate, clock
and number of requests): `RateInv` says of each bucket, for every request it let
through, that the requests since then and the tokens that are left are within the burst
and the refill up to its last refill (`Within`); a refill keeps this because rounding
down twice is never more than rounding down once. `BucketsStayWithin` follows.
**Documents** (all ids, and all names without a colon, which is a hypothesis because
the code does not check it): the characters of a key give back the collection
(`SameName`) and then the id (`KeysAreOfOne`), the prefix of a collection begins its
keys only (`PrefixIsOfOne`), among raw keys too (`PrefixIsDocuments`), and `ListCollections` reads the name off the key
(`NameOfKey`); so each operation is the operation of `Collections` on the keys read back
(`View`), which is `DocumentsAreCollections`. **Hash ring** (any nodes, replicas and
points). `RingInv` says that `ring` is sorted, that its points and the keys of `ringMap`
are the same, and that a point maps to a node that is there and has a replica at it; if
no two replicas share a point, every replica of every node that is there is on the ring.
`Sorted` and `Filtered` are defined by counting the points up to a place, because the
prover cannot expand the recursion of `SortSeq` and `SelectSeq`; that such a place exists
and is one is `PlaceExists`. `LookupIsMember` needs nothing more: a lookup never gives a
node that was removed. `LookupGoesClockwise` has the hypothesis that no two replicas share
a point, which nothing in the code sees to and without which `Services` finds it violated
(see above, "What the code does not keep").

`SqlTablesProofs` (every number of requests, tables, rows, failing calls, crashes and
deletions; `WritersOverlap = FALSE`). That the writers of a table take turns is a
hypothesis of every theorem (`TurnTaking`), since nothing in the code makes them:
without it `sql_inserts` shows a lost row. Readers are free. The invariants of the run
speak of what a statement answers, so `IInv` says what it knows at each of its steps.
Of a table (`TableInv`): the counter does not exceed the number of rows ever given to
an INSERT, every row with an id below the counter is of an INSERT that can no longer
fail, no row is there twice, and each acknowledged row is below the counter or was
deleted. Of a writer (`CreateInv`, `InsertInv`): the id it holds is still the counter,
which is where taking turns is used. Of a reader (`ScanInv`): what a SELECT has
collected comes, in order, from the ids it has passed (`SnapshotOf`), and each row
acknowledged before it began is collected, unread, deleted or at an id it has yet to
read. Most of
the proof is that one statement does not disturb another: each step only lets a table
grow behind its counter (`Grows`), and this keeps what every other statement knows.
From `IInv` follow `SelectAnswersSnapshot`, `SelectAnswersAcked` and
`ListAnswersCurrent`, and step by step the refinement `SqlImplementsTableLog`: an
INSERT appends when it puts the counter, not when it puts the row.

`TransactionsProofs` (any number of transactions, keys, failures and crashes; no
hypothesis). `IInv` says that the holder of `manager.mu` is the one transaction that is
committing, that the loop of its commit has yet to apply a part of its own write set,
and that a key it has applied holds its value while every other key holds what the
finished commits wrote. `TxStoreIsSerial` and `TxCommitIsPartOfOne` follow.

`SessionsProofs` (any number of requests and users, any `MaxAudit`). `IInv` gives each
request the places its kind leads to, and relates `sessions` to the events (`Living`,
`Logged`): the log has the login of exactly the sessions that were handed out; it has
the logout of those that are gone, and of one in the map only while the logout that
holds `sessMu` is about to delete it. An answered logout by the header left no session
of its token, and tokens are handed out once. `auditLogs` is the end of `events`. `AuditOfSessions` and `RefusedAfterLogout` follow.

`ServerProofs` is about `MCServer`. For `ServerRestore` (any number of restores and
requests, `Overlap = FALSE`) `IInv` says that only the engine in place can be open, that
none is open while the files are replaced, and that the engine a restore has opened is
not yet in place; `NoStaleAckHolds` and `ServedEngineHolds` follow. A step of
`MCServer` is a step of its subject and leaves the variables of the other two parts
alone, so each behaviour of it is one of `ServerRestore`, of `Transactions` and of
`Sessions`; `ServerNoStaleAck`, `ServerStoreIsSerial`, `ServerCommitIsPartOfOne`,
`ServerSessionsAreAudited` and `ServerLoggedOutIsRefused` carry the theorems about the
parts over to what the run `server` checks.

`DashboardProofs` (any tabs, accounts, number of sessions and actions; no account is a
visitor's). `IInv` says that whatever a tab, a timer or a request carries is `Nobody`
or a session that was handed out, with the role its account had, that a request in
flight asks for what that role may do (a role check made in one render is still right
for the token of that render), and that a flag of a tab has a request of its kind in
flight, which no login, logout or other answer takes away. So a 403 comes from the second
lookup of a session that is over, and only the audit poll's handler answers it. `SessionIsOneLoginHolds`,
`ForbiddenMeansOverHolds` and `SpinnerHasRequestHolds` follow.

`ConsoleProofs` is about `MCConsoles`. For `WebConsole` (any number of tabs, roles,
cookies and deployments, with and without the load balancer, no bound on the user;
assumed is that `None` is no role, path or mark of a load) the properties are about
documents that rest, so `IInv` says of every document what it needs to come to rest
well: a request without a token was made when there was no role (so a 401 never meets a
known one, however late it comes), a load has its request, the tab selected is one the
page shows, and a document without a pending navigation is on a page that the role in
localStorage admits. That role changes only to none, in a step that only a browser
without a known role takes. `RestIsAdmittedHolds`, `RoleKeepsSessionHolds` and
`RestShowsContentHolds` follow. Then, as in `ServerProofs`, each behaviour of
`MCConsoles` is one of `WebConsole` and of `Dashboard`: `ConsolesRestAdmitted`,
`ConsolesShowOneLogin`, `ConsolesForbiddenMeansOver` and `ConsolesSpinnersWait` (the last
three for accounts that are no visitor's).

Every invariant and every action property of a passing run is stated by one of these
theorems. Only model-checked is liveness (`EveryTxEnds`, `RestoreEndsServing`,
`EveryRequestEnds`, `TabsSettle`, `DeadSessionNoticed`), which this prover does not reach.
The hypotheses of the theorems are those named above, and no other: no torn or short
writes and no power loss for `EngineImplementsMap`, writers that take turns for the SQL theorems,
restores that do not overlap, collection names without a colon, no colliding points,
accounts that are no visitor's.

## Not modelled

The SQL parser (a pure function of text, planned), `compareValues` of documents and
SQL (planned), the in-memory indexes and the raft wrapper (wired to nothing; raft's
protocol is a library's), the user manager (constant answers, never registered),
configuration, registration of modules, routing, JSON, CORS, the command line, the
documentation site (prose and the configuration of its generator) and the deployment
files. Of the consoles: what they display, the page of the API's documentation,
downloads, onboarding, and the order of answers that fill the same list.

## Plan

Done, in this order: the engine and its proofs, compaction, SQL, transactions, rate
limits, the ring, backup and restore, sessions, documents, log buffer, metrics, the
two consoles; then proofs about all of them, compaction, backup and the ring last.

Next, extending the models:

1. `Compare`: `compareValues` of `collection.go` and `executor.go` over small values
   of each kind, against a reference order; `matches` with the filter operators;
   then `Documents` with filters in place of sets of bodies.
2. `SqlParser`: `tokenize` and the three parsers over short texts, against a grammar.
3. A backup beside a compaction and beside a restore; compaction with power loss.
4. `Sessions` composed with `ServerRestore`: user routes on the engine that was
   closed.
5. `Dashboard`: the lists that answers fill, to see answers that overtake each other.

Next, proving more: with the extensions above, their invariants; the refinement of
`EngineImplementsMap` for the sessions of `SqlTables`, that is, the SQL theorems over the
files of `Bitcask` instead of the map they implement.
