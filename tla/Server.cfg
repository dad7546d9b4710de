SPECIFICATION ServerSpec
CONSTANTS
  Restores = {a, b}
  Requests = {q1, q2}
  Overlap = FALSE
  Failures = {"close", "extract", "reload"}
  Txs = {t1, t2}
  Keys = {k1, k2}
  Values = {v1}
  NoValue = NoValue
  Unwritten = Unwritten
  Unread = Unread
  MaxOps = 2
  MaxFaults = 1
  Clients = {r1, r2, r3}
  Owner = Owner
  Dba = Dba
  GlobalToken = GlobalToken
  Users = {Owner, Dba}
  DefaultUsers = {Owner, Dba}
  MaxAudit = 2
  None = None
CHECK_DEADLOCK FALSE
INVARIANTS NoStaleAck ServedEngineIsCurrent StoreIsSerial CommitIsPartOfOne SessionsAreAudited LoggedOutIsRefused
PROPERTIES RestoreEndsServing EveryTxEnds EveryRequestEnds
