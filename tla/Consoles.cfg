SPECIFICATION ConsolesSpec
CONSTANTS
  Tabs = {t1, t2}
  None = None
  StoredRoles = {None, "admin", "user", "user_db"}
  CookieRoles = {None, "admin", "user"}
  Deployments <- MCDeployments
  Alb = TRUE
  MaxActs = 3
  Owner = Owner
  Accounts = {Owner, Dev}
  RoleOf <- MCRoleOf
  Secured = TRUE
  MaxLogins = 2
  MaxEvents = 3
  MaxPolls = 1
CHECK_DEADLOCK FALSE
INVARIANTS RestIsAdmitted RestShowsContent SessionIsOneLogin ForbiddenMeansOver SpinnerHasRequest
PROPERTIES RoleKeepsSession TabsSettle DeadSessionNoticed
