SPECIFICATION ConsolesSpec
CONSTANTS
  Tabs = {t1, t2}
  None = None
  StoredRoles = {None}
  CookieRoles = {None}
  Deployments <- MCDeployments
  Alb = TRUE
  MaxActs = 0
  Owner = Owner
  Accounts = {Owner, Dev}
  RoleOf <- MCRoleOf
  Secured = TRUE
  MaxLogins = 2
  MaxEvents = 3
  MaxPolls = 1
CHECK_DEADLOCK FALSE

PROPERTY ExpiredSessionIsDead
