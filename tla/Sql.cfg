SPECIFICATION Spec
CONSTANTS
  s1 = s1  s2 = s2  r1 = r1  r2 = r2  r3 = r3
  Sessions = {s1, s2}
  Tables = {t1}
  Schemas = {1, 2}
  Rows = {r1, r2, r3}
  Width <- Widths
  Conditions <- SomeConditions
  Limits = {NoLimit, 1}
  NoLimit = NoLimit
  NoValue = NoValue
  NoTable = NoTable
  WritersOverlap = FALSE
  MaxFaults = 1
  MaxDeletes = 1
SYMMETRY Symmetry
INVARIANTS SelectIsSnapshot SelectSeesAcked ListIsCurrent
PROPERTIES ImplementsTableLog
