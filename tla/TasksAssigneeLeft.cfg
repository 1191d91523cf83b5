\* A member leaves, or is removed, while a task is assigned to him.
SPECIFICATION Spec
CONSTANTS
  User = {u1, u2}
  Org = {o1}
  Board = {b1}
  OrgOf <- OneHome
  Request = {r1, r2}
  Old = {t1}
  Status = {"TODO"}
  Priority = {"MEDIUM"}
  MaxMoves = 1
  Null = Null
INVARIANTS AssigneesBelong
CHECK_DEADLOCK FALSE
