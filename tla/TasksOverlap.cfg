\* Any three requests on a board and its tasks, overlapping in any way, with
\* one change to members, boards or the organization in between.
SPECIFICATION Spec
CONSTANTS
  User = {u1, u2}
  Org = {o1}
  Board = {b1}
  OrgOf <- OneHome
  Request = {r1, r2, r3}
  Old = {t1}
  Status = {"TODO", "DONE"}
  Priority = {"MEDIUM", "HIGH"}
  MaxMoves = 1
  Null = Null
SYMMETRY Interchangeable
INVARIANTS TypeOK TasksHaveBoards AuditFramesTask AssignmentsTold
PROPERTIES AssigneesWereMembers DeletionClosesLog LogDriftIsStale
CHECK_DEADLOCK FALSE
