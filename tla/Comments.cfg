SPECIFICATION Spec
CONSTANTS
  o1 = o1
  o2 = o2
  Org = {o1, o2}
  User = {u1, u2}
  Task = {t1}
  Request = {r1, r2}
  OrgOf <- Homes
  Old = {c1}
  MaxMoves = 2
  Null = Null
SYMMETRY Interchangeable
INVARIANTS TypeOK CommentsHaveTasks AuthorsWereEditors
PROPERTIES RemovalsAuthorized
CHECK_DEADLOCK FALSE
