\* Two overlapping refreshes of one token.
SPECIFICATION AloneSpec
CONSTANTS
  User = {u1}
  Request = {r1, r2, r3}
  Lifetime = 2
  MaxTime = 0
  Null = Null
INVARIANTS SingleUse
CHECK_DEADLOCK FALSE
