\* Any four requests of one user.
SPECIFICATION FairSpec
CONSTANTS
  User = {u1}
  Request = {r1, r2, r3, r4}
  Lifetime = 1
  MaxTime = 1
  Null = Null
PROPERTIES ReplayEndsSessions
CHECK_DEADLOCK FALSE
