\* Any four requests of two users, overlapping in any way or
\* one at a time.
SPECIFICATION AloneSpec
CONSTANTS
  User = {u1, u2}
  Request = {r1, r2, r3, r4}
  Lifetime = 2
  MaxTime = 2
  Null = Null
SYMMETRY Interchangeable
INVARIANTS TypeOK RotationConsumesParent SweepLeavesOnlyInFlight
           SingleUseAlone OneLivePerLoginAlone
PROPERTIES OneUserPerStep
CHECK_DEADLOCK FALSE
