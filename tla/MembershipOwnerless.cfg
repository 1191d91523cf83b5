\* Two overlapping requests can leave an organization without an OWNER.
SPECIFICATION AloneSpec
CONSTANTS
  User = {u1, u2}
  Account = {u1, u2}
  Org = {o1}
  Request = {r1, r2}
  Ops <- MemberOps
  NoOrg = NoOrg
  NoId = NoId
INVARIANTS AtLeastOneOwner
CHECK_DEADLOCK FALSE
