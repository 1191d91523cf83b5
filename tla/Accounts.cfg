SPECIFICATION Spec
CONSTANTS
  Username = {n1, n2, n3}
  Email = {e1, e2, e3}
  Password = {p1, p2, p3}
  Request = {r1, r2, r3}
  Old = {u1, u2}
  Null = Null
SYMMETRY Interchangeable
INVARIANTS TypeOK
PROPERTIES ProvenByPassword
CHECK_DEADLOCK FALSE
