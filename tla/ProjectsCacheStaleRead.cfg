\* A read overlaps a write; nothing fails.
SPECIFICATION Spec
CONSTANTS
  Organization = {o1}
  Request = {r1, r2, r3}
  Old = {p1}
  Crashes = FALSE
  Null = Null
SYMMETRY Interchangeable
INVARIANTS ReadsAreFresh
CHECK_DEADLOCK FALSE
