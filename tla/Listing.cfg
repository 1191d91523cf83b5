SPECIFICATION MCSpec
CONSTANTS
  o1 = o1
  o2 = o2
  Org = {o1, o2}
  Name = {n1, n2}
  Task = {t1, t2, t3}
  Request = {r1, r2}
  OrgOf <- Homes
  Old = {l1}
  Null = Null
  Limits <- Pages
  Columns <- Sorts
SYMMETRY Interchangeable
INVARIANTS TypeOK LabelsInOrder SlipsExplained QuietWalkIsExact
PROPERTIES ImplementsBook
CHECK_DEADLOCK FALSE
