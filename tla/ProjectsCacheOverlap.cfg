\* Any three requests on two organizations, overlapping in any way,
\* with failures between PostgreSQL and Redis.
SPECIFICATION FairSpec
CONSTANTS
  Organization = {o1, o2}
  Request = {r1, r2, r3}
  Old = {p1}
  Crashes = TRUE
  Null = Null
INVARIANTS TypeOK ListsWereTrue StaleIsExplained AuditTellsProjects
PROPERTIES StaleEnds
CHECK_DEADLOCK FALSE
