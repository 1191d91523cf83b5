\* Any three requests, one at a time or overlapping in any way; the ones that
\* overlap are for the endpoints whose effects on the rows can meet.
SPECIFICATION ContendedSpec
CONSTANTS
  User = {u1, u2, u3}
  Account = {u1, u2, u3}
  Org = {o1}
  Request = {r1, r2, r3}
  Ops <- AllOps
  NoOrg = NoOrg
  NoId = NoId
SYMMETRY Interchangeable
INVARIANTS TypeOK NoOrphanMembership DeletionRecordedOnce AuditNeverContradictsRows ChainOfCustody
           DeparturesRecordedAlone
PROPERTIES AuditSurvives ImplementsTable OwnershipDriftIsStale StrictTableAlone
CHECK_DEADLOCK FALSE
