------------------------------ MODULE Membership ------------------------------
(***************************************************************************)
(* Organizations, their membership rows and the audit log, as the          *)
(* organization endpoints change them.                                     *)
(*                                                                         *)
(* A request runs on a stateless Node process.  It reads the caller's      *)
(* membership row in OrganizationGuard, may read a second row in the       *)
(* service, and then commits one database transaction.  Every await is a   *)
(* step boundary: rows read before it may have changed after it.  The      *)
(* transactions write rows selected by key only and keep their row locks   *)
(* until they commit (READ COMMITTED), so each is one step; Postgres may   *)
(* also abort it, and any request may die at an await.                     *)
(*                                                                         *)
(* Each element of Request is one HTTP request and is used at most once.   *)
(***************************************************************************)
EXTENDS Integers, Sequences, FiniteSets, Access

CONSTANTS User,        \* user ids a request may name
          Account,     \* the ones that are ids of registered users
          Org,         \* organization ids, existing ones and uuids to come
          Request,     \* requests
          Ops,         \* the endpoints this instance exercises
          NoOrg,       \* a null organizationId
          NoId         \* the id of no row

ASSUME MembershipAssumption ==
  /\ Account \subseteq User
  /\ Ops \subseteq Endpoint
  /\ NoOrg \notin Org
  /\ User \cap Request = {} \* both are ids of rows, and uuids
  /\ NoId \notin User \cup Request

VARIABLES
  orgState,   \* whether an organization row is yet to be created, live or deleted
  members,    \* the OrganizationMember row of each user in each organization
  audit,      \* the AuditLog rows, oldest first
  pc,         \* what each request does next
  args,       \* its endpoint and arguments
  membership, \* request.organizationMembership, the row its guard read
  seen,       \* the row its service read
  origin      \* the rows the system started with (history, never written)

db == <<orgState, members, audit, origin>>
vars == <<orgState, members, audit, origin, pc, args, membership, seen>>

-----------------------------------------------------------------------------
(* Rows, audit records, requests.                                          *)

\* A row keeps the id of the request that created it; the rows present at
\* the start have their user's id.
RowId == User \cup Request
Row == [id : RowId, role : Role]
NoRow == [id |-> NoId, role |-> NoRole]

RoleOf(o, u) == members[o][u].role

OrganizationAction ==
  {"ORGANIZATION_CREATED", "ORGANIZATION_UPDATED", "ORGANIZATION_DELETED"}
MemberAction ==
  {"MEMBER_ADDED", "MEMBER_ROLE_CHANGED", "MEMBER_REMOVED", "MEMBER_LEFT",
   "OWNERSHIP_TRANSFERRED"}

\* meta is the metadata column: <<previousRole, newRole>>,
\* <<previousOwnerId, newOwnerId>> or nothing.
AuditRecord ==
  [action : OrganizationAction \cup MemberAction,
   actor  : Account,
   org    : Org \cup {NoOrg},
   entity : RowId \cup Org,
   meta   : (Role \X Role) \cup (User \X User) \cup {<<>>}]

TargetedOps ==
  {"CreateMember", "UpdateMemberRole", "TransferOwnership", "RemoveMember"}

\* Requests that validation and JwtAuthGuard let through.
Args ==
  {a \in [op : Ops, actor : Account, org : Org \cup {NoOrg}, target : User,
          to : Role \cup {NoRole}] :
     /\ a.org = NoOrg <=> a.op = "CreateOrganization"
     /\ a.op \notin TargetedOps => a.target = a.actor
     /\ a.to = NoRole <=> a.op # "UpdateMemberRole"}

NoArgs == [op |-> "None"]

Running == {"read", "commit"}
Ended == {"done", "rejected"}

TypeOK ==
  /\ orgState \in [Org -> {"unborn", "live", "deleted"}]
  /\ members \in [Org -> [User -> Row \cup {NoRow}]]
  /\ audit \in Seq(AuditRecord)
  /\ origin \in [Org -> [User -> Row \cup {NoRow}]]
  /\ pc \in [Request -> {"new"} \cup Running \cup Ended]
  /\ args \in [Request -> Args \cup {NoArgs}]
  /\ membership \in [Request -> Row \cup {NoRow}]
  /\ seen \in [Request -> Row \cup {NoRow}]

-----------------------------------------------------------------------------
(* The life of a request.                                                  *)

Owns(o, u) == RoleOf(o, u) = "OWNER"

\* A live organization with exactly one OWNER.
OneOwner(o) == \E u \in User : \A v \in User : Owns(o, v) <=> v = u

\* Any state the endpoints reach when called one after the other: each live
\* organization has the OWNER who created it or was handed it, and other
\* members of any other role.
Init ==
  \E role \in [Org -> [User -> Role \cup {NoRole}]] :
    /\ orgState \in [Org -> {"unborn", "live"}]
    /\ \A o \in Org, u \in User :
         role[o][u] # NoRole => orgState[o] = "live" /\ u \in Account
    /\ members = [o \in Org |-> [u \in User |->
                   IF role[o][u] = NoRole THEN NoRow
                   ELSE [id |-> u, role |-> role[o][u]]]]
    /\ \A o \in Org : orgState[o] = "live" => OneOwner(o)
    /\ origin = members
    /\ audit = <<>>
    /\ pc = [r \in Request |-> "new"]
    /\ args = [r \in Request |-> NoArgs]
    /\ membership = [r \in Request |-> NoRow]
    /\ seen = [r \in Request |-> NoRow]

Finish(r, outcome) ==
  /\ pc' = [pc EXCEPT ![r] = outcome]
  /\ args' = [args EXCEPT ![r] = NoArgs]
  /\ membership' = [membership EXCEPT ![r] = NoRow]
  /\ seen' = [seen EXCEPT ![r] = NoRow]

Reject(r) == Finish(r, "rejected") /\ UNCHANGED db

\* The row of the caller, as OrganizationGuard reads it.
CallerRow(a) == members[a.org][a.actor]

\* The row of the user a request is about, as the service reads it.
TargetRow(a) == members[a.org][a.target]

\* Mutants: the owner may leave, or be chosen as his own successor; a role
\* change may hand out OWNER.
EarlyRefusalLetsOwnerLeave(a, row) ==
  \/ a.op = "UpdateMemberRole" /\ a.to = "OWNER"
  \/ a.op \in {"TransferOwnership", "RemoveMember"} /\ a.target = a.actor
EarlyRefusalGrantsOwner(a, row) ==
  \/ a.op \in {"TransferOwnership", "RemoveMember"} /\ a.target = a.actor
  \/ a.op = "LeaveOrganization" /\ row.role = "OWNER"

\* What a service refuses before its first await.
EarlyRefusal(a, row) ==
  \/ a.op = "UpdateMemberRole" /\ a.to = "OWNER"
  \/ a.op \in {"TransferOwnership", "RemoveMember"} /\ a.target = a.actor
  \/ a.op = "LeaveOrganization" /\ row.role = "OWNER"

Admitted(a) ==
  /\ CallerRow(a) # NoRow
  /\ RolesGuard(a.op, CallerRow(a).role)
  /\ ~EarlyRefusal(a, CallerRow(a))

MayStart(r) == pc[r] = "new"

\* Creating an organization passes no OrganizationGuard: nothing is read.
Begin(r) ==
  /\ MayStart(r)
  /\ \E a \in Args :
       /\ a.op = "CreateOrganization"
       /\ args' = [args EXCEPT ![r] = a]
  /\ pc' = [pc EXCEPT ![r] = "commit"]
  /\ UNCHANGED <<db, membership, seen>>

\* A request reaches OrganizationGuard, which reads the caller's row, and
\* passes it, RolesGuard and the refusals before the next await.
Guard(r) ==
  /\ MayStart(r)
  /\ \E a \in Args :
       /\ a.op # "CreateOrganization"
       /\ Admitted(a)
       /\ args' = [args EXCEPT ![r] = a]
       /\ membership' = [membership EXCEPT ![r] = CallerRow(a)]
       /\ pc' = [pc EXCEPT ![r] =
                   IF a.op \in TargetedOps THEN "read" ELSE "commit"]
  /\ UNCHANGED <<db, seen>>

GuardRefuses(r) ==
  /\ MayStart(r)
  /\ {a \in Args : a.op # "CreateOrganization" /\ ~Admitted(a)} # {}
  /\ Reject(r)

\* Mutant: the check on the target's role is missing.
AcceptableOwner(a, row) ==
  IF a.op = "CreateMember" THEN a.target \in Account /\ row = NoRow
                           ELSE row # NoRow

\* What the services that name a second user demand of that user's row.
Acceptable(a, row) ==
  CASE a.op = "CreateMember" -> a.target \in Account /\ row = NoRow
    [] a.op = "TransferOwnership" -> row # NoRow
    [] OTHER -> row # NoRow /\ row.role # "OWNER"

\* The service reads the target's row.
Check(r) ==
  /\ pc[r] = "read"
  /\ Acceptable(args[r], TargetRow(args[r]))
  /\ seen' = [seen EXCEPT ![r] = TargetRow(args[r])]
  /\ pc' = [pc EXCEPT ![r] = "commit"]
  /\ UNCHANGED <<db, args, membership>>

CheckRefuses(r) ==
  pc[r] = "read" /\ ~Acceptable(args[r], TargetRow(args[r])) /\ Reject(r)

\* The transaction is aborted (a row is gone, a key is taken, a deadlock) or
\* the process dies: nothing is written.
Fail(r) == pc[r] \in Running /\ Reject(r)

-----------------------------------------------------------------------------
(* The transactions.                                                       *)

Committing(r, op) == pc[r] = "commit" /\ args[r].op = op

Record(r, o, action, entity, meta) ==
  [action |-> action, actor |-> args[r].actor, org |-> o,
   entity |-> entity, meta |-> meta]

\* AuditService.create inside the caller's transaction.
Log(r, o, action, entity, meta) ==
  audit' = Append(audit, Record(r, o, action, entity, meta))

SetRow(o, u, row) == members' = [members EXCEPT ![o][u] = row]

SetRole(o, u, role) == [members[o][u] EXCEPT !.role = role]

\* Mutants: a row that is gone is not missed.
LiveUnchecked(o) == TRUE
PresentUnchecked(o, u) == TRUE

\* The organization row a transaction updates, deletes or refers to.
Live(o) == orgState[o] = "live"

\* The membership row a transaction updates or deletes; without it Prisma
\* throws P2025 and the transaction is undone.
Present(o, u) == members[o][u] # NoRow

\* The organization gets a fresh id and its creator becomes OWNER.
CreateOrganization(r) ==
  /\ Committing(r, "CreateOrganization")
  /\ \E o \in Org :
       /\ orgState[o] = "unborn"
       /\ orgState' = [orgState EXCEPT ![o] = "live"]
       /\ SetRow(o, args[r].actor, [id |-> r, role |-> "OWNER"])
       /\ Log(r, o, "ORGANIZATION_CREATED", o, <<>>)
  /\ Finish(r, "done")
  /\ UNCHANGED origin

UpdateOrganization(r) ==
  LET o == args[r].org IN
  /\ Committing(r, "UpdateOrganization")
  /\ Live(o)
  /\ Log(r, o, "ORGANIZATION_UPDATED", o, <<>>)
  /\ Finish(r, "done")
  /\ UNCHANGED <<orgState, members, origin>>

\* Mutant: the audit log cascades.
DetachedCascades(log, o) ==
  SelectSeq(log, LAMBDA rec : rec.org # o)

\* onDelete: SetNull on AuditLog.organization.
Detached(log, o) ==
  [i \in DOMAIN log |->
     IF log[i].org = o THEN [log[i] EXCEPT !.org = NoOrg] ELSE log[i]]

\* The record is written first, then the organization is deleted; its rows
\* cascade and every audit record loses its organizationId.
RemoveOrganization(r) ==
  LET o == args[r].org IN
  /\ Committing(r, "RemoveOrganization")
  /\ Live(o)
  /\ orgState' = [orgState EXCEPT ![o] = "deleted"]
  /\ members' = [members EXCEPT ![o] = [u \in User |-> NoRow]]
  /\ audit' = Detached(
       Append(audit, Record(r, o, "ORGANIZATION_DELETED", o, <<>>)), o)
  /\ Finish(r, "done")
  /\ UNCHANGED origin

\* The unique key on user and organization and the foreign key on the
\* organization decide at commit, whatever the service read.
CreateMember(r) ==
  LET o == args[r].org u == args[r].target IN
  /\ Committing(r, "CreateMember")
  /\ Live(o)
  /\ members[o][u] = NoRow
  /\ SetRow(o, u, [id |-> r, role |-> "VIEWER"])
  /\ Log(r, o, "MEMBER_ADDED", r, <<>>)
  /\ Finish(r, "done")
  /\ UNCHANGED <<orgState, origin>>

\* Mutant: the record is written under the id the service read earlier.
UpdateMemberRoleLogsStaleRow(r) ==
  LET o == args[r].org u == args[r].target IN
  /\ Committing(r, "UpdateMemberRole")
  /\ Present(o, u)
  /\ SetRow(o, u, SetRole(o, u, args[r].to))
  /\ Log(r, o, "MEMBER_ROLE_CHANGED", seen[r].id, <<seen[r].role, args[r].to>>)
  /\ Finish(r, "done")
  /\ UNCHANGED <<orgState, origin>>

\* The row is updated by key; previousRole is the role the service read.
UpdateMemberRole(r) ==
  LET o == args[r].org u == args[r].target IN
  /\ Committing(r, "UpdateMemberRole")
  /\ Present(o, u)
  /\ SetRow(o, u, SetRole(o, u, args[r].to))
  /\ Log(r, o, "MEMBER_ROLE_CHANGED", members[o][u].id,
         <<seen[r].role, args[r].to>>)
  /\ Finish(r, "done")
  /\ UNCHANGED <<orgState, origin>>

\* The caller's row becomes ADMIN and the target's OWNER, both by key; that
\* the caller still is the OWNER is not asked again.
TransferOwnership(r) ==
  LET o == args[r].org from == args[r].actor to == args[r].target IN
  /\ Committing(r, "TransferOwnership")
  /\ Present(o, from)
  /\ Present(o, to)
  /\ members' = [members EXCEPT ![o][from] = SetRole(o, from, "ADMIN"),
                                ![o][to] = SetRole(o, to, "OWNER")]
  /\ Log(r, o, "OWNERSHIP_TRANSFERRED", seen[r].id, <<from, to>>)
  /\ Finish(r, "done")
  /\ UNCHANGED <<orgState, origin>>

\* Mutant: the record names the wrong row.
RemoveMemberLogsActor(r) ==
  LET o == args[r].org u == args[r].target IN
  /\ Committing(r, "RemoveMember")
  /\ Present(o, u)
  /\ SetRow(o, u, NoRow)
  /\ Log(r, o, "MEMBER_REMOVED", membership[r].id, <<>>)
  /\ Finish(r, "done")
  /\ UNCHANGED <<orgState, origin>>

\* The row is deleted by key; the record names the row the service read.
RemoveMember(r) ==
  LET o == args[r].org u == args[r].target IN
  /\ Committing(r, "RemoveMember")
  /\ Present(o, u)
  /\ SetRow(o, u, NoRow)
  /\ Log(r, o, "MEMBER_REMOVED", seen[r].id, <<>>)
  /\ Finish(r, "done")
  /\ UNCHANGED <<orgState, origin>>

\* The row is deleted by key; the record names the row the guard read.
LeaveOrganization(r) ==
  LET o == args[r].org u == args[r].actor IN
  /\ Committing(r, "LeaveOrganization")
  /\ Present(o, u)
  /\ SetRow(o, u, NoRow)
  /\ Log(r, o, "MEMBER_LEFT", membership[r].id, <<>>)
  /\ Finish(r, "done")
  /\ UNCHANGED <<orgState, origin>>

Commit(r) ==
  \/ CreateOrganization(r)
  \/ UpdateOrganization(r)
  \/ RemoveOrganization(r)
  \/ CreateMember(r)
  \/ UpdateMemberRole(r)
  \/ TransferOwnership(r)
  \/ RemoveMember(r)
  \/ LeaveOrganization(r)

Step(r) ==
  \/ Begin(r)
  \/ Guard(r)
  \/ GuardRefuses(r)
  \/ Check(r)
  \/ CheckRefuses(r)
  \/ Fail(r)
  \/ Commit(r)

Next == \E r \in Request : Step(r)

Spec == Init /\ [][Next]_vars

-----------------------------------------------------------------------------
(* Properties.                                                             *)

\* Membership rows exist only for registered users in live organizations:
\* a removal racing an enrolment never leaves a row behind.
NoOrphanMembership ==
  \A o \in Org, u \in User :
    members[o][u] # NoRow => orgState[o] = "live" /\ u \in Account

\* What a record says the role of user u is.
GivenRole(rec, u) ==
  CASE rec.action = "ORGANIZATION_CREATED" -> "OWNER"
    [] rec.action = "MEMBER_ADDED" -> "VIEWER"
    [] rec.action = "MEMBER_ROLE_CHANGED" -> rec.meta[2]
    [] OTHER -> IF rec.meta[2] = u THEN "OWNER" ELSE "ADMIN"

\* A record speaks of a row by its id, of its user in a transfer's metadata.
Concerns(rec, o, u) ==
  /\ rec.org = o
  /\ \/ rec.action = "ORGANIZATION_CREATED" /\ rec.actor = u
     \/ /\ rec.action \in {"MEMBER_ADDED", "MEMBER_ROLE_CHANGED"}
        /\ rec.entity = members[o][u].id
     \/ rec.action = "OWNERSHIP_TRANSFERRED" /\ u \in {rec.meta[1], rec.meta[2]}

Departure(rec, o, id) ==
  /\ rec.org = o
  /\ rec.action \in {"MEMBER_REMOVED", "MEMBER_LEFT"}
  /\ rec.entity = id

\* The audit log never contradicts the rows, whatever overlaps: a row that is
\* there has the role the last record about it gives (the one it started
\* with, when there is none), and no record says that it was removed, even
\* though removals and transfers are logged under ids read earlier.
AuditNeverContradictsRows ==
  \A o \in Org, u \in User :
    members[o][u] # NoRow =>
      LET about == {i \in DOMAIN audit : Concerns(audit[i], o, u)}
          latest == CHOOSE i \in about : \A j \in about : j <= i
      IN  /\ RoleOf(o, u) = IF about = {} THEN origin[o][u].role
                                          ELSE GivenRole(audit[latest], u)
          /\ \A i \in DOMAIN audit : ~Departure(audit[i], o, members[o][u].id)

\* Ownership has a chain of custody in the log: whoever transferred it had
\* been OWNER at the start, had created the organization or had been handed
\* it by an earlier transfer.  No sequence of role changes, removals and
\* overlapping requests lets an ADMIN hand out OWNER.
ChainOfCustody ==
  \A i \in DOMAIN audit :
    LET rec == audit[i] IN
    rec.action = "OWNERSHIP_TRANSFERRED" /\ rec.org # NoOrg =>
      \/ origin[rec.org][rec.actor].role = "OWNER"
      \/ \E j \in 1..(i - 1) :
           /\ audit[j].org = rec.org
           /\ \/ /\ audit[j].action = "ORGANIZATION_CREATED"
                 /\ audit[j].actor = rec.actor
              \/ /\ audit[j].action = "OWNERSHIP_TRANSFERRED"
                 /\ audit[j].meta[2] = rec.actor

\* Two removals of one organization that both passed their guards leave one
\* record of the removal, and a removal is never unrecorded.
DeletionRecordedOnce ==
  \A o \in Org :
    Cardinality({i \in DOMAIN audit : /\ audit[i].action = "ORGANIZATION_DELETED"
                                      /\ audit[i].entity = o})
      = IF orgState[o] = "deleted" THEN 1 ELSE 0

\* docs/business-rules.md:94.  Audit records are never lost or rewritten;
\* only the link to an organization that is deleted is cleared.
AuditSurvives ==
  [][/\ Len(audit') >= Len(audit)
     /\ \A i \in DOMAIN audit :
          \/ audit'[i] = audit[i]
          \/ /\ orgState'[audit[i].org] = "deleted"
             /\ audit'[i] = [audit[i] EXCEPT !.org = NoOrg]]_vars

\* A row the request decided on is no longer what it was.
Stale(r) ==
  \/ membership[r] # CallerRow(args[r])
  \/ args[r].op \in TargetedOps /\ seen[r] # TargetRow(args[r])

Commits(r) == pc[r] = "commit" /\ pc'[r] = "done"

\* A live organization loses its one OWNER, or gains a second, only by a
\* request that commits on a row another request has changed since it was
\* read.  Everything the endpoints decide on fresh rows keeps the rule.
OwnershipDriftIsStale ==
  [][\A o \in Org :
       /\ orgState[o] = "live" /\ OneOwner(o)
       /\ orgState'[o] = "live" /\ ~OneOwner(o)'
       => \E r \in Request : Commits(r) /\ Stale(r)]_vars

\* docs/business-rules.md:15.  An organization has at least one OWNER.
AtLeastOneOwner ==
  \A o \in Org : orgState[o] = "live" => \E u \in User : Owns(o, u)

\* docs/business-rules.md:15-17.  An organization has exactly one OWNER, through every transfer, departure and role change.
ExactlyOneOwner ==
  \A o \in Org : orgState[o] = "live" => OneOwner(o)

\* The log accounts for every departure: each row that
\* was ever there is there still or is named by a record of its removal.
DeparturesRecorded ==
  \A o \in Org :
    orgState[o] = "live" =>
      \A id \in {origin[o][u].id : u \in User} \cup
                {audit[i].entity : i \in {j \in DOMAIN audit :
                                            /\ audit[j].org = o
                                            /\ audit[j].action = "MEMBER_ADDED"}} :
        \/ id = NoId
        \/ \E u \in User : members[o][u].id = id
        \/ \E i \in DOMAIN audit : Departure(audit[i], o, id)

\* The rows as the table of roles, for requests that may overlap.
Table == INSTANCE Ownership
           WITH state <- orgState,
                role <- [o \in Org |-> [u \in User |-> RoleOf(o, u)]],
                Strict <- FALSE

\* Every step of the endpoints is one change the table allows, or none.
ImplementsTable == Table!ASpec

=============================================================================
