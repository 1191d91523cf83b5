--------------------------- MODULE MembershipProofs ---------------------------
(***************************************************************************)
(* What holds of Membership for any users, organizations and requests.     *)
(*                                                                         *)
(* IInv carries the types and the checks a request has passed.  On top of  *)
(* it, IdsInv keeps the ids of rows apart, RowsTold and CustodyInv relate  *)
(* the rows to the log, DeletionsTold the log to the organizations, and    *)
(* AloneInv says what requests that come one at a time can rely on.        *)
(***************************************************************************)
EXTENDS MembershipAlone, SequenceTheorems, FiniteSetTheorems, TLAPS

\* What is left, at the commit, of the checks a request passed: they hold of
\* the rows it read, not of the rows as they are now.
ChecksPassed(r) ==
  /\ pc[r] \in Running => args[r] \in Args
  /\ pc[r] = "read" => args[r].op \in TargetedOps
  /\ pc[r] \in Running /\ args[r].op # "CreateOrganization" =>
       /\ membership[r] \in Row
       /\ RolesGuard(args[r].op, membership[r].role)
       /\ ~EarlyRefusal(args[r], membership[r])
  /\ pc[r] = "commit" /\ args[r].op \in TargetedOps => Acceptable(args[r], seen[r])

\* The inductive invariant: the types of an audit record rest on the checks
\* that the request which writes it has passed.
IInv ==
  /\ TypeOK
  /\ \A r \in Request : ChecksPassed(r)
  /\ NoOrphanMembership

-----------------------------------------------------------------------------
(* Facts about the constants and about single operators.                   *)

LEMMA NoRowIsNoRow == NoRow \notin Row
BY DEF NoRow, Row, NoRole, Role

\* What a member of Args is made of, endpoint by endpoint.
LEMMA ArgsFields ==
  ASSUME NEW a \in Args
  PROVE  /\ a.op \in Ops /\ a.op \in Endpoint
         /\ a.actor \in Account /\ a.actor \in User /\ a.target \in User
         /\ a.to \in Role \cup {NoRole}
         /\ a.org \in Org \cup {NoOrg}
         /\ a.op # "CreateOrganization" => a.org \in Org
         /\ a.op = "UpdateMemberRole" => a.to \in Role
         /\ a # NoArgs
<1>1. /\ a \in [op : Ops, actor : Account, org : Org \cup {NoOrg},
                target : User, to : Role \cup {NoRole}]
      /\ a.org = NoOrg <=> a.op = "CreateOrganization"
      /\ a.to = NoRole <=> a.op # "UpdateMemberRole"
  BY DEF Args
<1>2. a.op \in Ops /\ a.op \in Endpoint /\ a.actor \in User
  BY <1>1, MembershipAssumption
<1>3. a # NoArgs
  BY <1>2 DEF NoArgs, Endpoint, OwnerEndpoint, AdminEndpoint, OpenEndpoint
<1> QED
  BY <1>1, <1>2, <1>3

\* A request that commits has arguments.
LEMMA CommittingArgs ==
  ASSUME TypeOK, NEW r \in Request, NEW op \in Endpoint, Committing(r, op)
  PROVE  args[r] \in Args
BY DEF TypeOK, Committing, NoArgs, Endpoint, OwnerEndpoint, AdminEndpoint, OpenEndpoint

LEMMA FinishKeepsTypes ==
  ASSUME TypeOK, NEW r \in Request, NEW outcome \in Ended, Finish(r, outcome)
  PROVE  /\ pc' \in [Request -> {"new"} \cup Running \cup Ended]
         /\ args' \in [Request -> Args \cup {NoArgs}]
         /\ membership' \in [Request -> Row \cup {NoRow}]
         /\ seen' \in [Request -> Row \cup {NoRow}]
BY DEF TypeOK, Finish

LEMMA FinishKeepsChecks ==
  ASSUME TypeOK, NEW r \in Request, NEW outcome \in Ended, Finish(r, outcome),
         \A q \in Request : ChecksPassed(q)
  PROVE  \A q \in Request : ChecksPassed(q)'
<1>1. ASSUME NEW q \in Request
      PROVE  ChecksPassed(q)'
  <2>1. CASE q = r
    <3>1. pc'[r] \notin Running
      BY DEF Finish, TypeOK, Running, Ended
    <3> QED
      BY <2>1, <3>1 DEF ChecksPassed, Running
  <2>2. CASE q # r
    <3>1. /\ pc'[q] = pc[q] /\ args'[q] = args[q]
          /\ membership'[q] = membership[q] /\ seen'[q] = seen[q]
      BY <2>2 DEF Finish, TypeOK
    <3> QED
      BY <3>1 DEF ChecksPassed
  <2> QED
    BY <2>1, <2>2
<1> QED
  BY <1>1

LEMMA DetachedType ==
  ASSUME NEW log \in Seq(AuditRecord), NEW o \in Org
  PROVE  /\ Detached(log, o) \in Seq(AuditRecord)
         /\ Len(Detached(log, o)) = Len(log)
<1> DEFINE new == Detached(log, o)
<1>1. DOMAIN log = 1..Len(log) /\ Len(log) \in Nat
  OBVIOUS
<1>2. \A i \in 1..Len(log) :
        (IF log[i].org = o THEN [log[i] EXCEPT !.org = NoOrg] ELSE log[i])
          \in AuditRecord
  <2>1. ASSUME NEW rec \in AuditRecord
        PROVE  [rec EXCEPT !.org = NoOrg] \in AuditRecord
    BY DEF AuditRecord
  <2>2. \A i \in 1..Len(log) : log[i] \in AuditRecord
    BY <1>1
  <2> QED
    BY <2>1, <2>2
<1>3. new \in [1..Len(log) -> AuditRecord]
  BY <1>1, <1>2 DEF Detached
<1>4. new \in Seq(AuditRecord)
  BY <1>1, <1>3, SeqDef
<1>5. Len(new) = Len(log)
  BY <1>1, <1>3, <1>4, LenProperties
<1> QED
  BY <1>4, <1>5

Meta == (Role \X Role) \cup (User \X User) \cup {<<>>}

LEMMA LogType ==
  ASSUME TypeOK, NEW r \in Request, args[r] \in Args, NEW o \in Org,
         NEW action \in OrganizationAction \cup MemberAction,
         NEW entity \in RowId \cup Org, NEW meta \in Meta
  PROVE  /\ Record(r, o, action, entity, meta) \in AuditRecord
         /\ Append(audit, Record(r, o, action, entity, meta)) \in Seq(AuditRecord)
<1>1. args[r].actor \in Account
  BY ArgsFields
<1>2. Record(r, o, action, entity, meta) \in AuditRecord
  BY <1>1 DEF Record, AuditRecord, Meta
<1>3. audit \in Seq(AuditRecord)
  BY DEF TypeOK
<1> QED
  BY <1>2, <1>3

\* Writing one row.
LEMMA SetRowType ==
  ASSUME TypeOK, NEW o \in Org, NEW u \in User, NEW row \in Row \cup {NoRow},
         SetRow(o, u, row)
  PROVE  /\ members' \in [Org -> [User -> Row \cup {NoRow}]]
         /\ \A p \in Org, v \in User :
              members'[p][v] = IF p = o /\ v = u THEN row ELSE members[p][v]
BY DEF TypeOK, SetRow

LEMMA SetRoleType ==
  ASSUME TypeOK, NEW o \in Org, NEW u \in User, NEW role \in Role, Present(o, u)
  PROVE  /\ SetRole(o, u, role) \in Row
         /\ SetRole(o, u, role).role = role
<1>1. members[o][u] \in Row
  BY DEF TypeOK, Present
<1> QED
  BY <1>1 DEF SetRole, Row

\* The rows a commit relies on.
LEMMA CommitRows ==
  ASSUME IInv, NEW r \in Request, NEW op \in Endpoint, Committing(r, op)
  PROVE  /\ args[r] \in Args
         /\ op # "CreateOrganization" =>
              /\ args[r].org \in Org
              /\ membership[r] \in Row
              /\ RolesGuard(op, membership[r].role)
              /\ ~EarlyRefusal(args[r], membership[r])
         /\ op \in TargetedOps => Acceptable(args[r], seen[r])
         /\ op \in TargetedOps \ {"CreateMember"} => seen[r] \in Row
<1>1. args[r] \in Args /\ args[r].op = op /\ pc[r] = "commit"
  BY CommittingArgs DEF IInv, Committing
<1>2. ChecksPassed(r) /\ seen[r] \in Row \cup {NoRow}
  BY DEF IInv, TypeOK
<1>3. op \in TargetedOps \ {"CreateMember"} => seen[r] \in Row
  BY <1>1, <1>2 DEF ChecksPassed, Acceptable, TargetedOps
<1> QED
  BY <1>1, <1>2, <1>3, ArgsFields DEF ChecksPassed, Running

-----------------------------------------------------------------------------
(* IInv is inductive.                                                      *)

LEMMA InitIInv == Init => IInv
<1> SUFFICES ASSUME Init PROVE IInv
  OBVIOUS
<1>1. PICK role \in [Org -> [User -> Role \cup {NoRole}]] :
        /\ \A o \in Org, u \in User :
             role[o][u] # NoRole => orgState[o] = "live" /\ u \in Account
        /\ members = [o \in Org |-> [u \in User |->
                       IF role[o][u] = NoRole THEN NoRow
                       ELSE [id |-> u, role |-> role[o][u]]]]
  BY DEF Init
<1>2. \A o \in Org, u \in User :
        role[o][u] # NoRole => [id |-> u, role |-> role[o][u]] \in Row
  BY DEF Row, RowId
<1>3. members \in [Org -> [User -> Row \cup {NoRow}]]
  BY <1>1, <1>2
<1>4. NoOrphanMembership
  BY <1>1 DEF NoOrphanMembership
<1>5. TypeOK
  BY <1>3 DEF TypeOK, Init
<1>6. \A r \in Request : ChecksPassed(r)
  BY DEF Init, ChecksPassed, Running
<1> QED
  BY <1>4, <1>5, <1>6 DEF IInv

\* A commit ends its request and leaves the rest of the invariant to its
\* changes of the tables.
LEMMA CommitKeeps ==
  ASSUME IInv, NEW r \in Request, Finish(r, "done"), UNCHANGED origin,
         orgState' \in [Org -> {"unborn", "live", "deleted"}],
         members' \in [Org -> [User -> Row \cup {NoRow}]],
         audit' \in Seq(AuditRecord),
         NoOrphanMembership'
  PROVE  IInv'
<1>1. TypeOK'
  BY FinishKeepsTypes DEF IInv, TypeOK, Ended
<1>2. \A q \in Request : ChecksPassed(q)'
  BY FinishKeepsChecks DEF IInv, Ended
<1> QED
  BY <1>1, <1>2 DEF IInv

LEMMA RejectKeeps ==
  ASSUME IInv, NEW r \in Request, Reject(r)
  PROVE  IInv'
<1>1. TypeOK'
  BY FinishKeepsTypes DEF IInv, TypeOK, Reject, db, Ended
<1>2. \A q \in Request : ChecksPassed(q)'
  BY FinishKeepsChecks DEF IInv, Reject, Ended
<1>3. NoOrphanMembership'
  BY DEF IInv, NoOrphanMembership, Reject, db
<1> QED
  BY <1>1, <1>2, <1>3 DEF IInv

LEMMA BeginKeeps ==
  ASSUME IInv, NEW r \in Request, Begin(r)
  PROVE  IInv'
<1>1. PICK a \in Args : /\ a.op = "CreateOrganization"
                        /\ args' = [args EXCEPT ![r] = a]
  BY DEF Begin
<1>2. TypeOK'
  BY <1>1 DEF IInv, TypeOK, Begin, db, Running
<1>3. ASSUME NEW q \in Request
      PROVE  ChecksPassed(q)'
  <2>1. CASE q = r
    BY <1>1, <2>1 DEF ChecksPassed, Begin, IInv, TypeOK, TargetedOps
  <2>2. CASE q # r
    <3>1. /\ pc'[q] = pc[q] /\ args'[q] = args[q]
          /\ membership'[q] = membership[q] /\ seen'[q] = seen[q]
      BY <1>1, <2>2 DEF Begin, IInv, TypeOK
    <3> QED
      BY <3>1 DEF ChecksPassed, IInv
  <2> QED
    BY <2>1, <2>2
<1>4. NoOrphanMembership'
  BY DEF IInv, NoOrphanMembership, Begin, db
<1> QED
  BY <1>2, <1>3, <1>4 DEF IInv

LEMMA GuardKeeps ==
  ASSUME IInv, NEW r \in Request, Guard(r)
  PROVE  IInv'
<1>1. PICK a \in Args :
        /\ a.op # "CreateOrganization"
        /\ Admitted(a)
        /\ args' = [args EXCEPT ![r] = a]
        /\ membership' = [membership EXCEPT ![r] = CallerRow(a)]
        /\ pc' = [pc EXCEPT ![r] =
                    IF a.op \in TargetedOps THEN "read" ELSE "commit"]
  BY DEF Guard
<1>2. CallerRow(a) \in Row
  BY <1>1, ArgsFields DEF CallerRow, Admitted, IInv, TypeOK
<1>3. TypeOK'
  BY <1>1, <1>2 DEF IInv, TypeOK, Guard, db, Running
<1>4. ASSUME NEW q \in Request
      PROVE  ChecksPassed(q)'
  <2>1. CASE q = r
    BY <1>1, <1>2, <2>1 DEF ChecksPassed, Admitted, IInv, TypeOK
  <2>2. CASE q # r
    <3>1. /\ pc'[q] = pc[q] /\ args'[q] = args[q]
          /\ membership'[q] = membership[q] /\ seen'[q] = seen[q]
      BY <1>1, <2>2 DEF Guard, IInv, TypeOK
    <3> QED
      BY <3>1 DEF ChecksPassed, IInv
  <2> QED
    BY <2>1, <2>2
<1>5. NoOrphanMembership'
  BY DEF IInv, NoOrphanMembership, Guard, db
<1> QED
  BY <1>3, <1>4, <1>5 DEF IInv

LEMMA CheckKeeps ==
  ASSUME IInv, NEW r \in Request, Check(r)
  PROVE  IInv'
<1>1. args[r] \in Args /\ args[r].op \in TargetedOps
  BY DEF IInv, ChecksPassed, Check, Running
<1>2. TargetRow(args[r]) \in Row \cup {NoRow}
  BY <1>1, ArgsFields DEF TargetRow, IInv, TypeOK, TargetedOps
<1>3. TypeOK'
  BY <1>2 DEF IInv, TypeOK, Check, db, Running
<1>4. ASSUME NEW q \in Request
      PROVE  ChecksPassed(q)'
  <2>1. CASE q = r
    BY <1>1, <2>1 DEF ChecksPassed, Check, IInv, TypeOK, Running
  <2>2. CASE q # r
    <3>1. /\ pc'[q] = pc[q] /\ args'[q] = args[q]
          /\ membership'[q] = membership[q] /\ seen'[q] = seen[q]
      BY <2>2 DEF Check, IInv, TypeOK
    <3> QED
      BY <3>1 DEF ChecksPassed, IInv
  <2> QED
    BY <2>1, <2>2
<1>5. NoOrphanMembership'
  BY DEF IInv, NoOrphanMembership, Check, db
<1> QED
  BY <1>3, <1>4, <1>5 DEF IInv

\* The eight transactions.
LEMMA CreateOrganizationKeeps ==
  ASSUME IInv, NEW r \in Request, CreateOrganization(r)
  PROVE  IInv'
<1>1. args[r] \in Args /\ args[r].actor \in Account /\ args[r].actor \in User
  BY CommitRows, ArgsFields
     DEF CreateOrganization, Endpoint, OpenEndpoint
<1>2. PICK o \in Org :
        /\ orgState[o] = "unborn"
        /\ orgState' = [orgState EXCEPT ![o] = "live"]
        /\ SetRow(o, args[r].actor, [id |-> r, role |-> "OWNER"])
        /\ Log(r, o, "ORGANIZATION_CREATED", o, <<>>)
  BY DEF CreateOrganization
<1>3. [id |-> r, role |-> "OWNER"] \in Row
  BY DEF Row, RowId, Role
<1>4. orgState' \in [Org -> {"unborn", "live", "deleted"}]
  BY <1>2 DEF IInv, TypeOK
<1>5. members' \in [Org -> [User -> Row \cup {NoRow}]]
  BY <1>1, <1>2, <1>3, SetRowType DEF IInv
<1>6. audit' \in Seq(AuditRecord)
  BY <1>1, <1>2, LogType DEF IInv, Log, OrganizationAction, Meta
<1>7. NoOrphanMembership'
  BY <1>1, <1>2, <1>3, SetRowType DEF IInv, NoOrphanMembership, TypeOK
<1> QED
  BY <1>4, <1>5, <1>6, <1>7, CommitKeeps DEF CreateOrganization

LEMMA UpdateOrganizationKeeps ==
  ASSUME IInv, NEW r \in Request, UpdateOrganization(r)
  PROVE  IInv'
<1>1. args[r] \in Args /\ args[r].org \in Org
  BY CommitRows DEF UpdateOrganization, Endpoint, AdminEndpoint
<1>2. audit' \in Seq(AuditRecord)
  BY <1>1, LogType DEF UpdateOrganization, IInv, Log, OrganizationAction, Meta
<1>3. NoOrphanMembership'
  BY DEF UpdateOrganization, IInv, NoOrphanMembership
<1> QED
  BY <1>2, <1>3, CommitKeeps DEF UpdateOrganization, IInv, TypeOK

LEMMA RemoveOrganizationKeeps ==
  ASSUME IInv, NEW r \in Request, RemoveOrganization(r)
  PROVE  IInv'
<1> DEFINE o == args[r].org
           rec == Record(r, o, "ORGANIZATION_DELETED", o, <<>>)
<1>1. args[r] \in Args /\ o \in Org
  BY CommitRows DEF RemoveOrganization, Endpoint, OwnerEndpoint
<1>2. Append(audit, rec) \in Seq(AuditRecord)
  BY <1>1, LogType DEF IInv, OrganizationAction, Meta
<1>3. audit' \in Seq(AuditRecord)
  BY <1>1, <1>2, DetachedType DEF RemoveOrganization
<1>4. orgState' \in [Org -> {"unborn", "live", "deleted"}]
  BY <1>1 DEF RemoveOrganization, IInv, TypeOK
<1>5. members' \in [Org -> [User -> Row \cup {NoRow}]]
  BY <1>1 DEF RemoveOrganization, IInv, TypeOK
<1>6. NoOrphanMembership'
  BY <1>1 DEF RemoveOrganization, IInv, NoOrphanMembership, TypeOK
<1> QED
  BY <1>3, <1>4, <1>5, <1>6, CommitKeeps DEF RemoveOrganization

\* The transactions that write one membership row and one record about it.
LEMMA RowChangeKeeps ==
  ASSUME IInv, NEW r \in Request, Finish(r, "done"), UNCHANGED <<orgState, origin>>,
         args[r] \in Args, NEW o \in Org, NEW u \in User,
         NEW row \in Row \cup {NoRow}, SetRow(o, u, row),
         row # NoRow => orgState[o] = "live" /\ u \in Account,
         NEW action \in MemberAction, NEW entity \in RowId, NEW meta \in Meta,
         Log(r, o, action, entity, meta)
  PROVE  IInv'
<1>1. members' \in [Org -> [User -> Row \cup {NoRow}]]
  BY SetRowType DEF IInv
<1>2. audit' \in Seq(AuditRecord)
  BY LogType DEF IInv, Log
<1>3. NoOrphanMembership'
  BY SetRowType DEF IInv, NoOrphanMembership
<1> QED
  BY <1>1, <1>2, <1>3, CommitKeeps DEF IInv, TypeOK

LEMMA CreateMemberKeeps ==
  ASSUME IInv, NEW r \in Request, CreateMember(r)
  PROVE  IInv'
<1> DEFINE o == args[r].org
           u == args[r].target
<1>1. Committing(r, "CreateMember") /\ "CreateMember" \in Endpoint
  BY DEF CreateMember, Endpoint, AdminEndpoint
<1>2. args[r] \in Args /\ o \in Org /\ Acceptable(args[r], seen[r])
  BY <1>1, CommitRows DEF TargetedOps
<1>3. u \in User /\ u \in Account
  BY <1>1, <1>2, ArgsFields DEF Acceptable, Committing
<1>4. [id |-> r, role |-> "VIEWER"] \in Row /\ r \in RowId
  BY DEF Row, RowId, Role
<1> QED
  BY <1>2, <1>3, <1>4, RowChangeKeeps
     DEF CreateMember, Live, MemberAction, Meta

LEMMA UpdateMemberRoleKeeps ==
  ASSUME IInv, NEW r \in Request, UpdateMemberRole(r)
  PROVE  IInv'
<1> DEFINE o == args[r].org
           u == args[r].target
<1>1. Committing(r, "UpdateMemberRole") /\ "UpdateMemberRole" \in Endpoint
  BY DEF UpdateMemberRole, Endpoint, AdminEndpoint
<1>2. args[r] \in Args /\ o \in Org /\ seen[r] \in Row
  BY <1>1, CommitRows DEF TargetedOps
<1>3. u \in User /\ args[r].to \in Role
  BY <1>1, <1>2, ArgsFields DEF Committing
<1>4. SetRole(o, u, args[r].to) \in Row
  BY <1>2, <1>3, SetRoleType DEF UpdateMemberRole, IInv
<1>5. members[o][u] \in Row
  BY <1>2, <1>3 DEF UpdateMemberRole, Present, IInv, TypeOK
<1>6. members[o][u].id \in RowId /\ seen[r].role \in Role
  BY <1>2, <1>5 DEF Row
<1>7. orgState[o] = "live" /\ u \in Account
  BY <1>2, <1>3 DEF UpdateMemberRole, Present, IInv, NoOrphanMembership
<1> QED
  BY <1>2, <1>3, <1>4, <1>6, <1>7, RowChangeKeeps
     DEF UpdateMemberRole, MemberAction, Meta

LEMMA RemoveMemberKeeps ==
  ASSUME IInv, NEW r \in Request, RemoveMember(r)
  PROVE  IInv'
<1>1. Committing(r, "RemoveMember") /\ "RemoveMember" \in Endpoint
  BY DEF RemoveMember, Endpoint, AdminEndpoint
<1>2. args[r] \in Args /\ args[r].org \in Org /\ seen[r] \in Row
  BY <1>1, CommitRows DEF TargetedOps
<1>3. args[r].target \in User /\ seen[r].id \in RowId
  BY <1>2, ArgsFields DEF Row
<1> QED
  BY <1>2, <1>3, RowChangeKeeps DEF RemoveMember, MemberAction, Meta

LEMMA LeaveOrganizationKeeps ==
  ASSUME IInv, NEW r \in Request, LeaveOrganization(r)
  PROVE  IInv'
<1>1. Committing(r, "LeaveOrganization") /\ "LeaveOrganization" \in Endpoint
  BY DEF LeaveOrganization, Endpoint, OpenEndpoint
<1>2. args[r] \in Args /\ args[r].org \in Org /\ membership[r] \in Row
  BY <1>1, CommitRows
<1>3. args[r].actor \in User /\ membership[r].id \in RowId
  BY <1>2, ArgsFields DEF Row
<1> QED
  BY <1>2, <1>3, RowChangeKeeps DEF LeaveOrganization, MemberAction, Meta

\* Both rows a transfer writes.
LEMMA TransferRows ==
  ASSUME IInv, NEW r \in Request, TransferOwnership(r)
  PROVE  LET o == args[r].org from == args[r].actor to == args[r].target IN
         /\ args[r] \in Args /\ o \in Org /\ from \in User /\ to \in User
         /\ from # to
         /\ membership[r].role = "OWNER"
         /\ seen[r] \in Row
         /\ SetRole(o, from, "ADMIN") \in Row
         /\ SetRole(o, from, "ADMIN").role = "ADMIN"
         /\ SetRole(o, to, "OWNER") \in Row
         /\ SetRole(o, to, "OWNER").role = "OWNER"
         /\ members' \in [Org -> [User -> Row \cup {NoRow}]]
         /\ \A p \in Org, v \in User :
              members'[p][v] = IF p = o /\ v = to THEN SetRole(o, to, "OWNER")
                               ELSE IF p = o /\ v = from
                                 THEN SetRole(o, from, "ADMIN")
                                 ELSE members[p][v]
<1> DEFINE o == args[r].org
           from == args[r].actor
           to == args[r].target
<1>1. Committing(r, "TransferOwnership") /\ "TransferOwnership" \in Endpoint
  BY DEF TransferOwnership, Endpoint, OwnerEndpoint
<1>2. /\ args[r] \in Args /\ o \in Org /\ seen[r] \in Row
      /\ RolesGuard("TransferOwnership", membership[r].role)
      /\ ~EarlyRefusal(args[r], membership[r])
  BY <1>1, CommitRows DEF TargetedOps
<1>3. from \in User /\ to \in User
  BY <1>2, ArgsFields
<1>4. from # to
  BY <1>1, <1>2 DEF EarlyRefusal, Committing
<1>5. membership[r].role = "OWNER"
  BY <1>2 DEF RolesGuard, RequiredRoles, OwnerEndpoint, AdminEndpoint
<1>6. /\ SetRole(o, from, "ADMIN") \in Row
      /\ SetRole(o, from, "ADMIN").role = "ADMIN"
      /\ SetRole(o, to, "OWNER") \in Row
      /\ SetRole(o, to, "OWNER").role = "OWNER"
  BY <1>2, <1>3, SetRoleType DEF TransferOwnership, IInv, Role
<1> HIDE DEF o, from, to
<1>7. members' = [members EXCEPT ![o][from] = SetRole(o, from, "ADMIN"),
                                 ![o][to] = SetRole(o, to, "OWNER")]
  BY DEF TransferOwnership, o, from, to
<1>8. members \in [Org -> [User -> Row \cup {NoRow}]]
  BY DEF IInv, TypeOK
<1>9. /\ members' \in [Org -> [User -> Row \cup {NoRow}]]
      /\ \A p \in Org, v \in User :
           members'[p][v] = IF p = o /\ v = to THEN SetRole(o, to, "OWNER")
                            ELSE IF p = o /\ v = from
                              THEN SetRole(o, from, "ADMIN")
                              ELSE members[p][v]
  BY <1>2, <1>3, <1>6, <1>7, <1>8
<1> QED
  BY <1>2, <1>3, <1>4, <1>5, <1>6, <1>9 DEF o, from, to

LEMMA TransferOwnershipKeeps ==
  ASSUME IInv, NEW r \in Request, TransferOwnership(r)
  PROVE  IInv'
<1> DEFINE o == args[r].org
           from == args[r].actor
           to == args[r].target
<1>1. /\ args[r] \in Args /\ o \in Org /\ from \in User /\ to \in User
      /\ seen[r] \in Row
      /\ members' \in [Org -> [User -> Row \cup {NoRow}]]
  BY TransferRows
<1>2. seen[r].id \in RowId
  BY <1>1 DEF Row
<1>3. audit' \in Seq(AuditRecord)
  BY <1>1, <1>2, LogType DEF TransferOwnership, IInv, Log, MemberAction, Meta
<1>4. \A p \in Org, v \in User :
        members'[p][v] # NoRow => members[p][v] # NoRow
  BY TransferRows, <1>1 DEF TransferOwnership, Present
<1>5. NoOrphanMembership'
  BY <1>4 DEF IInv, NoOrphanMembership, TransferOwnership
<1> QED
  BY <1>1, <1>3, <1>5, CommitKeeps DEF TransferOwnership, IInv, TypeOK

LEMMA NextIInv == IInv /\ [Next]_vars => IInv'
<1> SUFFICES ASSUME IInv, [Next]_vars PROVE IInv'
  OBVIOUS
<1>1. CASE UNCHANGED vars
  BY <1>1 DEF IInv, TypeOK, ChecksPassed, NoOrphanMembership, vars
<1>2. ASSUME NEW r \in Request, Step(r)
      PROVE  IInv'
  <2>1. CASE Begin(r)
    BY <2>1, BeginKeeps
  <2>2. CASE Guard(r)
    BY <2>2, GuardKeeps
  <2>3. CASE GuardRefuses(r) \/ CheckRefuses(r) \/ Fail(r)
    BY <2>3, RejectKeeps DEF GuardRefuses, CheckRefuses, Fail
  <2>4. CASE Check(r)
    BY <2>4, CheckKeeps
  <2>5. CASE Commit(r)
    BY <2>5, CreateOrganizationKeeps, UpdateOrganizationKeeps,
       RemoveOrganizationKeeps, CreateMemberKeeps, UpdateMemberRoleKeeps,
       TransferOwnershipKeeps, RemoveMemberKeeps, LeaveOrganizationKeeps
       DEF Commit
  <2> QED
    BY <1>2, <2>1, <2>2, <2>3, <2>4, <2>5 DEF Step
<1> QED
  BY <1>1, <1>2 DEF Next

\* Every reachable state satisfies the inductive invariant.
THEOREM Invariance == Spec => []IInv
<1> QED
  BY InitIInv, NextIInv, PTL DEF Spec

\* Every variable keeps its type; in particular each audit record that is
\* written names a row and roles that were really read.
THEOREM TypeCorrect == Spec => []TypeOK
<1>1. IInv => TypeOK
  BY DEF IInv
<1> QED
  BY <1>1, Invariance, PTL

\* No removal leaves a membership row behind in an organization that is gone,
\* and no enrolment adds one to it, however requests overlap.
THEOREM NoOrphans == Spec => []NoOrphanMembership
<1>1. IInv => NoOrphanMembership
  BY DEF IInv
<1> QED
  BY <1>1, Invariance, PTL

-----------------------------------------------------------------------------
(* Ownership drifts only by a commit on rows that are out of date.         *)

\* The rows the request decided on, where it read any, are as they were.
UpToDate(r) == args[r].op # "CreateOrganization" => ~Stale(r)

\* Writing a row that was not, and does not become, an OWNER's.
LEMMA OtherRowChange ==
  ASSUME IInv, NEW o \in Org, NEW u \in User, NEW row \in Row \cup {NoRow},
         SetRow(o, u, row), row.role # "OWNER", ~Owns(o, u),
         NEW p \in Org, OneOwner(p)
  PROVE  OneOwner(p)'
<1>1. \A v \in User :
        members'[p][v] = IF p = o /\ v = u THEN row ELSE members[p][v]
  BY SetRowType DEF IInv
<1>2. \A v \in User : Owns(p, v)' <=> Owns(p, v)
  BY <1>1 DEF Owns, RoleOf
<1> QED
  BY <1>2 DEF OneOwner

\* The target of a role change or removal, when the row is as it was read.
LEMMA FreshTarget ==
  ASSUME IInv, NEW r \in Request,
         Committing(r, "UpdateMemberRole") \/ Committing(r, "RemoveMember"),
         UpToDate(r)
  PROVE  /\ args[r].org \in Org /\ args[r].target \in User
         /\ args[r] \in Args
         /\ ~Owns(args[r].org, args[r].target)
<1>1. PICK op \in {"UpdateMemberRole", "RemoveMember"} : Committing(r, op)
  OBVIOUS
<1>2. op \in Endpoint /\ op \in TargetedOps
  BY DEF Endpoint, AdminEndpoint, TargetedOps
<1>3. args[r] \in Args /\ args[r].org \in Org /\ Acceptable(args[r], seen[r])
  BY <1>1, <1>2, CommitRows
<1>4. args[r].target \in User
  BY <1>3, ArgsFields
<1>5. seen[r] = members[args[r].org][args[r].target]
  BY <1>1, <1>2 DEF UpToDate, Stale, TargetRow, Committing
<1>6. seen[r].role # "OWNER"
  BY <1>1, <1>3 DEF Acceptable, Committing
<1> QED
  BY <1>3, <1>4, <1>5, <1>6 DEF Owns, RoleOf

\* The caller of a transfer or departure, when the row is as it was read.
LEMMA FreshCaller ==
  ASSUME IInv, NEW r \in Request,
         Committing(r, "TransferOwnership") \/ Committing(r, "LeaveOrganization"),
         UpToDate(r)
  PROVE  /\ args[r].org \in Org /\ args[r].actor \in User
         /\ Owns(args[r].org, args[r].actor) <=> args[r].op = "TransferOwnership"
<1>1. PICK op \in {"TransferOwnership", "LeaveOrganization"} : Committing(r, op)
  OBVIOUS
<1>2. op \in Endpoint
  BY DEF Endpoint, OwnerEndpoint, OpenEndpoint
<1>3. /\ args[r] \in Args /\ args[r].org \in Org
      /\ RolesGuard(op, membership[r].role) /\ ~EarlyRefusal(args[r], membership[r])
  BY <1>1, <1>2, CommitRows
<1>4. args[r].actor \in User
  BY <1>3, ArgsFields
<1>5. membership[r].role = "OWNER" <=> args[r].op = "TransferOwnership"
  <2>1. RequiredRoles("TransferOwnership") = {"OWNER"}
    BY DEF RequiredRoles, OwnerEndpoint, AdminEndpoint
  <2>2. CASE op = "TransferOwnership"
    BY <1>1, <1>3, <2>1, <2>2 DEF Committing, RolesGuard
  <2>3. CASE op = "LeaveOrganization"
    BY <1>1, <1>3, <2>3 DEF Committing, EarlyRefusal
  <2> QED
    BY <2>2, <2>3
<1>6. membership[r] = members[args[r].org][args[r].actor]
  BY <1>1 DEF UpToDate, Stale, CallerRow, Committing
<1> QED
  BY <1>3, <1>4, <1>5, <1>6 DEF Owns, RoleOf

LEMMA FreshTransfer ==
  ASSUME IInv, NEW r \in Request, TransferOwnership(r), UpToDate(r),
         NEW p \in Org, OneOwner(p)
  PROVE  OneOwner(p)'
<1> DEFINE o == args[r].org
           from == args[r].actor
           to == args[r].target
<1>1. /\ o \in Org /\ from \in User /\ to \in User /\ from # to
      /\ membership[r].role = "OWNER"
      /\ SetRole(o, from, "ADMIN").role = "ADMIN"
      /\ SetRole(o, to, "OWNER").role = "OWNER"
      /\ \A v \in User :
           members'[p][v] = IF p = o /\ v = to THEN SetRole(o, to, "OWNER")
                            ELSE IF p = o /\ v = from
                              THEN SetRole(o, from, "ADMIN")
                              ELSE members[p][v]
  BY TransferRows
<1>2. Owns(o, from)
  BY FreshCaller DEF TransferOwnership, Committing
<1> HIDE DEF o, from, to
<1>3. CASE p # o
  BY <1>1, <1>3 DEF OneOwner, Owns, RoleOf
<1>4. CASE p = o
  <2>1. \A v \in User : Owns(o, v) <=> v = from
    BY <1>1, <1>2, <1>4 DEF OneOwner
  <2>2. \A v \in User : Owns(p, v)' <=> v = to
    BY <1>1, <1>4, <2>1 DEF Owns, RoleOf
  <2> QED
    BY <1>1, <1>4, <2>2 DEF OneOwner
<1> QED
  BY <1>3, <1>4

LEMMA FreshCommit ==
  ASSUME IInv, NEW r \in Request, Commit(r), UpToDate(r),
         NEW p \in Org, orgState[p] = "live", orgState'[p] = "live", OneOwner(p)
  PROVE  OneOwner(p)'
<1> DEFINE o == args[r].org
           u == args[r].target
<1>1. CASE CreateOrganization(r)
  <2>1. PICK q \in Org :
          /\ orgState[q] = "unborn"
          /\ SetRow(q, args[r].actor, [id |-> r, role |-> "OWNER"])
    BY <1>1 DEF CreateOrganization
  <2>2. \A v \in User : members'[p][v] = members[p][v]
    BY <2>1 DEF SetRow, IInv, TypeOK
  <2> QED
    BY <2>2 DEF OneOwner, Owns, RoleOf
<1>2. CASE UpdateOrganization(r)
  BY <1>2 DEF UpdateOrganization, OneOwner, Owns, RoleOf
<1>3. CASE RemoveOrganization(r)
  <2>1. o \in Org
    BY <1>3, CommitRows DEF RemoveOrganization, Endpoint, OwnerEndpoint
  <2> HIDE DEF o
  <2>2. p # o
    BY <1>3, <2>1 DEF RemoveOrganization, IInv, TypeOK, o
  <2>3. \A v \in User : members'[p][v] = members[p][v]
    BY <1>3, <2>1, <2>2 DEF RemoveOrganization, IInv, TypeOK, o
  <2> QED
    BY <2>3 DEF OneOwner, Owns, RoleOf
<1>4. CASE CreateMember(r)
  <2>1. Committing(r, "CreateMember") /\ "CreateMember" \in Endpoint
    BY <1>4 DEF CreateMember, Endpoint, AdminEndpoint
  <2>2. o \in Org /\ u \in User
    BY <2>1, CommitRows, ArgsFields
  <2>3. ~Owns(o, u)
    BY <1>4 DEF CreateMember, Owns, RoleOf, NoRow, NoRole
  <2>4. [id |-> r, role |-> "VIEWER"] \in Row
    BY DEF Row, RowId, Role
  <2> QED
    BY <1>4, <2>2, <2>3, <2>4, OtherRowChange DEF CreateMember
<1>5. CASE UpdateMemberRole(r)
  <2>1. o \in Org /\ u \in User /\ ~Owns(o, u)
    BY <1>5, FreshTarget DEF UpdateMemberRole
  <2>2. Committing(r, "UpdateMemberRole") /\ "UpdateMemberRole" \in Endpoint
    BY <1>5 DEF UpdateMemberRole, Endpoint, AdminEndpoint
  <2>3. args[r].to \in Role /\ args[r].to # "OWNER"
    BY <2>2, CommitRows, ArgsFields DEF Committing, EarlyRefusal
  <2>4. /\ SetRole(o, u, args[r].to) \in Row
        /\ SetRole(o, u, args[r].to).role = args[r].to
    BY <1>5, <2>1, <2>3, SetRoleType DEF UpdateMemberRole, IInv
  <2> QED
    BY <1>5, <2>1, <2>3, <2>4, OtherRowChange DEF UpdateMemberRole
<1>6. CASE TransferOwnership(r)
  BY <1>6, FreshTransfer
<1>7. CASE RemoveMember(r)
  <2>1. o \in Org /\ u \in User /\ ~Owns(o, u)
    BY <1>7, FreshTarget DEF RemoveMember
  <2> QED
    BY <1>7, <2>1, OtherRowChange DEF RemoveMember, NoRow, NoRole
<1>8. CASE LeaveOrganization(r)
  <2>1. o \in Org /\ args[r].actor \in User /\ ~Owns(o, args[r].actor)
    BY <1>8, FreshCaller DEF LeaveOrganization, Committing
  <2> QED
    BY <1>8, <2>1, OtherRowChange DEF LeaveOrganization, NoRow, NoRole
<1> QED
  BY <1>1, <1>2, <1>3, <1>4, <1>5, <1>6, <1>7, <1>8 DEF Commit

\* The step property of OwnershipDriftIsStale.
OwnershipDrift ==
  \A o \in Org :
    /\ orgState[o] = "live" /\ OneOwner(o)
    /\ orgState'[o] = "live" /\ ~OneOwner(o)'
    => \E r \in Request : Commits(r) /\ Stale(r)

LEMMA DriftStep == IInv /\ [Next]_vars => [OwnershipDrift]_vars
<1> SUFFICES ASSUME IInv, [Next]_vars, NEW o \in Org,
                    orgState[o] = "live", OneOwner(o),
                    orgState'[o] = "live", ~OneOwner(o)'
             PROVE  \E r \in Request : Commits(r) /\ Stale(r)
  BY DEF OwnershipDrift
<1>1. members' # members
  BY DEF OneOwner, Owns, RoleOf
<1>2. PICK r \in Request : Step(r)
  BY <1>1 DEF Next, vars
<1>3. Commit(r)
  BY <1>1, <1>2 DEF Step, Begin, Guard, GuardRefuses, Check, CheckRefuses, Fail,
                    Reject, db
<1>4. Stale(r)
  BY <1>3, FreshCommit DEF UpToDate
<1>5. Finish(r, "done") /\ pc[r] = "commit"
  BY <1>3 DEF Commit, Committing, CreateOrganization, UpdateOrganization,
              RemoveOrganization, CreateMember, UpdateMemberRole,
              TransferOwnership, RemoveMember, LeaveOrganization
<1>6. Commits(r)
  BY <1>5 DEF Commits, Finish, IInv, TypeOK
<1> QED
  BY <1>4, <1>6

\* However many requests overlap, a live organization stops having exactly
\* one OWNER only in a commit that rests on a row read before another commit
\* changed it.
THEOREM DriftIsStale == Spec => OwnershipDriftIsStale
<1>1. IInv /\ [Next]_vars => [OwnershipDrift]_vars
  BY DriftStep
<1> QED
  BY <1>1, Invariance, PTL DEF Spec, OwnershipDriftIsStale, OwnershipDrift

-----------------------------------------------------------------------------
(* The rows, seen as roles, change as the table allows.                    *)

Roles == [o \in Org |-> [u \in User |-> RoleOf(o, u)]]

LEMMA RolesOfRows ==
  ASSUME IInv, NEW o \in Org, NEW u \in User
  PROVE  /\ Roles[o][u] = members[o][u].role
         /\ Roles[o][u] \in Role \cup {NoRole}
         /\ Roles[o][u] = NoRole <=> members[o][u] = NoRow
<1>1. members[o][u] \in Row \cup {NoRow}
  BY DEF IInv, TypeOK
<1> QED
  BY <1>1 DEF Roles, RoleOf, Row, NoRow, Role, NoRole

\* Rows of other users and organizations keep their roles.
LEMMA OneRoleChanges ==
  ASSUME NEW o \in Org, NEW u \in User, NEW x,
         \A p \in Org, v \in User :
           members'[p][v].role = IF p = o /\ v = u THEN x ELSE members[p][v].role
  PROVE  Roles' = [Roles EXCEPT ![o][u] = x]
<1>1. Roles' = [p \in Org |-> [v \in User |-> IF p = o /\ v = u THEN x ELSE Roles[p][v]]]
  BY DEF Roles, RoleOf
<1>2. [Roles EXCEPT ![o][u] = x] =
        [p \in Org |-> [v \in User |-> IF p = o /\ v = u THEN x ELSE Roles[p][v]]]
  BY DEF Roles
<1> QED
  BY <1>1, <1>2

\* Writing one row, as the transactions do it.
LEMMA SetRowRoles ==
  ASSUME IInv, NEW o \in Org, NEW u \in User, NEW row \in Row \cup {NoRow}, SetRow(o, u, row)
  PROVE  Roles' = [Roles EXCEPT ![o][u] = row.role]
<1>1. \A p \in Org, v \in User :
        members'[p][v] = IF p = o /\ v = u THEN row ELSE members[p][v]
  BY SetRowType DEF IInv
<1> QED
  BY <1>1, OneRoleChanges

LEMMA CreateIsFound ==
  ASSUME IInv, NEW r \in Request, CreateOrganization(r)
  PROVE  Table!ANext /\ StrictTable!ANext
<1>1. args[r] \in Args /\ args[r].actor \in User
  BY CommitRows, ArgsFields DEF CreateOrganization, Endpoint, OpenEndpoint
<1>2. PICK o \in Org :
        /\ orgState[o] = "unborn"
        /\ orgState' = [orgState EXCEPT ![o] = "live"]
        /\ SetRow(o, args[r].actor, [id |-> r, role |-> "OWNER"])
  BY DEF CreateOrganization
<1>3. [id |-> r, role |-> "OWNER"] \in Row
  BY DEF Row, RowId, Role
<1>4. Roles' = [Roles EXCEPT ![o][args[r].actor] = "OWNER"]
  BY <1>1, <1>2, <1>3, SetRowRoles
<1>5. Table!Found(o, args[r].actor) /\ StrictTable!Found(o, args[r].actor)
  BY <1>2, <1>4 DEF Table!Found, StrictTable!Found, Roles
<1> QED
  BY <1>1, <1>5 DEF Table!ANext, StrictTable!ANext

LEMMA RemoveIsDissolve ==
  ASSUME IInv, NEW r \in Request, RemoveOrganization(r)
  PROVE  Table!ANext /\ StrictTable!ANext
<1> DEFINE o == args[r].org
<1>1. o \in Org
  BY CommitRows DEF RemoveOrganization, Endpoint, OwnerEndpoint
<1>2. \A p \in Org, v \in User :
        members'[p][v] = IF p = o THEN NoRow ELSE members[p][v]
  BY <1>1 DEF RemoveOrganization, IInv, TypeOK
<1>3. Roles' = [Roles EXCEPT ![o] = [v \in User |-> NoRole]]
  <2>1. Roles' = [p \in Org |-> [v \in User |-> IF p = o THEN NoRole ELSE Roles[p][v]]]
    BY <1>2 DEF Roles, RoleOf, NoRow
  <2>2. [Roles EXCEPT ![o] = [v \in User |-> NoRole]] =
          [p \in Org |-> [v \in User |-> IF p = o THEN NoRole ELSE Roles[p][v]]]
    BY DEF Roles
  <2> QED
    BY <2>1, <2>2
<1>4. Table!Dissolve(o) /\ StrictTable!Dissolve(o)
  BY <1>3 DEF RemoveOrganization, Live, Table!Dissolve, StrictTable!Dissolve, Roles,
              Table!NoRole, StrictTable!NoRole, NoRole
<1> QED
  BY <1>1, <1>4 DEF Table!ANext, StrictTable!ANext

LEMMA CreateMemberIsEnroll ==
  ASSUME IInv, NEW r \in Request, CreateMember(r)
  PROVE  Table!ANext /\ StrictTable!ANext
<1> DEFINE o == args[r].org
           u == args[r].target
<1>1. o \in Org /\ u \in User
  BY CommitRows, ArgsFields DEF CreateMember, Endpoint, AdminEndpoint
<1>2. [id |-> r, role |-> "VIEWER"] \in Row
  BY DEF Row, RowId, Role
<1>3. Roles' = [Roles EXCEPT ![o][u] = "VIEWER"]
  BY <1>1, <1>2, SetRowRoles DEF CreateMember
<1>4. Roles[o][u] = NoRole
  BY <1>1, RolesOfRows DEF CreateMember
<1>5. Table!Enroll(o, u) /\ StrictTable!Enroll(o, u)
  BY <1>3, <1>4 DEF CreateMember, Live, Table!Enroll, StrictTable!Enroll, Roles,
                    Table!NoRole, StrictTable!NoRole, NoRole
<1> QED
  BY <1>1, <1>5 DEF Table!ANext, StrictTable!ANext

LEMMA UpdateMemberRoleIsRegrade ==
  ASSUME IInv, NEW r \in Request, UpdateMemberRole(r)
  PROVE  Table!ANext /\ (UpToDate(r) => StrictTable!ANext)
<1> DEFINE o == args[r].org
           u == args[r].target
           to == args[r].to
<1>1. Committing(r, "UpdateMemberRole") /\ "UpdateMemberRole" \in Endpoint
  BY DEF UpdateMemberRole, Endpoint, AdminEndpoint
<1>2. o \in Org /\ u \in User /\ to \in Role /\ to # "OWNER"
  BY <1>1, CommitRows, ArgsFields DEF Committing, EarlyRefusal
<1>3. SetRole(o, u, to) \in Row /\ SetRole(o, u, to).role = to
  BY <1>2, SetRoleType DEF UpdateMemberRole, IInv
<1>4. SetRow(o, u, SetRole(o, u, to))
  BY DEF UpdateMemberRole
<1>5. Roles' = [Roles EXCEPT ![o][u] = to]
  BY <1>2, <1>3, <1>4, SetRowRoles
<1>6. Roles[o][u] # NoRole
  BY <1>2, RolesOfRows DEF UpdateMemberRole, Present
<1>7. Table!Regrade(o, u, to)
  BY <1>2, <1>5, <1>6
     DEF UpdateMemberRole, Table!Regrade, Table!MayTouch, Roles, Table!NoRole, NoRole
<1>8. ASSUME UpToDate(r)
      PROVE  StrictTable!Regrade(o, u, to)
  <2>1. Roles[o][u] # "OWNER"
    BY <1>1, <1>2, <1>8, FreshTarget, RolesOfRows DEF Owns, RoleOf
  <2> QED
    BY <1>2, <1>5, <1>6, <2>1
       DEF UpdateMemberRole, StrictTable!Regrade, StrictTable!MayTouch, Roles,
           StrictTable!NoRole, NoRole
<1> QED
  BY <1>2, <1>7, <1>8
     DEF Table!ANext, Table!Role, StrictTable!ANext, StrictTable!Role, Role

LEMMA TransferIsHandover ==
  ASSUME IInv, NEW r \in Request, TransferOwnership(r)
  PROVE  Table!ANext /\ (UpToDate(r) => StrictTable!ANext)
<1> DEFINE o == args[r].org
           from == args[r].actor
           to == args[r].target
<1>1. /\ o \in Org /\ from \in User /\ to \in User /\ from # to
      /\ \A p \in Org, v \in User :
           members'[p][v].role = IF p = o /\ v = to THEN "OWNER"
                                 ELSE IF p = o /\ v = from THEN "ADMIN"
                                 ELSE members[p][v].role
  BY TransferRows
<1>2. Roles[o][from] # NoRole /\ Roles[o][to] # NoRole
  BY <1>1, RolesOfRows DEF TransferOwnership, Present
<1>3. Roles' = [Roles EXCEPT ![o][from] = "ADMIN", ![o][to] = "OWNER"]
  <2> DEFINE new == [p \in Org |-> [v \in User |->
                      IF p = o /\ v = to THEN "OWNER"
                      ELSE IF p = o /\ v = from THEN "ADMIN" ELSE Roles[p][v]]]
  <2>1. Roles' = new
    BY <1>1 DEF Roles, RoleOf
  <2>2. [Roles EXCEPT ![o][from] = "ADMIN", ![o][to] = "OWNER"] = new
    BY <1>1 DEF Roles
  <2> QED
    BY <2>1, <2>2
<1>4. Table!Handover(o, from, to)
  BY <1>1, <1>2, <1>3 DEF TransferOwnership, Table!Handover, Roles, Table!NoRole, NoRole
<1>5. ASSUME UpToDate(r)
      PROVE  StrictTable!Handover(o, from, to)
  <2>1. Roles[o][from] = "OWNER"
    BY <1>1, <1>5, FreshCaller, RolesOfRows DEF TransferOwnership, Committing, Owns, RoleOf
  <2> QED
    BY <1>1, <1>2, <1>3, <2>1
       DEF TransferOwnership, StrictTable!Handover, Roles, StrictTable!NoRole, NoRole
<1> QED
  BY <1>1, <1>4, <1>5 DEF Table!ANext, StrictTable!ANext

LEMMA DepartureIsStrike ==
  ASSUME IInv, NEW r \in Request, RemoveMember(r) \/ LeaveOrganization(r)
  PROVE  Table!ANext /\ (UpToDate(r) => StrictTable!ANext)
<1> DEFINE o == args[r].org
<1>1. PICK u \in User : /\ o \in Org /\ Present(o, u) /\ SetRow(o, u, NoRow)
                        /\ UNCHANGED orgState
                        /\ UpToDate(r) => ~Owns(o, u)
  BY CommitRows, ArgsFields, FreshTarget, FreshCaller
     DEF RemoveMember, LeaveOrganization, Endpoint, AdminEndpoint, OpenEndpoint, Committing
<1>2. Roles' = [Roles EXCEPT ![o][u] = NoRole]
  BY <1>1, SetRowRoles DEF NoRow
<1>3. Roles[o][u] # NoRole
  BY <1>1, RolesOfRows DEF Present
<1>4. Table!Strike(o, u)
  BY <1>1, <1>2, <1>3 DEF Table!Strike, Table!MayTouch, Roles, Table!NoRole, NoRole
<1>5. ASSUME UpToDate(r)
      PROVE  StrictTable!Strike(o, u)
  <2>1. Roles[o][u] # "OWNER"
    BY <1>1, <1>5, RolesOfRows DEF Owns, RoleOf
  <2> QED
    BY <1>1, <1>2, <1>3, <2>1
       DEF StrictTable!Strike, StrictTable!MayTouch, Roles, StrictTable!NoRole, NoRole
<1> QED
  BY <1>1, <1>4, <1>5 DEF Table!ANext, StrictTable!ANext

LEMMA NextIsTable ==
  ASSUME IInv, [Next]_vars
  PROVE  Table!ANext \/ UNCHANGED <<orgState, Roles>>
<1>1. CASE UNCHANGED <<orgState, members>>
  BY <1>1 DEF Roles, RoleOf
<1>2. ASSUME NEW r \in Request, Commit(r)
      PROVE  Table!ANext \/ UNCHANGED <<orgState, Roles>>
  BY <1>1, <1>2, CreateIsFound, RemoveIsDissolve, CreateMemberIsEnroll,
     UpdateMemberRoleIsRegrade, TransferIsHandover, DepartureIsStrike
     DEF Commit, UpdateOrganization
<1> QED
  BY <1>1, <1>2 DEF Next, Step, Begin, Guard, GuardRefuses, Check, CheckRefuses, Fail, Reject,
                    db, vars

LEMMA InitIsTable == Init => Table!AInit
<1> SUFFICES ASSUME Init
             PROVE  Table!AInit
  OBVIOUS
<1>1. IInv
  BY InitIInv
<1>2. Roles \in [Org -> [User -> Role \cup {NoRole}]]
  BY <1>1, RolesOfRows DEF Roles
<1>3. orgState \in [Org -> {"unborn", "live"}]
  BY DEF Init
<1>4. ASSUME NEW o \in Org, orgState[o] = "live"
      PROVE  \E u \in User : \A v \in User : Roles[o][v] = "OWNER" <=> v = u
  <2>1. OneOwner(o)
    BY <1>4 DEF Init
  <2> QED
    BY <2>1 DEF OneOwner, Owns, Roles
<1>5. ASSUME NEW o \in Org, orgState[o] # "live", NEW u \in User
      PROVE  Roles[o][u] = NoRole
  BY <1>1, <1>5, RolesOfRows DEF IInv, NoOrphanMembership
<1> QED
  BY <1>2, <1>3, <1>4, <1>5
     DEF Table!AInit, Table!AOneOwner, Table!Role, Table!NoRole, Role, NoRole, Roles

\* However requests overlap, what the endpoints do to the rows is a change of
\* roles that the table allows; tasks and comments rest on no more than that.
THEOREM Implements == Spec => ImplementsTable
<1>1. IInv /\ [Next]_vars => [Table!table' # Table!table /\ Table!ANext]_(Table!table)
  BY NextIsTable DEF Table!table, Roles
<1> QED
  BY <1>1, InitIsTable, Invariance, PTL DEF Spec, ImplementsTable, Table!ASpec
-----------------------------------------------------------------------------
(* What a transaction does to the rows and what it tells of it.            *)

\* The step deletes the organization the record is linked to.
Unlinked(rec) ==
  /\ rec.org \in Org
  /\ orgState[rec.org] # "deleted"
  /\ orgState'[rec.org] = "deleted"

\* The log has one record more, rec.  The others are as they were, but for the
\* link to an organization that is deleted.
More(rec) ==
  LET n == Len(audit) + 1 IN
  /\ n \in Nat /\ n \notin DOMAIN audit /\ DOMAIN audit' = DOMAIN audit \cup {n}
  /\ audit'[n] = rec
  /\ \A i \in DOMAIN audit :
       /\ i \in Nat /\ i < n
       /\ audit'[i] = IF Unlinked(audit[i]) THEN [audit[i] EXCEPT !.org = NoOrg] ELSE audit[i]

RecordIs(rec, r, o, action, entity, meta) ==
  /\ rec.action = action
  /\ rec.actor = args[r].actor
  /\ rec.org = o
  /\ rec.entity = entity
  /\ rec.meta = meta

\* One organization's state, or one row, is written.
StateSet(o, s) == \A p \in Org : orgState'[p] = IF p = o THEN s ELSE orgState[p]
RowSet(o, u, row) ==
  \A p \in Org, v \in User : members'[p][v] = IF p = o /\ v = u THEN row ELSE members[p][v]

LEMMA AppendIsMore ==
  ASSUME IInv, NEW rec \in AuditRecord, audit' = Append(audit, rec),
         \A o \in Org : orgState[o] # "deleted" => orgState'[o] # "deleted"
  PROVE  More(rec)
<1> DEFINE n == Len(audit) + 1
<1>1. audit \in Seq(AuditRecord)
  BY DEF IInv, TypeOK
<1>2. /\ n \in Nat /\ DOMAIN audit = 1..Len(audit) /\ Len(audit) \in Nat
      /\ DOMAIN audit' = 1..n
      /\ audit'[n] = rec
      /\ \A i \in 1..Len(audit) : audit'[i] = audit[i]
  BY <1>1
<1>3. n \notin DOMAIN audit /\ DOMAIN audit' = DOMAIN audit \cup {n}
  BY <1>2
<1>4. \A i \in DOMAIN audit : i \in Nat /\ i < n /\ audit'[i] = audit[i] /\ ~Unlinked(audit[i])
  BY <1>2 DEF Unlinked
<1> QED
  BY <1>2, <1>3, <1>4, Zenon DEF More

\* The records of a transaction that appends one.
LEMMA LogIsMore ==
  ASSUME IInv, NEW r \in Request, args[r] \in Args, NEW o \in Org,
         NEW action \in OrganizationAction \cup MemberAction,
         NEW entity \in RowId \cup Org, NEW meta \in Meta,
         Log(r, o, action, entity, meta),
         \A p \in Org : orgState[p] # "deleted" => orgState'[p] # "deleted"
  PROVE  \E rec \in AuditRecord : More(rec) /\ RecordIs(rec, r, o, action, entity, meta)
<1> DEFINE rec == Record(r, o, action, entity, meta)
<1>1. rec \in AuditRecord
  BY LogType DEF IInv
<1>2. More(rec)
  BY <1>1, AppendIsMore DEF Log
<1>3. RecordIs(rec, r, o, action, entity, meta)
  BY DEF RecordIs, Record
<1> QED
  BY <1>1, <1>2, <1>3

LEMMA CreateOrganizationEffect ==
  ASSUME IInv, NEW r \in Request, CreateOrganization(r)
  PROVE  \E o \in Org, row \in Row, rec \in AuditRecord :
           /\ More(rec) /\ RecordIs(rec, r, o, "ORGANIZATION_CREATED", o, <<>>)
           /\ orgState[o] = "unborn" /\ StateSet(o, "live")
           /\ args[r].actor \in User
           /\ RowSet(o, args[r].actor, row) /\ row.id = r /\ row.role = "OWNER"
<1>1. args[r] \in Args /\ args[r].actor \in User
  BY CommitRows, ArgsFields DEF CreateOrganization, Endpoint, OpenEndpoint
<1>2. PICK o \in Org :
        /\ orgState[o] = "unborn"
        /\ orgState' = [orgState EXCEPT ![o] = "live"]
        /\ SetRow(o, args[r].actor, [id |-> r, role |-> "OWNER"])
        /\ Log(r, o, "ORGANIZATION_CREATED", o, <<>>)
  BY DEF CreateOrganization
<1> DEFINE row == [id |-> r, role |-> "OWNER"]
<1>3. row \in Row /\ row.id = r /\ row.role = "OWNER"
  BY DEF Row, RowId, Role
<1>4. RowSet(o, args[r].actor, row)
  BY <1>1, <1>2, <1>3, SetRowType DEF IInv, RowSet
<1>5. StateSet(o, "live")
  BY <1>2 DEF StateSet, IInv, TypeOK
<1>6. \A p \in Org : orgState[p] # "deleted" => orgState'[p] # "deleted"
  BY <1>5 DEF StateSet
<1>7. PICK rec \in AuditRecord : More(rec) /\ RecordIs(rec, r, o, "ORGANIZATION_CREATED", o, <<>>)
  BY <1>1, <1>2, <1>6, LogIsMore DEF OrganizationAction, Meta
<1> QED
  BY <1>1, <1>2, <1>3, <1>4, <1>5, <1>7

LEMMA UpdateOrganizationEffect ==
  ASSUME IInv, NEW r \in Request, UpdateOrganization(r)
  PROVE  \E o \in Org, rec \in AuditRecord :
           /\ More(rec) /\ RecordIs(rec, r, o, "ORGANIZATION_UPDATED", o, <<>>)
           /\ orgState[o] = "live"
           /\ UNCHANGED <<orgState, members>>
<1>1. args[r] \in Args /\ args[r].org \in Org
  BY CommitRows DEF UpdateOrganization, Endpoint, AdminEndpoint
<1>2. PICK rec \in AuditRecord :
        More(rec) /\ RecordIs(rec, r, args[r].org, "ORGANIZATION_UPDATED", args[r].org, <<>>)
  BY <1>1, LogIsMore DEF UpdateOrganization, OrganizationAction, Meta
<1> QED
  BY <1>1, <1>2 DEF UpdateOrganization, Live

LEMMA RemoveOrganizationEffect ==
  ASSUME IInv, NEW r \in Request, RemoveOrganization(r)
  PROVE  \E o \in Org, rec \in AuditRecord :
           /\ More(rec) /\ RecordIs(rec, r, NoOrg, "ORGANIZATION_DELETED", o, <<>>)
           /\ orgState[o] = "live" /\ StateSet(o, "deleted")
           /\ \A p \in Org, v \in User :
                members'[p][v] = IF p = o THEN NoRow ELSE members[p][v]
<1> DEFINE o == args[r].org
           first == Record(r, o, "ORGANIZATION_DELETED", o, <<>>)
           longer == Append(audit, first)
           rec == [first EXCEPT !.org = NoOrg]
           n == Len(audit) + 1
<1>1. args[r] \in Args /\ o \in Org
  BY CommitRows DEF RemoveOrganization, Endpoint, OwnerEndpoint
<1>2. /\ orgState[o] = "live" /\ StateSet(o, "deleted")
      /\ \A p \in Org, v \in User : members'[p][v] = IF p = o THEN NoRow ELSE members[p][v]
  BY <1>1 DEF RemoveOrganization, Live, StateSet, IInv, TypeOK
<1>3. first \in AuditRecord /\ audit \in Seq(AuditRecord)
  BY <1>1, LogType DEF IInv, TypeOK, OrganizationAction, Meta
<1>4. rec \in AuditRecord
  BY <1>3 DEF AuditRecord
<1>5. RecordIs(rec, r, NoOrg, "ORGANIZATION_DELETED", o, <<>>)
  BY DEF RecordIs, Record
<1>6. audit' = [i \in DOMAIN longer |->
                  IF longer[i].org = o THEN [longer[i] EXCEPT !.org = NoOrg] ELSE longer[i]]
  BY DEF RemoveOrganization, Detached
<1> HIDE DEF o, first
<1>7. /\ n \in Nat /\ DOMAIN audit = 1..Len(audit) /\ Len(audit) \in Nat
      /\ DOMAIN longer = 1..n
      /\ longer[n] = first
      /\ \A i \in 1..Len(audit) : longer[i] = audit[i]
  BY <1>3
<1>8. n \notin DOMAIN audit /\ DOMAIN longer = DOMAIN audit \cup {n}
  BY <1>7
<1>9. first.org = o
  BY DEF Record, first
<1>10. audit'[n] = rec /\ DOMAIN audit' = DOMAIN audit \cup {n}
  BY <1>6, <1>7, <1>8, <1>9
<1>11. ASSUME NEW i \in DOMAIN audit
       PROVE  /\ i \in Nat /\ i < n
              /\ audit'[i] = IF Unlinked(audit[i]) THEN [audit[i] EXCEPT !.org = NoOrg] ELSE audit[i]
  <2>1. i \in Nat /\ i < n /\ longer[i] = audit[i] /\ i \in DOMAIN longer
    BY <1>7, <1>8
  <2>2. Unlinked(audit[i]) <=> audit[i].org = o
    BY <1>1, <1>2 DEF Unlinked, StateSet
  <2> QED
    BY <1>6, <2>1, <2>2
<1>12. More(rec)
  BY <1>7, <1>8, <1>10, <1>11, Zenon DEF More
<1> QED
  BY <1>1, <1>2, <1>4, <1>5, <1>12

LEMMA CreateMemberEffect ==
  ASSUME IInv, NEW r \in Request, CreateMember(r)
  PROVE  \E o \in Org, u \in User, row \in Row, rec \in AuditRecord :
           /\ More(rec) /\ RecordIs(rec, r, o, "MEMBER_ADDED", r, <<>>)
           /\ orgState[o] = "live" /\ UNCHANGED orgState
           /\ members[o][u] = NoRow
           /\ RowSet(o, u, row) /\ row.id = r /\ row.role = "VIEWER"
<1> DEFINE o == args[r].org
           u == args[r].target
           row == [id |-> r, role |-> "VIEWER"]
<1>1. args[r] \in Args /\ o \in Org /\ u \in User
  BY CommitRows, ArgsFields DEF CreateMember, Endpoint, AdminEndpoint
<1>2. row \in Row /\ row.id = r /\ row.role = "VIEWER" /\ r \in RowId
  BY DEF Row, RowId, Role
<1>3. RowSet(o, u, row)
  BY <1>1, <1>2, SetRowType DEF CreateMember, IInv, RowSet
<1>4. PICK rec \in AuditRecord : More(rec) /\ RecordIs(rec, r, o, "MEMBER_ADDED", r, <<>>)
  BY <1>1, <1>2, LogIsMore DEF CreateMember, MemberAction, Meta
<1> QED
  BY <1>1, <1>2, <1>3, <1>4 DEF CreateMember, Live

LEMMA UpdateMemberRoleEffect ==
  ASSUME IInv, NEW r \in Request, UpdateMemberRole(r)
  PROVE  LET o == args[r].org u == args[r].target IN
         /\ o \in Org /\ u \in User /\ members[o][u] \in Row
         /\ args[r].to # "OWNER" /\ args[r].to \in Role
         /\ UNCHANGED orgState
         /\ \E row \in Row, rec \in AuditRecord :
              /\ More(rec)
              /\ RecordIs(rec, r, o, "MEMBER_ROLE_CHANGED", members[o][u].id,
                          <<seen[r].role, args[r].to>>)
              /\ RowSet(o, u, row) /\ row.id = members[o][u].id /\ row.role = args[r].to
<1> DEFINE o == args[r].org
           u == args[r].target
           row == SetRole(o, u, args[r].to)
<1>1. Committing(r, "UpdateMemberRole") /\ "UpdateMemberRole" \in Endpoint
  BY DEF UpdateMemberRole, Endpoint, AdminEndpoint
<1>2. args[r] \in Args /\ o \in Org /\ seen[r] \in Row /\ ~EarlyRefusal(args[r], membership[r])
  BY <1>1, CommitRows DEF TargetedOps
<1>3. u \in User /\ args[r].to \in Role /\ args[r].to # "OWNER"
  BY <1>1, <1>2, ArgsFields DEF Committing, EarlyRefusal
<1>4. members[o][u] \in Row
  BY <1>2, <1>3 DEF UpdateMemberRole, Present, IInv, TypeOK
<1>5. row \in Row /\ row.id = members[o][u].id /\ row.role = args[r].to
  BY <1>3, <1>4 DEF SetRole, Row
<1>6. members[o][u].id \in RowId /\ seen[r].role \in Role
  BY <1>2, <1>4 DEF Row
<1>7. <<seen[r].role, args[r].to>> \in Meta
  BY <1>3, <1>6 DEF Meta
<1>8. RowSet(o, u, row)
  BY <1>2, <1>3, <1>5, SetRowType DEF UpdateMemberRole, IInv, RowSet
<1>9. PICK rec \in AuditRecord :
        /\ More(rec)
        /\ RecordIs(rec, r, o, "MEMBER_ROLE_CHANGED", members[o][u].id, <<seen[r].role, args[r].to>>)
  BY <1>2, <1>6, <1>7, LogIsMore DEF UpdateMemberRole, MemberAction
<1> HIDE DEF row
<1> QED
  BY <1>2, <1>3, <1>4, <1>5, <1>8, <1>9 DEF UpdateMemberRole

LEMMA TransferOwnershipEffect ==
  ASSUME IInv, NEW r \in Request, TransferOwnership(r)
  PROVE  LET o == args[r].org from == args[r].actor to == args[r].target IN
         /\ o \in Org /\ from \in User /\ to \in User /\ from # to
         /\ members[o][from] \in Row /\ members[o][to] \in Row
         /\ membership[r].role = "OWNER" /\ seen[r] \in Row
         /\ UNCHANGED orgState
         /\ \E demoted \in Row, promoted \in Row, rec \in AuditRecord :
              /\ More(rec)
              /\ RecordIs(rec, r, o, "OWNERSHIP_TRANSFERRED", seen[r].id, <<from, to>>)
              /\ demoted.id = members[o][from].id /\ demoted.role = "ADMIN"
              /\ promoted.id = members[o][to].id /\ promoted.role = "OWNER"
              /\ \A p \in Org, v \in User :
                   members'[p][v] = IF p = o /\ v = to THEN promoted
                                    ELSE IF p = o /\ v = from THEN demoted
                                    ELSE members[p][v]
<1> DEFINE o == args[r].org
           from == args[r].actor
           to == args[r].target
           demoted == SetRole(o, from, "ADMIN")
           promoted == SetRole(o, to, "OWNER")
<1>1. /\ args[r] \in Args /\ o \in Org /\ from \in User /\ to \in User /\ from # to
      /\ membership[r].role = "OWNER" /\ seen[r] \in Row
      /\ demoted \in Row /\ demoted.role = "ADMIN"
      /\ promoted \in Row /\ promoted.role = "OWNER"
      /\ \A p \in Org, v \in User :
           members'[p][v] = IF p = o /\ v = to THEN promoted
                            ELSE IF p = o /\ v = from THEN demoted
                            ELSE members[p][v]
  BY TransferRows
<1>2. members[o][from] \in Row /\ members[o][to] \in Row
  BY <1>1 DEF TransferOwnership, Present, IInv, TypeOK
<1>3. demoted.id = members[o][from].id /\ promoted.id = members[o][to].id
  BY <1>2 DEF SetRole, Row
<1>4. seen[r].id \in RowId /\ <<from, to>> \in Meta
  BY <1>1 DEF Row, Meta
<1>5. PICK rec \in AuditRecord :
        More(rec) /\ RecordIs(rec, r, o, "OWNERSHIP_TRANSFERRED", seen[r].id, <<from, to>>)
  BY <1>1, <1>4, LogIsMore DEF TransferOwnership, MemberAction
<1> HIDE DEF demoted, promoted
<1> QED
  BY <1>1, <1>2, <1>3, <1>5 DEF TransferOwnership

\* A removal and a departure: the row named is the one that was read.
LEMMA RemoveMemberEffect ==
  ASSUME IInv, NEW r \in Request, RemoveMember(r)
  PROVE  LET o == args[r].org u == args[r].target IN
         /\ o \in Org /\ u \in User /\ members[o][u] \in Row
         /\ args[r].op = "RemoveMember" /\ seen[r] \in Row
         /\ UNCHANGED orgState
         /\ RowSet(o, u, NoRow)
         /\ \E rec \in AuditRecord :
              More(rec) /\ RecordIs(rec, r, o, "MEMBER_REMOVED", seen[r].id, <<>>)
<1> DEFINE o == args[r].org
           u == args[r].target
<1>1. Committing(r, "RemoveMember") /\ "RemoveMember" \in Endpoint
  BY DEF RemoveMember, Endpoint, AdminEndpoint
<1>2. args[r] \in Args /\ o \in Org /\ seen[r] \in Row
  BY <1>1, CommitRows DEF TargetedOps
<1>3. u \in User /\ seen[r].id \in RowId
  BY <1>2, ArgsFields DEF Row
<1>4. members[o][u] \in Row
  BY <1>2, <1>3 DEF RemoveMember, Present, IInv, TypeOK
<1>5. RowSet(o, u, NoRow)
  BY <1>2, <1>3, SetRowType DEF RemoveMember, IInv, RowSet
<1>6. \E rec \in AuditRecord : More(rec) /\ RecordIs(rec, r, o, "MEMBER_REMOVED", seen[r].id, <<>>)
  BY <1>2, <1>3, LogIsMore DEF RemoveMember, MemberAction, Meta
<1> QED
  BY <1>1, <1>2, <1>3, <1>4, <1>5, <1>6 DEF RemoveMember, Committing

LEMMA LeaveOrganizationEffect ==
  ASSUME IInv, NEW r \in Request, LeaveOrganization(r)
  PROVE  LET o == args[r].org u == args[r].actor IN
         /\ o \in Org /\ u \in User /\ members[o][u] \in Row
         /\ membership[r].role # "OWNER" /\ args[r].op = "LeaveOrganization"
         /\ UNCHANGED orgState
         /\ RowSet(o, u, NoRow)
         /\ \E rec \in AuditRecord :
              More(rec) /\ RecordIs(rec, r, o, "MEMBER_LEFT", membership[r].id, <<>>)
<1> DEFINE o == args[r].org
           u == args[r].actor
<1>1. Committing(r, "LeaveOrganization") /\ "LeaveOrganization" \in Endpoint
  BY DEF LeaveOrganization, Endpoint, OpenEndpoint
<1>2. /\ args[r] \in Args /\ o \in Org /\ membership[r] \in Row
      /\ ~EarlyRefusal(args[r], membership[r])
  BY <1>1, CommitRows
<1>3. /\ u \in User /\ membership[r].id \in RowId /\ membership[r].role # "OWNER"
  BY <1>1, <1>2, ArgsFields DEF Row, EarlyRefusal, Committing
<1>4. members[o][u] \in Row
  BY <1>2, <1>3 DEF LeaveOrganization, Present, IInv, TypeOK
<1>5. RowSet(o, u, NoRow)
  BY <1>2, <1>3, SetRowType DEF LeaveOrganization, IInv, RowSet
<1>6. \E rec \in AuditRecord : More(rec) /\ RecordIs(rec, r, o, "MEMBER_LEFT", membership[r].id, <<>>)
  BY <1>2, <1>3, LogIsMore DEF LeaveOrganization, MemberAction, Meta
<1> QED
  BY <1>1, <1>2, <1>3, <1>4, <1>5, <1>6 DEF LeaveOrganization, Committing

LEMMA CommitStep ==
  ASSUME NEW r \in Request, Commit(r)
  PROVE  pc[r] = "commit" /\ Finish(r, "done") /\ UNCHANGED origin
BY DEF Commit, Committing, CreateOrganization, UpdateOrganization,
       RemoveOrganization, CreateMember, UpdateMemberRole,
       TransferOwnership, RemoveMember, LeaveOrganization

\* A step that commits nothing leaves the database alone.
LEMMA StepEffect ==
  ASSUME IInv, NEW r \in Request, Step(r)
  PROVE  /\ pc[r] \notin Ended /\ pc'[r] # pc[r]
         /\ \A q \in Request \ {r} : /\ pc'[q] = pc[q] /\ args'[q] = args[q]
                                     /\ membership'[q] = membership[q] /\ seen'[q] = seen[q]
         /\ UNCHANGED origin
         /\ \/ Commit(r) /\ pc[r] = "commit" /\ pc'[r] = "done"
            \/ UNCHANGED db /\ pc'[r] = "rejected"
            \/ UNCHANGED db /\ (Begin(r) \/ Guard(r) \/ Check(r))
<1>1. CASE Commit(r)
  <2>1. pc[r] = "commit" /\ Finish(r, "done") /\ UNCHANGED origin
    BY <1>1, CommitStep
  <2> QED
    BY <1>1, <2>1 DEF Finish, IInv, TypeOK, Ended
<1>2. CASE GuardRefuses(r) \/ CheckRefuses(r) \/ Fail(r)
  BY <1>2 DEF GuardRefuses, CheckRefuses, Fail, MayStart, Reject, Finish, db, IInv, TypeOK,
              Ended, Running
<1>3. CASE Begin(r)
  BY <1>3 DEF Begin, MayStart, db, IInv, TypeOK, Ended
<1>4. CASE Guard(r)
  BY <1>4 DEF Guard, MayStart, db, IInv, TypeOK, Ended
<1>5. CASE Check(r)
  BY <1>5 DEF Check, db, IInv, TypeOK, Ended
<1> QED
  BY <1>1, <1>2, <1>3, <1>4, <1>5 DEF Step

LEMMA CommitTells ==
  ASSUME IInv, NEW r \in Request, Commit(r)
  PROVE  \E rec \in AuditRecord : More(rec)
BY CreateOrganizationEffect, UpdateOrganizationEffect, RemoveOrganizationEffect,
   CreateMemberEffect, UpdateMemberRoleEffect, TransferOwnershipEffect, RemoveMemberEffect,
   LeaveOrganizationEffect DEF Commit

LEMMA SurvivalStep ==
  ASSUME IInv, [Next]_vars
  PROVE  /\ Len(audit') >= Len(audit)
         /\ \A i \in DOMAIN audit :
              \/ audit'[i] = audit[i]
              \/ /\ orgState'[audit[i].org] = "deleted"
                 /\ audit'[i] = [audit[i] EXCEPT !.org = NoOrg]
<1>1. audit \in Seq(AuditRecord) /\ audit' \in Seq(AuditRecord)
  BY NextIInv DEF IInv, TypeOK
<1>2. CASE audit' = audit
  BY <1>1, <1>2
<1>3. ASSUME NEW rec \in AuditRecord, More(rec)
      PROVE  /\ Len(audit') >= Len(audit)
             /\ \A i \in DOMAIN audit :
                  \/ audit'[i] = audit[i]
                  \/ /\ orgState'[audit[i].org] = "deleted"
                     /\ audit'[i] = [audit[i] EXCEPT !.org = NoOrg]
  <2>1. Len(audit) + 1 \in DOMAIN audit'
    BY <1>3 DEF More
  <2>2. Len(audit') >= Len(audit)
    BY <1>1, <2>1
  <2> QED
    BY <1>3, <2>2 DEF More, Unlinked
<1>4. audit' = audit \/ \E rec \in AuditRecord : More(rec)
  BY StepEffect, CommitTells DEF Next, vars, db
<1> QED
  BY <1>2, <1>3, <1>4

\* docs/business-rules.md:94.  Whatever is done to an organization or its members,
\* its removal included, no record is lost or rewritten.
THEOREM LogSurvives == Spec => AuditSurvives
<1>1. IInv /\ [Next]_vars =>
        [/\ Len(audit') >= Len(audit)
         /\ \A i \in DOMAIN audit :
              \/ audit'[i] = audit[i]
              \/ /\ orgState'[audit[i].org] = "deleted"
                 /\ audit'[i] = [audit[i] EXCEPT !.org = NoOrg]]_vars
  BY SurvivalStep
<1> QED
  BY <1>1, Invariance, PTL DEF Spec, AuditSurvives

-----------------------------------------------------------------------------
(* Ids: a row's is never given again, so a record names one row.           *)

\* A request that may commit, to an endpoint with an organization.
Underway(r) == pc[r] \in Running /\ args[r].op # "CreateOrganization"

\* A record that is linked to an organization is linked to one there is.
LinksAlive == \A i \in DOMAIN audit : audit[i].org # NoOrg => orgState[audit[i].org] = "live"

\* An organization yet to be created has no history.
OriginsAlive ==
  \A o \in Org, u \in User : origin[o][u] # NoRow => orgState[o] # "unborn"

\* An id that is a row's, or was: it is never given again.
Used(id) == id \in User \/ (id \in Request /\ pc[id] = "done")

Holds(o, v, id) == members[o][v] # NoRow /\ members[o][v].id = id

\* Nobody but u has the row id in o, now or later.
Of(o, u, id) == Used(id) /\ \A v \in User : Holds(o, v, id) => v = u

RowsApart == \A o \in Org, u \in User : members[o][u] # NoRow => Of(o, u, members[o][u].id)

\* What a request remembers of rows.
MemoryOK(r) ==
  Underway(r) =>
    LET a == args[r] IN
    /\ orgState[a.org] # "unborn"
    /\ Of(a.org, a.actor, membership[r].id)
    /\ pc[r] = "commit" /\ a.op \in TargetedOps /\ seen[r] # NoRow
         => Of(a.org, a.target, seen[r].id)

\* The ids that a record names as those of rows are used.
NamesUsed ==
  \A i \in DOMAIN audit :
    audit[i].action \in MemberAction => Used(audit[i].entity)

\* Every id in rows, in what requests remember and in the log is in its place.
IdsInv ==
  /\ LinksAlive
  /\ OriginsAlive
  /\ RowsApart
  /\ \A r \in Request : MemoryOK(r)
  /\ NamesUsed

\* Used and Of after a step.
UsedThen(id) == id \in User \/ (id \in Request /\ pc'[id] = "done")
OfThen(o, u, id) ==
  UsedThen(id) /\ \A v \in User : members'[o][v] # NoRow /\ members'[o][v].id = id => v = u

\* What a commit does to ids: its organization was or is there, a row keeps
\* its id or is the only new one and has the id of the request, and the record
\* names a row that was there or this one.
CommitsIds(r, rec) ==
  /\ More(rec)
  /\ rec.org # NoOrg => orgState'[rec.org] = "live"
  /\ \A o \in Org : /\ orgState[o] # "unborn" => orgState'[o] # "unborn"
                    /\ orgState[o] = "live" => orgState'[o] \in {"live", "deleted"}
  /\ \A o \in Org, v \in User :
       members'[o][v] # NoRow =>
         \/ members[o][v] # NoRow /\ members'[o][v].id = members[o][v].id
         \/ /\ members'[o][v].id = r
            /\ \A w \in User \ {v} : members'[o][w] = members[o][w]
  /\ rec.action \in MemberAction => Used(rec.entity) \/ rec.entity = r

\* The rows a request remembers are there to name.
LEMMA Remembered ==
  ASSUME IInv, IdsInv, NEW r \in Request, pc[r] = "commit", args[r].op # "CreateOrganization"
  PROVE  /\ Of(args[r].org, args[r].actor, membership[r].id)
         /\ args[r].op \in TargetedOps /\ seen[r] \in Row
              => Of(args[r].org, args[r].target, seen[r].id)
BY NoRowIsNoRow DEF IdsInv, MemoryOK, Underway, Running

LEMMA CommitIds ==
  ASSUME IInv, IdsInv, NEW r \in Request, Commit(r), pc[r] = "commit"
  PROVE  \E rec \in AuditRecord : CommitsIds(r, rec)
<1>1. CASE CreateOrganization(r)
  <2>1. PICK o \in Org, row \in Row, rec \in AuditRecord :
           /\ More(rec) /\ RecordIs(rec, r, o, "ORGANIZATION_CREATED", o, <<>>)
           /\ orgState[o] = "unborn" /\ StateSet(o, "live")
           /\ args[r].actor \in User
           /\ RowSet(o, args[r].actor, row) /\ row.id = r /\ row.role = "OWNER"
    BY <1>1, CreateOrganizationEffect
  <2>2. CommitsIds(r, rec)
    BY <2>1 DEF CommitsIds, RecordIs, StateSet, RowSet, MemberAction
  <2> QED
    BY <2>2
<1>2. CASE UpdateOrganization(r)
  <2>1. PICK o \in Org, rec \in AuditRecord :
           /\ More(rec) /\ RecordIs(rec, r, o, "ORGANIZATION_UPDATED", o, <<>>)
           /\ orgState[o] = "live"
           /\ UNCHANGED <<orgState, members>>
    BY <1>2, UpdateOrganizationEffect
  <2>2. CommitsIds(r, rec)
    BY <2>1 DEF CommitsIds, RecordIs, MemberAction
  <2> QED
    BY <2>2
<1>3. CASE RemoveOrganization(r)
  <2>1. PICK o \in Org, rec \in AuditRecord :
           /\ More(rec) /\ RecordIs(rec, r, NoOrg, "ORGANIZATION_DELETED", o, <<>>)
           /\ orgState[o] = "live" /\ StateSet(o, "deleted")
           /\ \A p \in Org, v \in User :
                members'[p][v] = IF p = o THEN NoRow ELSE members[p][v]
    BY <1>3, RemoveOrganizationEffect
  <2>2. CommitsIds(r, rec)
    BY <2>1 DEF CommitsIds, RecordIs, StateSet, MemberAction
  <2> QED
    BY <2>2
<1>4. CASE CreateMember(r)
  <2>1. PICK o \in Org, u \in User, row \in Row, rec \in AuditRecord :
           /\ More(rec) /\ RecordIs(rec, r, o, "MEMBER_ADDED", r, <<>>)
           /\ orgState[o] = "live" /\ UNCHANGED orgState
           /\ members[o][u] = NoRow
           /\ RowSet(o, u, row) /\ row.id = r /\ row.role = "VIEWER"
    BY <1>4, CreateMemberEffect
  <2>2. CommitsIds(r, rec)
    BY <2>1 DEF CommitsIds, RecordIs, RowSet, MemberAction
  <2> QED
    BY <2>2
<1> DEFINE o == args[r].org
<1>5. ASSUME o \in Org, NEW u \in User, members[o][u] # NoRow
      PROVE  orgState[o] = "live"
  BY <1>5 DEF IInv, NoOrphanMembership
<1>6. CASE UpdateMemberRole(r)
  <2> DEFINE u == args[r].target
  <2>1. /\ o \in Org /\ u \in User /\ members[o][u] \in Row /\ UNCHANGED orgState
        /\ \E row \in Row, rec \in AuditRecord :
              /\ More(rec)
              /\ RecordIs(rec, r, o, "MEMBER_ROLE_CHANGED", members[o][u].id,
                          <<seen[r].role, args[r].to>>)
              /\ RowSet(o, u, row) /\ row.id = members[o][u].id /\ row.role = args[r].to
    BY <1>6, UpdateMemberRoleEffect
  <2>2. orgState[o] = "live" /\ members[o][u] # NoRow
    BY <1>5, <2>1, NoRowIsNoRow
  <2>3. Used(members[o][u].id)
    BY <2>1, <2>2 DEF IdsInv, RowsApart, Of
  <2> HIDE DEF o, u
  <2>4. PICK row \in Row, rec \in AuditRecord :
              /\ More(rec)
              /\ RecordIs(rec, r, o, "MEMBER_ROLE_CHANGED", members[o][u].id,
                          <<seen[r].role, args[r].to>>)
              /\ RowSet(o, u, row) /\ row.id = members[o][u].id
    BY <2>1
  <2>5. CommitsIds(r, rec)
    BY <2>1, <2>2, <2>3, <2>4 DEF CommitsIds, RecordIs, RowSet, MemberAction
  <2> QED
    BY <2>5
<1>7. CASE TransferOwnership(r)
  <2> DEFINE from == args[r].actor
             to == args[r].target
  <2>1. /\ o \in Org /\ from \in User /\ to \in User
        /\ members[o][from] \in Row /\ members[o][to] \in Row
        /\ seen[r] \in Row /\ UNCHANGED orgState
        /\ \E demoted \in Row, promoted \in Row, rec \in AuditRecord :
              /\ More(rec)
              /\ RecordIs(rec, r, o, "OWNERSHIP_TRANSFERRED", seen[r].id, <<from, to>>)
              /\ demoted.id = members[o][from].id
              /\ promoted.id = members[o][to].id
              /\ \A p \in Org, v \in User :
                   members'[p][v] = IF p = o /\ v = to THEN promoted
                                    ELSE IF p = o /\ v = from THEN demoted
                                    ELSE members[p][v]
    BY <1>7, TransferOwnershipEffect
  <2>2. orgState[o] = "live" /\ members[o][from] # NoRow /\ members[o][to] # NoRow
    BY <1>5, <2>1, NoRowIsNoRow
  <2>3. Used(seen[r].id)
    BY <1>7, <2>1, Remembered DEF TransferOwnership, Committing, TargetedOps, Of
  <2> HIDE DEF o, from, to
  <2>4. PICK demoted \in Row, promoted \in Row, rec \in AuditRecord :
              /\ More(rec)
              /\ RecordIs(rec, r, o, "OWNERSHIP_TRANSFERRED", seen[r].id, <<from, to>>)
              /\ demoted.id = members[o][from].id
              /\ promoted.id = members[o][to].id
              /\ \A p \in Org, v \in User :
                   members'[p][v] = IF p = o /\ v = to THEN promoted
                                    ELSE IF p = o /\ v = from THEN demoted
                                    ELSE members[p][v]
    BY <2>1
  <2>5. CommitsIds(r, rec)
    BY <2>1, <2>2, <2>3, <2>4 DEF CommitsIds, RecordIs, MemberAction
  <2> QED
    BY <2>5
<1>8. CASE RemoveMember(r) \/ LeaveOrganization(r)
  <2>1. PICK u \in User, rec \in AuditRecord :
          /\ o \in Org /\ members[o][u] \in Row /\ UNCHANGED orgState
          /\ RowSet(o, u, NoRow)
          /\ More(rec)
          /\ rec.org = o /\ Used(rec.entity)
    BY <1>8, RemoveMemberEffect, LeaveOrganizationEffect, Remembered DEF TargetedOps, Of, RecordIs
  <2>2. orgState[o] = "live"
    BY <1>5, <2>1, NoRowIsNoRow
  <2> HIDE DEF o
  <2>3. CommitsIds(r, rec)
    BY <2>1, <2>2 DEF CommitsIds, RowSet
  <2> QED
    BY <2>3
<1> QED
  BY <1>1, <1>2, <1>3, <1>4, <1>6, <1>7, <1>8 DEF Commit

LEMMA OfStays ==
  ASSUME NEW r \in Request, pc[r] # "done",
         \A q \in Request : pc[q] = "done" => pc'[q] = "done",
         NEW o \in Org, NEW u \in User, NEW id, Of(o, u, id),
         \A v \in User : members'[o][v] # NoRow =>
           \/ members[o][v] # NoRow /\ members'[o][v].id = members[o][v].id
           \/ members'[o][v].id = r
  PROVE  OfThen(o, u, id)
<1>1. UsedThen(id) /\ id # r
  BY MembershipAssumption DEF Of, Used, UsedThen
<1> QED
  BY <1>1 DEF Of, OfThen, Holds

\* IdsInv after a step that keeps the rows' ids, for all but the request itself.
LEMMA IdsKept ==
  ASSUME IInv, IdsInv, NEW r \in Request, pc[r] \notin Ended,
         \A q \in Request \ {r} : /\ pc'[q] = pc[q] /\ args'[q] = args[q]
                                  /\ membership'[q] = membership[q] /\ seen'[q] = seen[q],
         UNCHANGED origin,
         MemoryOK(r)',
         UNCHANGED db \/ (pc'[r] = "done" /\ \E rec \in AuditRecord : CommitsIds(r, rec))
  PROVE  IdsInv'
<1>1. \A q \in Request : pc[q] = "done" => pc'[q] = "done"
  BY DEF Ended
<1>2. \A id : Used(id) => UsedThen(id)
  BY <1>1 DEF Used, UsedThen
<1>3. ASSUME NEW o \in Org, NEW v \in User, members'[o][v] # NoRow
      PROVE  \/ members[o][v] # NoRow /\ members'[o][v].id = members[o][v].id
             \/ /\ members'[o][v].id = r /\ pc'[r] = "done"
                /\ \A w \in User \ {v} : members'[o][w] = members[o][w]
  BY <1>3 DEF db, CommitsIds
<1>4. ASSUME NEW o \in Org, NEW u \in User, NEW id, Of(o, u, id)
      PROVE  OfThen(o, u, id)
  BY <1>1, <1>3, <1>4, OfStays DEF Ended
<1>5. ASSUME NEW o \in Org, NEW u \in User, members'[o][u] # NoRow
      PROVE  OfThen(o, u, members'[o][u].id)
  <2>1. CASE members[o][u] # NoRow /\ members'[o][u].id = members[o][u].id
    BY <1>4, <2>1 DEF IdsInv, RowsApart
  <2>2. CASE /\ members'[o][u].id = r /\ pc'[r] = "done"
             /\ \A w \in User \ {u} : members'[o][w] = members[o][w]
    <3>1. ~Used(r)
      BY MembershipAssumption DEF Used, Ended
    <3>2. \A w \in User \ {u} : members'[o][w] # NoRow => members'[o][w].id # r
      BY <2>2, <3>1 DEF IdsInv, RowsApart, Of
    <3> QED
      BY <2>2, <3>2 DEF OfThen, UsedThen
  <2> QED
    BY <1>3, <1>5, <2>1, <2>2
<1>6. RowsApart'
  BY <1>5 DEF RowsApart, Of, Used, Holds, OfThen, UsedThen
<1>7. \A o \in Org : orgState[o] # "unborn" => orgState'[o] # "unborn"
  BY DEF db, CommitsIds
<1>8. OriginsAlive'
  BY <1>7 DEF IdsInv, OriginsAlive
<1>9. ASSUME NEW q \in Request \ {r}, pc'[q] \in Running, args'[q].op # "CreateOrganization"
      PROVE  LET a == args'[q] IN
             /\ orgState'[a.org] # "unborn"
             /\ OfThen(a.org, a.actor, membership'[q].id)
             /\ pc'[q] = "commit" /\ a.op \in TargetedOps /\ seen'[q] # NoRow
                  => OfThen(a.org, a.target, seen'[q].id)
  <2>1. Underway(q) /\ MemoryOK(q) /\ args[q] \in Args
    BY <1>9 DEF Underway, IdsInv, IInv, ChecksPassed
  <2>2. args[q].org \in Org /\ args[q].actor \in User /\ args[q].target \in User
    BY <2>1, ArgsFields DEF Underway
  <2> QED
    BY <1>4, <1>7, <2>1, <2>2 DEF MemoryOK
<1>10. \A q \in Request : MemoryOK(q)'
  BY <1>9 DEF MemoryOK, Underway, Of, Used, Holds, OfThen, UsedThen
<1>11. CASE UNCHANGED db
  <2>1. LinksAlive' /\ NamesUsed'
    BY <1>2, <1>11 DEF IdsInv, LinksAlive, NamesUsed, db, Used, UsedThen
  <2> QED
    BY <1>6, <1>8, <1>10, <2>1 DEF IdsInv
<1>12. ASSUME NEW rec \in AuditRecord, CommitsIds(r, rec), pc'[r] = "done"
       PROVE  IdsInv'
  <2> DEFINE n == Len(audit) + 1
  <2>1. /\ DOMAIN audit' = DOMAIN audit \cup {n} /\ audit'[n] = rec
        /\ \A i \in DOMAIN audit :
             audit'[i] = IF Unlinked(audit[i]) THEN [audit[i] EXCEPT !.org = NoOrg] ELSE audit[i]
    BY <1>12 DEF CommitsIds, More
  <2>2. \A i \in DOMAIN audit : audit[i] \in AuditRecord
    BY DEF IInv, TypeOK
  <2> HIDE DEF n
  <2>3. ASSUME NEW i \in DOMAIN audit
        PROVE  /\ audit'[i].org # NoOrg => orgState'[audit'[i].org] = "live"
               /\ audit'[i].action \in MemberAction => UsedThen(audit'[i].entity)
    <3>1. CASE Unlinked(audit[i])
      BY <1>2, <2>1, <2>2, <3>1 DEF AuditRecord, IdsInv, NamesUsed
    <3>2. CASE ~Unlinked(audit[i])
      <4>1. audit'[i] = audit[i] /\ audit[i].org \in Org \cup {NoOrg}
        BY <2>1, <2>2, <3>2 DEF AuditRecord
      <4>2. audit[i].org # NoOrg => orgState'[audit[i].org] = "live"
        BY <1>12, <3>2, <4>1 DEF IdsInv, LinksAlive, CommitsIds, Unlinked
      <4> QED
        BY <1>2, <4>1, <4>2 DEF IdsInv, NamesUsed
    <3> QED
      BY <3>1, <3>2
  <2>4. /\ rec.org # NoOrg => orgState'[rec.org] = "live"
        /\ rec.action \in MemberAction => UsedThen(rec.entity)
    BY <1>2, <1>12 DEF CommitsIds, UsedThen
  <2>5. LinksAlive' /\ NamesUsed'
    BY <2>1, <2>3, <2>4 DEF LinksAlive, NamesUsed, Used, UsedThen
  <2> QED
    BY <1>6, <1>8, <1>10, <2>5 DEF IdsInv
<1> QED
  BY <1>11, <1>12

\* What the request itself remembers after its step.
LEMMA RemembersRight ==
  ASSUME IInv, IdsInv, NEW r \in Request, Step(r)
  PROVE  MemoryOK(r)'
<1>1. CASE pc'[r] \in Ended
  BY <1>1 DEF MemoryOK, Underway, Running, Ended
<1>2. CASE Begin(r)
  <2>1. args'[r].op = "CreateOrganization"
    BY <1>2 DEF Begin, IInv, TypeOK
  <2> QED
    BY <2>1 DEF MemoryOK, Underway
<1>3. ASSUME NEW o \in Org, NEW u \in User, members[o][u] # NoRow, UNCHANGED db,
             \A q \in Request : pc[q] = "done" => pc'[q] = "done"
      PROVE  orgState'[o] = "live" /\ OfThen(o, u, members[o][u].id)
  BY <1>3 DEF IInv, NoOrphanMembership, IdsInv, RowsApart, Of, OfThen, Used, UsedThen, Holds, db
<1>4. \A q \in Request : pc[q] = "done" => pc'[q] = "done"
  BY StepEffect DEF Ended
<1>5. CASE Guard(r)
  <2>1. PICK a \in Args :
          /\ a.op # "CreateOrganization" /\ Admitted(a)
          /\ args' = [args EXCEPT ![r] = a]
          /\ membership' = [membership EXCEPT ![r] = CallerRow(a)]
          /\ pc' = [pc EXCEPT ![r] = IF a.op \in TargetedOps THEN "read" ELSE "commit"]
    BY <1>5 DEF Guard
  <2>2. args'[r] = a /\ membership'[r] = members[a.org][a.actor] /\ seen'[r] = seen[r]
    BY <1>5, <2>1 DEF IInv, TypeOK, Guard, CallerRow
  <2>3. a.org \in Org /\ a.actor \in User /\ a.target \in User
    BY <2>1, ArgsFields
  <2>4. orgState'[a.org] = "live" /\ OfThen(a.org, a.actor, membership'[r].id)
    BY <1>3, <1>4, <1>5, <2>1, <2>2, <2>3 DEF Admitted, CallerRow, Guard
  <2>5. pc'[r] = "commit" => a.op \notin TargetedOps
    BY <2>1 DEF IInv, TypeOK
  <2> QED
    BY <2>2, <2>4, <2>5 DEF MemoryOK, Underway, Of, OfThen, Used, UsedThen, Holds
<1>6. CASE Check(r)
  <2>1. /\ pc[r] = "read" /\ UNCHANGED <<db, args, membership>>
        /\ seen'[r] = TargetRow(args[r])
    BY <1>6 DEF Check, IInv, TypeOK
  <2>2. args[r] \in Args /\ args[r].op \in TargetedOps
    BY <2>1 DEF IInv, ChecksPassed, Running
  <2>3. args[r].op # "CreateOrganization" /\ args[r].org \in Org /\ args[r].target \in User
        /\ args[r].actor \in User
    BY <2>2, ArgsFields DEF TargetedOps
  <2>4. /\ orgState[args[r].org] # "unborn"
        /\ Of(args[r].org, args[r].actor, membership[r].id)
    BY <2>1, <2>3 DEF IdsInv, MemoryOK, Underway, Running
  <2>5. seen'[r] # NoRow => OfThen(args[r].org, args[r].target, seen'[r].id)
    BY <1>3, <1>4, <2>1, <2>3 DEF TargetRow
  <2>6. OfThen(args[r].org, args[r].actor, membership[r].id)
    BY <1>4, <2>1, <2>4 DEF Of, OfThen, Used, UsedThen, Holds, db
  <2> QED
    BY <2>1, <2>4, <2>5, <2>6 DEF MemoryOK, Underway, Of, OfThen, Used, UsedThen, Holds, db
<1>7. pc'[r] \in Ended \/ Begin(r) \/ Guard(r) \/ Check(r)
  BY StepEffect DEF Ended
<1> QED
  BY <1>1, <1>2, <1>5, <1>6, <1>7

LEMMA NextIds == IInv /\ IdsInv /\ [Next]_vars => IdsInv'
<1> SUFFICES ASSUME IInv, IdsInv, [Next]_vars
             PROVE  IdsInv'
  OBVIOUS
<1>1. CASE UNCHANGED vars
  BY <1>1 DEF vars, IdsInv, LinksAlive, OriginsAlive, RowsApart, MemoryOK, Underway, NamesUsed,
              Of, Used, Holds
<1>2. ASSUME NEW r \in Request, Step(r)
      PROVE  IdsInv'
  <2>1. MemoryOK(r)'
    BY <1>2, RemembersRight
  <2>2. UNCHANGED db \/ (pc'[r] = "done" /\ \E rec \in AuditRecord : CommitsIds(r, rec))
    BY <1>2, StepEffect, CommitIds
  <2> QED
    BY <1>2, <2>1, <2>2, StepEffect, IdsKept
<1> QED
  BY <1>1, <1>2 DEF Next

LEMMA InitIds == Init => IdsInv
<1> SUFFICES ASSUME Init
             PROVE  IdsInv
  OBVIOUS
<1>1. PICK role \in [Org -> [User -> Role \cup {NoRole}]] :
        /\ \A o \in Org, u \in User :
             role[o][u] # NoRole => orgState[o] = "live" /\ u \in Account
        /\ members = [o \in Org |-> [u \in User |->
                       IF role[o][u] = NoRole THEN NoRow
                       ELSE [id |-> u, role |-> role[o][u]]]]
        /\ origin = members
  BY DEF Init
<1>2. \A o \in Org, u \in User :
        members[o][u] # NoRow => members[o][u].id = u /\ orgState[o] = "live"
  BY <1>1
<1>3. RowsApart /\ OriginsAlive
  BY <1>1, <1>2 DEF RowsApart, OriginsAlive, Of, Used, Holds
<1>4. LinksAlive /\ NamesUsed
  BY DEF Init, LinksAlive, NamesUsed
<1>5. \A r \in Request : MemoryOK(r)
  BY DEF Init, MemoryOK, Underway, Running
<1> QED
  BY <1>3, <1>4, <1>5 DEF IdsInv

-----------------------------------------------------------------------------
(* The log against the rows.                                               *)

\* The records about the row of u, the last one with its role.
AboutRow(o, u) == {i \in DOMAIN audit : Concerns(audit[i], o, u)}

RoleTold(o, u) ==
  \/ AboutRow(o, u) = {} /\ RoleOf(o, u) = origin[o][u].role
  \/ \E i \in AboutRow(o, u) : /\ \A j \in AboutRow(o, u) : j <= i
                               /\ RoleOf(o, u) = GivenRole(audit[i], u)

NotGone(o, u) == \A i \in DOMAIN audit : ~Departure(audit[i], o, members[o][u].id)

RowsTold ==
  \A o \in Org, u \in User : members[o][u] # NoRow => RoleTold(o, u) /\ NotGone(o, u)

\* RoleTold and NotGone after a step.
ConcernsThen(rec, o, u) ==
  /\ rec.org = o
  /\ \/ rec.action = "ORGANIZATION_CREATED" /\ rec.actor = u
     \/ /\ rec.action \in {"MEMBER_ADDED", "MEMBER_ROLE_CHANGED"}
        /\ rec.entity = members'[o][u].id
     \/ rec.action = "OWNERSHIP_TRANSFERRED" /\ u \in {rec.meta[1], rec.meta[2]}

AboutThen(o, u) == {i \in DOMAIN audit' : ConcernsThen(audit'[i], o, u)}

ToldThen(o, u) ==
  /\ \/ AboutThen(o, u) = {} /\ members'[o][u].role = origin[o][u].role
     \/ \E i \in AboutThen(o, u) : /\ \A j \in AboutThen(o, u) : j <= i
                                   /\ members'[o][u].role = GivenRole(audit'[i], u)
  /\ \A i \in DOMAIN audit' : ~Departure(audit'[i], o, members'[o][u].id)

\* What a commit's record is to a row that is there afterwards: it is not about
\* the row, which is as it was, or it gives the row its role.
CommitsRow(rec, o, u) ==
  /\ ~Departure(rec, o, members'[o][u].id)
  /\ \/ members'[o][u] = members[o][u] /\ ~ConcernsThen(rec, o, u)
     \/ ConcernsThen(rec, o, u) /\ members'[o][u].role = GivenRole(rec, u)

CommitsRows(rec) ==
  \A o \in Org, u \in User : members'[o][u] # NoRow => CommitsRow(rec, o, u)

\* The id of the row of u is nobody else's, and not that of a request that runs.
LEMMA IdsApart ==
  ASSUME IdsInv, NEW o \in Org, NEW u \in User, members[o][u] # NoRow
  PROVE  /\ \A v \in User : members[o][v] # NoRow /\ members[o][v].id = members[o][u].id => v = u
         /\ \A r \in Request : pc[r] # "done" => members[o][u].id # r
BY MembershipAssumption DEF IdsInv, RowsApart, Of, Holds, Used

LEMMA CommitTellsRows ==
  ASSUME IInv, IdsInv, NEW r \in Request, Commit(r), pc[r] = "commit"
  PROVE  \E rec \in AuditRecord : More(rec) /\ CommitsRows(rec)
<1>1. CASE CreateOrganization(r)
  <2>1. PICK o \in Org, row \in Row, rec \in AuditRecord :
           /\ More(rec) /\ RecordIs(rec, r, o, "ORGANIZATION_CREATED", o, <<>>)
           /\ args[r].actor \in User
           /\ RowSet(o, args[r].actor, row) /\ row.id = r /\ row.role = "OWNER"
    BY <1>1, CreateOrganizationEffect
  <2>2. CommitsRows(rec)
    BY <2>1 DEF CommitsRows, CommitsRow, RecordIs, RowSet, Departure, ConcernsThen, GivenRole
  <2> QED
    BY <2>1, <2>2
<1>2. CASE UpdateOrganization(r)
  <2>1. PICK o \in Org, rec \in AuditRecord :
           /\ More(rec) /\ RecordIs(rec, r, o, "ORGANIZATION_UPDATED", o, <<>>)
           /\ UNCHANGED <<orgState, members>>
    BY <1>2, UpdateOrganizationEffect
  <2>2. CommitsRows(rec)
    BY <2>1 DEF CommitsRows, CommitsRow, RecordIs, Departure, ConcernsThen
  <2> QED
    BY <2>1, <2>2
<1>3. CASE RemoveOrganization(r)
  <2>1. PICK o \in Org, rec \in AuditRecord :
           /\ More(rec) /\ RecordIs(rec, r, NoOrg, "ORGANIZATION_DELETED", o, <<>>)
           /\ \A p \in Org, v \in User :
                members'[p][v] = IF p = o THEN NoRow ELSE members[p][v]
    BY <1>3, RemoveOrganizationEffect
  <2>2. CommitsRows(rec)
    BY <2>1 DEF CommitsRows, CommitsRow, RecordIs, Departure, ConcernsThen
  <2> QED
    BY <2>1, <2>2
<1>4. CASE CreateMember(r)
  <2>1. PICK o \in Org, u \in User, row \in Row, rec \in AuditRecord :
           /\ More(rec) /\ RecordIs(rec, r, o, "MEMBER_ADDED", r, <<>>)
           /\ RowSet(o, u, row) /\ row.id = r /\ row.role = "VIEWER"
    BY <1>4, CreateMemberEffect
  <2>2. \A p \in Org, v \in User : members[p][v] # NoRow => members[p][v].id # r
    BY IdsApart
  <2>3. CommitsRows(rec)
    BY <2>1, <2>2 DEF CommitsRows, CommitsRow, RecordIs, RowSet, Departure, ConcernsThen, GivenRole
  <2> QED
    BY <2>1, <2>3
<1> DEFINE o == args[r].org
<1>5. CASE UpdateMemberRole(r)
  <2> DEFINE u == args[r].target
  <2>1. /\ o \in Org /\ u \in User /\ members[o][u] \in Row
        /\ \E row \in Row, rec \in AuditRecord :
              /\ More(rec)
              /\ RecordIs(rec, r, o, "MEMBER_ROLE_CHANGED", members[o][u].id,
                          <<seen[r].role, args[r].to>>)
              /\ RowSet(o, u, row) /\ row.id = members[o][u].id /\ row.role = args[r].to
    BY <1>5, UpdateMemberRoleEffect
  <2> HIDE DEF o, u
  <2>2. PICK row \in Row, rec \in AuditRecord :
              /\ More(rec)
              /\ RecordIs(rec, r, o, "MEMBER_ROLE_CHANGED", members[o][u].id,
                          <<seen[r].role, args[r].to>>)
              /\ RowSet(o, u, row) /\ row.id = members[o][u].id /\ row.role = args[r].to
    BY <2>1
  <2>3. \A v \in User : members[o][v] # NoRow /\ members[o][v].id = members[o][u].id => v = u
    BY <2>1, IdsApart, NoRowIsNoRow
  <2>4. GivenRole(rec, u) = args[r].to
    BY <2>2 DEF GivenRole, RecordIs
  <2>5. CommitsRows(rec)
    BY <2>1, <2>2, <2>3, <2>4
       DEF CommitsRows, CommitsRow, RecordIs, RowSet, Departure, ConcernsThen
  <2> QED
    BY <2>2, <2>5
<1>6. CASE TransferOwnership(r)
  <2> DEFINE from == args[r].actor
             to == args[r].target
  <2>1. /\ o \in Org /\ from \in User /\ to \in User /\ from # to
        /\ \E demoted \in Row, promoted \in Row, rec \in AuditRecord :
              /\ More(rec)
              /\ RecordIs(rec, r, o, "OWNERSHIP_TRANSFERRED", seen[r].id, <<from, to>>)
              /\ demoted.role = "ADMIN" /\ promoted.role = "OWNER"
              /\ \A p \in Org, v \in User :
                   members'[p][v] = IF p = o /\ v = to THEN promoted
                                    ELSE IF p = o /\ v = from THEN demoted
                                    ELSE members[p][v]
    BY <1>6, TransferOwnershipEffect
  <2> HIDE DEF o, from, to
  <2>2. PICK demoted \in Row, promoted \in Row, rec \in AuditRecord :
              /\ More(rec)
              /\ RecordIs(rec, r, o, "OWNERSHIP_TRANSFERRED", seen[r].id, <<from, to>>)
              /\ demoted.role = "ADMIN" /\ promoted.role = "OWNER"
              /\ \A p \in Org, v \in User :
                   members'[p][v] = IF p = o /\ v = to THEN promoted
                                    ELSE IF p = o /\ v = from THEN demoted
                                    ELSE members[p][v]
    BY <2>1
  <2>3. \A v \in User : GivenRole(rec, v) = IF v = to THEN "OWNER" ELSE "ADMIN"
    BY <2>2 DEF GivenRole, RecordIs
  <2>4. CommitsRows(rec)
    BY <2>1, <2>2, <2>3 DEF CommitsRows, CommitsRow, RecordIs, Departure, ConcernsThen
  <2> QED
    BY <2>2, <2>4
<1>7. CASE RemoveMember(r) \/ LeaveOrganization(r)
  <2>1. PICK u \in User, rec \in AuditRecord :
          /\ o \in Org /\ members[o][u] \in Row
          /\ RowSet(o, u, NoRow)
          /\ More(rec)
          /\ rec.org = o /\ rec.action \in {"MEMBER_REMOVED", "MEMBER_LEFT"}
          /\ Of(o, u, rec.entity)
    BY <1>7, RemoveMemberEffect, LeaveOrganizationEffect, Remembered DEF TargetedOps, RecordIs
  <2> HIDE DEF o
  <2>2. \A v \in User : members[o][v] # NoRow /\ members[o][v].id = rec.entity => v = u
    BY <2>1 DEF Of, Holds
  <2>3. CommitsRows(rec)
    BY <2>1, <2>2 DEF CommitsRows, CommitsRow, RowSet, Departure, ConcernsThen
  <2> QED
    BY <2>1, <2>3
<1> QED
  BY <1>1, <1>2, <1>3, <1>4, <1>5, <1>6, <1>7 DEF Commit

\* The rows are told of after a commit.
LEMMA CommitRowsTold ==
  ASSUME IInv, IInv', IdsInv, RowsTold, NEW r \in Request, pc[r] = "commit", UNCHANGED origin,
         NEW rec \in AuditRecord, CommitsIds(r, rec), CommitsRows(rec),
         NEW o \in Org, NEW u \in User, members'[o][u] # NoRow
  PROVE  ToldThen(o, u)
<1> DEFINE n == Len(audit) + 1
           id == members'[o][u].id
<1>1. /\ n \in Nat /\ n \notin DOMAIN audit /\ DOMAIN audit' = DOMAIN audit \cup {n}
      /\ audit'[n] = rec
      /\ \A i \in DOMAIN audit :
           /\ i \in Nat /\ i < n
           /\ audit'[i] = IF Unlinked(audit[i]) THEN [audit[i] EXCEPT !.org = NoOrg] ELSE audit[i]
  BY DEF CommitsIds, More
<1>2. orgState'[o] = "live"
  BY DEF IInv, NoOrphanMembership
<1>3. \A i \in DOMAIN audit : audit[i] \in AuditRecord
  BY DEF IInv, TypeOK
<1> HIDE DEF n
<1>4. ASSUME NEW i \in DOMAIN audit
      PROVE  \/ audit'[i] = audit[i]
             \/ audit[i].org # o /\ audit'[i].org # o
  BY <1>1, <1>2, <1>3, MembershipAssumption DEF Unlinked, AuditRecord
<1>5. ASSUME NEW i \in DOMAIN audit'
      PROVE  ~Departure(audit'[i], o, id)
  <2>1. CASE i = n
    BY <1>1, <2>1 DEF CommitsRows, CommitsRow
  <2>2. CASE i \in DOMAIN audit /\ audit'[i] # audit[i]
    BY <1>4, <2>2 DEF Departure
  <2>3. CASE i \in DOMAIN audit /\ audit'[i] = audit[i]
    <3>1. CASE members[o][u] # NoRow /\ id = members[o][u].id
      BY <2>3, <3>1 DEF RowsTold, NotGone
    <3>2. CASE id = r
      <4>1. audit[i].action \in MemberAction => audit[i].entity # r
        BY <2>3, MembershipAssumption DEF IdsInv, NamesUsed, Used
      <4> QED
        BY <2>3, <3>2, <4>1 DEF Departure, MemberAction
    <3> QED
      BY <3>1, <3>2 DEF CommitsIds
  <2> QED
    BY <1>1, <1>5, <2>1, <2>2, <2>3
<1>6. CASE ConcernsThen(rec, o, u) /\ members'[o][u].role = GivenRole(rec, u)
  <2>1. n \in AboutThen(o, u) /\ \A j \in AboutThen(o, u) : j <= n
    BY <1>1, <1>6 DEF AboutThen
  <2> QED
    BY <1>1, <1>5, <1>6, <2>1 DEF ToldThen
<1>7. CASE members'[o][u] = members[o][u] /\ ~ConcernsThen(rec, o, u)
  <2>1. \A i \in DOMAIN audit : ConcernsThen(audit'[i], o, u) <=> Concerns(audit[i], o, u)
    BY <1>4, <1>7 DEF ConcernsThen, Concerns
  <2>2. AboutThen(o, u) = AboutRow(o, u)
    BY <1>1, <1>7, <2>1 DEF AboutThen, AboutRow
  <2>3. \A i \in AboutRow(o, u) : audit'[i] = audit[i]
    BY <1>4 DEF AboutRow, Concerns
  <2>4. RoleTold(o, u) /\ members[o][u].role = RoleOf(o, u)
    BY <1>7 DEF RowsTold, RoleOf
  <2> QED
    BY <1>5, <1>7, <2>2, <2>3, <2>4 DEF ToldThen, RoleTold
<1> QED
  BY <1>6, <1>7 DEF CommitsRows, CommitsRow

LEMMA NextRowsTold == IInv /\ IdsInv /\ RowsTold /\ [Next]_vars => RowsTold'
<1> SUFFICES ASSUME IInv, IdsInv, RowsTold, [Next]_vars
             PROVE  RowsTold'
  OBVIOUS
<1>1. CASE UNCHANGED db
  BY <1>1 DEF db, RowsTold, RoleTold, AboutRow, Concerns, RoleOf, GivenRole, NotGone, Departure
<1>2. ASSUME NEW r \in Request, Step(r), Commit(r)
      PROVE  RowsTold'
  <2>1. pc[r] = "commit" /\ UNCHANGED origin
    BY <1>2, CommitStep
  <2>2. PICK rec \in AuditRecord : CommitsIds(r, rec)
    BY <1>2, <2>1, CommitIds
  <2>3. CommitsRows(rec)
    BY <1>2, <2>1, <2>2, CommitTellsRows DEF CommitsIds, More
  <2>4. \A o \in Org, u \in User : members'[o][u] # NoRow => ToldThen(o, u)
    BY <2>1, <2>2, <2>3, NextIInv, CommitRowsTold
  <2> QED
    BY <2>1, <2>4 DEF RowsTold, ToldThen, AboutThen, ConcernsThen, RoleTold, AboutRow, Concerns,
                      RoleOf, GivenRole, NotGone, Departure
<1>3. UNCHANGED db \/ \E r \in Request : Step(r) /\ Commit(r)
  BY StepEffect DEF Next, vars, db
<1> QED
  BY <1>1, <1>2, <1>3

LEMMA InitRowsTold == Init => RowsTold
<1> SUFFICES ASSUME Init
             PROVE  RowsTold
  OBVIOUS
<1>1. audit = <<>> /\ origin = members /\ DOMAIN audit = {}
  BY DEF Init
<1> QED
  BY <1>1 DEF RowsTold, RoleTold, AboutRow, RoleOf, NotGone

\* What IInv and IdsInv are strong enough for, over time.
LEMMA IdsInvariance == Spec => [](IInv /\ IdsInv)
<1>1. IInv /\ IdsInv /\ [Next]_vars => (IInv /\ IdsInv)'
  BY NextIInv, NextIds
<1> QED
  BY <1>1, InitIInv, InitIds, PTL DEF Spec

\* RowsTold says more than the property does: which record is the last.
LEMMA ToldIsLatest == IInv /\ RowsTold => AuditNeverContradictsRows
<1> SUFFICES ASSUME IInv, RowsTold, NEW o \in Org, NEW u \in User, members[o][u] # NoRow
             PROVE  LET about == {i \in DOMAIN audit : Concerns(audit[i], o, u)}
                        latest == CHOOSE i \in about : \A j \in about : j <= i
                    IN  /\ RoleOf(o, u) = IF about = {} THEN origin[o][u].role
                                                  ELSE GivenRole(audit[latest], u)
                        /\ \A i \in DOMAIN audit : ~Departure(audit[i], o, members[o][u].id)
  BY DEF AuditNeverContradictsRows
<1> DEFINE about == {i \in DOMAIN audit : Concerns(audit[i], o, u)}
           latest == CHOOSE i \in about : \A j \in about : j <= i
<1>1. RoleTold(o, u) /\ NotGone(o, u) /\ AboutRow(o, u) = about
  BY DEF RowsTold, AboutRow
<1>2. \A i \in DOMAIN audit : i \in Nat
  BY DEF IInv, TypeOK
<1>3. ASSUME NEW i \in about, \A j \in about : j <= i
      PROVE  latest = i
  <2>1. latest \in about /\ \A j \in about : j <= latest
    BY <1>3
  <2> QED
    BY <1>2, <1>3, <2>1
<1> HIDE DEF latest, about
<1>4. RoleOf(o, u) = IF about = {} THEN origin[o][u].role ELSE GivenRole(audit[latest], u)
  BY <1>1, <1>3 DEF RoleTold
<1> QED
  BY <1>1, <1>4 DEF NotGone, about, latest

\* Whatever overlaps, a row that is there has the role that the last record about it
\* gives, and no record says that it was removed.
THEOREM AuditTellsRows == Spec => []AuditNeverContradictsRows
<1>1. IInv /\ IdsInv /\ RowsTold /\ [Next]_vars => RowsTold'
  BY NextRowsTold
<1> QED
  BY <1>1, IdsInvariance, InitRowsTold, ToldIsLatest, PTL DEF Spec

-----------------------------------------------------------------------------
(* The chain of custody.                                                   *)

\* A record that makes u OWNER of o.
Hands(rec, o, u) ==
  /\ rec.org = o
  /\ \/ rec.action = "ORGANIZATION_CREATED" /\ rec.actor = u
     \/ rec.action = "OWNERSHIP_TRANSFERRED" /\ rec.meta[2] = u

Entitled(o, u) ==
  origin[o][u].role = "OWNER" \/ \E i \in DOMAIN audit : Hands(audit[i], o, u)

\* Whoever is OWNER, or acts as one because his row was read when he was, is
\* entitled by the log.
CustodyInv ==
  /\ ChainOfCustody
  /\ \A o \in Org, u \in User : Owns(o, u) => Entitled(o, u)
  /\ \A r \in Request :
       Underway(r) /\ membership[r].role = "OWNER" /\ orgState[args[r].org] = "live"
         => Entitled(args[r].org, args[r].actor)

EntitledThen(o, u) ==
  origin'[o][u].role = "OWNER" \/ \E i \in DOMAIN audit' : Hands(audit'[i], o, u)

\* What a commit does to ownership: a new OWNER is named by its record, and who
\* hands it over is entitled to.
CommitsCustody(rec) ==
  /\ More(rec)
  /\ \A o \in Org : orgState'[o] = "live" => orgState[o] \in {"unborn", "live"}
  /\ \A o \in Org, u \in User :
       members'[o][u].role = "OWNER" => Owns(o, u) \/ Hands(rec, o, u)
  /\ rec.action = "OWNERSHIP_TRANSFERRED" => Entitled(rec.org, rec.actor)

LEMMA NoRowOwnsNothing == NoRow.role # "OWNER"
BY DEF NoRow, NoRole

LEMMA CommitCustody ==
  ASSUME IInv, CustodyInv, NEW r \in Request, Commit(r)
  PROVE  \E rec \in AuditRecord : CommitsCustody(rec)
<1>1. CASE CreateOrganization(r)
  <2>1. PICK o \in Org, row \in Row, rec \in AuditRecord :
           /\ More(rec) /\ RecordIs(rec, r, o, "ORGANIZATION_CREATED", o, <<>>)
           /\ orgState[o] = "unborn" /\ StateSet(o, "live")
           /\ args[r].actor \in User
           /\ RowSet(o, args[r].actor, row) /\ row.id = r /\ row.role = "OWNER"
    BY <1>1, CreateOrganizationEffect
  <2>2. CommitsCustody(rec)
    BY <2>1 DEF CommitsCustody, RecordIs, StateSet, RowSet, Hands, Owns, RoleOf
  <2> QED
    BY <2>2
<1>2. CASE UpdateOrganization(r)
  <2>1. PICK o \in Org, rec \in AuditRecord :
           /\ More(rec) /\ RecordIs(rec, r, o, "ORGANIZATION_UPDATED", o, <<>>)
           /\ UNCHANGED <<orgState, members>>
    BY <1>2, UpdateOrganizationEffect
  <2>2. CommitsCustody(rec)
    BY <2>1 DEF CommitsCustody, RecordIs, Owns, RoleOf
  <2> QED
    BY <2>2
<1>3. CASE RemoveOrganization(r)
  <2>1. PICK o \in Org, rec \in AuditRecord :
           /\ More(rec) /\ RecordIs(rec, r, NoOrg, "ORGANIZATION_DELETED", o, <<>>)
           /\ orgState[o] = "live" /\ StateSet(o, "deleted")
           /\ \A p \in Org, v \in User :
                members'[p][v] = IF p = o THEN NoRow ELSE members[p][v]
    BY <1>3, RemoveOrganizationEffect
  <2>2. CommitsCustody(rec)
    BY <2>1, NoRowOwnsNothing DEF CommitsCustody, RecordIs, StateSet, Owns, RoleOf
  <2> QED
    BY <2>2
<1>4. CASE CreateMember(r)
  <2>1. PICK o \in Org, u \in User, row \in Row, rec \in AuditRecord :
           /\ More(rec) /\ RecordIs(rec, r, o, "MEMBER_ADDED", r, <<>>)
           /\ UNCHANGED orgState
           /\ RowSet(o, u, row) /\ row.id = r /\ row.role = "VIEWER"
    BY <1>4, CreateMemberEffect
  <2>2. CommitsCustody(rec)
    BY <2>1 DEF CommitsCustody, RecordIs, RowSet, Owns, RoleOf
  <2> QED
    BY <2>2
<1>5. CASE UpdateMemberRole(r)
  <2>1. PICK o \in Org, u \in User, row \in Row, rec \in AuditRecord :
           /\ More(rec) /\ rec.action = "MEMBER_ROLE_CHANGED"
           /\ UNCHANGED orgState
           /\ RowSet(o, u, row) /\ row.role # "OWNER"
    BY <1>5, UpdateMemberRoleEffect DEF RecordIs
  <2>2. CommitsCustody(rec)
    BY <2>1 DEF CommitsCustody, RowSet, Owns, RoleOf
  <2> QED
    BY <2>2
<1>6. CASE TransferOwnership(r)
  <2> DEFINE o == args[r].org
             from == args[r].actor
             to == args[r].target
  <2>1. /\ o \in Org /\ from \in User /\ to \in User
        /\ members[o][from] \in Row /\ membership[r].role = "OWNER" /\ UNCHANGED orgState
        /\ \E demoted \in Row, promoted \in Row, rec \in AuditRecord :
              /\ More(rec)
              /\ RecordIs(rec, r, o, "OWNERSHIP_TRANSFERRED", seen[r].id, <<from, to>>)
              /\ demoted.role = "ADMIN" /\ promoted.role = "OWNER"
              /\ \A p \in Org, v \in User :
                   members'[p][v] = IF p = o /\ v = to THEN promoted
                                    ELSE IF p = o /\ v = from THEN demoted
                                    ELSE members[p][v]
    BY <1>6, TransferOwnershipEffect
  <2>2. orgState[o] = "live"
    BY <2>1, NoRowIsNoRow DEF IInv, NoOrphanMembership
  <2>3. Entitled(o, from)
    BY <1>6, <2>1, <2>2
       DEF CustodyInv, Underway, TransferOwnership, Committing, Running
  <2> HIDE DEF o, to
  <2>4. PICK demoted \in Row, promoted \in Row, rec \in AuditRecord :
              /\ More(rec)
              /\ RecordIs(rec, r, o, "OWNERSHIP_TRANSFERRED", seen[r].id, <<from, to>>)
              /\ demoted.role = "ADMIN" /\ promoted.role = "OWNER"
              /\ \A p \in Org, v \in User :
                   members'[p][v] = IF p = o /\ v = to THEN promoted
                                    ELSE IF p = o /\ v = from THEN demoted
                                    ELSE members[p][v]
    BY <2>1
  <2>5. CommitsCustody(rec)
    BY <2>1, <2>3, <2>4 DEF CommitsCustody, RecordIs, Hands, Owns, RoleOf
  <2> QED
    BY <2>5
<1>7. CASE RemoveMember(r) \/ LeaveOrganization(r)
  <2>1. PICK o \in Org, u \in User, rec \in AuditRecord :
           /\ More(rec) /\ rec.action \in {"MEMBER_REMOVED", "MEMBER_LEFT"}
           /\ UNCHANGED orgState
           /\ RowSet(o, u, NoRow)
    BY <1>7, RemoveMemberEffect, LeaveOrganizationEffect DEF RecordIs
  <2>2. CommitsCustody(rec)
    BY <2>1, NoRowOwnsNothing DEF CommitsCustody, RowSet, Owns, RoleOf
  <2> QED
    BY <2>2
<1> QED
  BY <1>1, <1>2, <1>3, <1>4, <1>5, <1>6, <1>7 DEF Commit

\* The chain of custody and what it rests on, after a commit.
LEMMA CustodyKept ==
  ASSUME IInv, IdsInv, IdsInv', CustodyInv, NEW r \in Request, Step(r), pc'[r] = "done",
         UNCHANGED origin, NEW rec \in AuditRecord, CommitsCustody(rec)
  PROVE  CustodyInv'
<1> DEFINE n == Len(audit) + 1
<1>1. /\ n \in Nat /\ n \notin DOMAIN audit /\ DOMAIN audit' = DOMAIN audit \cup {n}
      /\ audit'[n] = rec
      /\ \A i \in DOMAIN audit :
           /\ i \in Nat /\ i < n
           /\ audit'[i] = IF Unlinked(audit[i]) THEN [audit[i] EXCEPT !.org = NoOrg] ELSE audit[i]
  BY DEF CommitsCustody, More
<1>2. DOMAIN audit = 1..(n - 1) /\ \A i \in DOMAIN audit : audit[i] \in AuditRecord
  BY DEF IInv, TypeOK
<1> HIDE DEF n
<1>3. ASSUME NEW o \in Org, orgState'[o] = "live", NEW i \in DOMAIN audit, audit[i].org = o
      PROVE  audit'[i] = audit[i]
  BY <1>1, <1>3 DEF Unlinked
<1>4. ASSUME NEW o \in Org, orgState'[o] = "live", NEW u \in User, Entitled(o, u)
      PROVE  EntitledThen(o, u)
  BY <1>1, <1>3, <1>4 DEF Entitled, EntitledThen, Hands
<1>5. ASSUME NEW o \in Org, NEW u \in User, members'[o][u].role = "OWNER"
      PROVE  EntitledThen(o, u)
  <2>1. orgState'[o] = "live"
    BY <1>5, NextIInv, NoRowOwnsNothing DEF IInv, NoOrphanMembership, Next
  <2>2. CASE Hands(rec, o, u)
    BY <1>1, <2>2 DEF EntitledThen
  <2>3. CASE Owns(o, u)
    BY <1>4, <2>1, <2>3 DEF CustodyInv
  <2> QED
    BY <1>5, <2>2, <2>3 DEF CommitsCustody
<1>6. ASSUME NEW q \in Request, pc'[q] \in Running, args'[q].op # "CreateOrganization",
             membership'[q].role = "OWNER", orgState'[args'[q].org] = "live"
      PROVE  EntitledThen(args'[q].org, args'[q].actor)
  <2>1. q # r
    BY <1>6 DEF Running
  <2>2. pc'[q] = pc[q] /\ args'[q] = args[q] /\ membership'[q] = membership[q]
    BY <2>1, StepEffect
  <2>3. Underway(q) /\ args[q] \in Args
    BY <1>6, <2>2 DEF Underway, IInv, ChecksPassed
  <2>4. args[q].org \in Org /\ args[q].actor \in User
    BY <2>3, ArgsFields DEF Underway
  <2>5. orgState[args[q].org] = "live"
    BY <1>6, <2>2, <2>3, <2>4 DEF CommitsCustody, IdsInv, MemoryOK
  <2>6. Entitled(args[q].org, args[q].actor)
    BY <1>6, <2>2, <2>3, <2>5 DEF CustodyInv
  <2> QED
    BY <1>4, <1>6, <2>2, <2>4, <2>6
<1>7. ASSUME NEW i \in DOMAIN audit', audit'[i].action = "OWNERSHIP_TRANSFERRED",
             audit'[i].org # NoOrg
      PROVE  \/ origin[audit'[i].org][audit'[i].actor].role = "OWNER"
             \/ \E j \in 1..(i - 1) : Hands(audit'[j], audit'[i].org, audit'[i].actor)
  <2> DEFINE o == audit'[i].org
             u == audit'[i].actor
  <2>1. o \in Org /\ orgState'[o] = "live"
    <3>1. audit'[i] \in AuditRecord
      BY NextIInv DEF Next, IInv, TypeOK
    <3>2. audit'[i].org \in Org
      BY <1>7, <3>1 DEF AuditRecord
    <3> QED
      BY <1>7, <3>2 DEF IdsInv, LinksAlive
  <2>2. CASE i = n
    <3>1. Entitled(o, u)
      BY <1>1, <1>7, <2>2 DEF CommitsCustody
    <3>2. ASSUME NEW j \in DOMAIN audit, Hands(audit[j], o, u)
          PROVE  j \in 1..(i - 1) /\ Hands(audit'[j], o, u)
      BY <1>2, <1>3, <2>1, <2>2, <3>2 DEF Hands
    <3> QED
      BY <3>1, <3>2 DEF Entitled
  <2>3. CASE i \in DOMAIN audit
    <3>1. audit[i] \in AuditRecord /\ audit'[i] = audit[i]
      BY <1>1, <1>2, <1>7, <2>3 DEF AuditRecord
    <3>2. \/ origin[o][u].role = "OWNER"
          \/ \E j \in 1..(i - 1) : Hands(audit[j], o, u)
      BY <1>7, <2>3, <3>1 DEF CustodyInv, ChainOfCustody, Hands
    <3>3. ASSUME NEW j \in 1..(i - 1), Hands(audit[j], o, u)
          PROVE  Hands(audit'[j], o, u)
      <4>1. j \in DOMAIN audit
        BY <1>2, <2>3, <1>1
      <4> QED
        BY <1>3, <2>1, <3>3, <4>1 DEF Hands
    <3> QED
      BY <3>2, <3>3
  <2> QED
    BY <1>1, <1>7, <2>2, <2>3
<1>8. ChainOfCustody'
  BY <1>7 DEF ChainOfCustody, Hands
<1> QED
  BY <1>5, <1>6, <1>8 DEF CustodyInv, Underway, Owns, RoleOf, Entitled, EntitledThen, Hands

LEMMA NextCustody == IInv /\ IdsInv /\ CustodyInv /\ [Next]_vars => CustodyInv'
<1> SUFFICES ASSUME IInv, IdsInv, CustodyInv, [Next]_vars
             PROVE  CustodyInv'
  OBVIOUS
<1>1. CASE UNCHANGED vars
  BY <1>1 DEF vars, CustodyInv, ChainOfCustody, Owns, RoleOf, Entitled, Hands, Underway
<1>2. ASSUME NEW r \in Request, Step(r), Commit(r)
      PROVE  CustodyInv'
  <2>1. pc'[r] = "done" /\ UNCHANGED origin
    BY <1>2, CommitStep DEF Finish, IInv, TypeOK
  <2>2. PICK rec \in AuditRecord : CommitsCustody(rec)
    BY <1>2, CommitCustody
  <2>3. IdsInv'
    BY NextIds
  <2> QED
    BY <1>2, <2>1, <2>2, <2>3, CustodyKept
<1>3. ASSUME NEW r \in Request, Step(r), UNCHANGED db
      PROVE  CustodyInv'
  <2>1. ASSUME NEW q \in Request, pc'[q] \in Running, args'[q].op # "CreateOrganization",
               membership'[q].role = "OWNER", orgState'[args'[q].org] = "live"
        PROVE  Entitled(args'[q].org, args'[q].actor)
    <3>1. CASE q # r
      BY <1>3, <2>1, <3>1, StepEffect DEF CustodyInv, Underway, db
    <3>2. CASE q = r /\ Check(r)
      BY <1>3, <2>1, <3>2 DEF CustodyInv, Underway, db, Check, Running
    <3>3. CASE q = r /\ Guard(r)
      <4>1. PICK a \in Args :
              /\ a.op # "CreateOrganization" /\ Admitted(a)
              /\ args' = [args EXCEPT ![r] = a]
              /\ membership' = [membership EXCEPT ![r] = CallerRow(a)]
        BY <3>3 DEF Guard
      <4>2. args'[r] = a /\ membership'[r] = members[a.org][a.actor]
        BY <4>1 DEF IInv, TypeOK, CallerRow
      <4>3. a.org \in Org /\ a.actor \in User
        BY <4>1, ArgsFields
      <4> QED
        BY <2>1, <3>3, <4>2, <4>3 DEF CustodyInv, Owns, RoleOf
    <3>4. CASE q = r /\ Begin(r)
      BY <2>1, <3>4 DEF Begin, IInv, TypeOK
    <3>5. q # r \/ Begin(r) \/ Guard(r) \/ Check(r)
      BY <1>3, <2>1, StepEffect, CommitTells, CommitCustody DEF Running, CommitsCustody, More, db
    <3> QED
      BY <3>1, <3>2, <3>3, <3>4, <3>5
  <2> QED
    BY <1>3, <2>1 DEF CustodyInv, ChainOfCustody, Owns, RoleOf, Entitled, Hands, Underway, db
<1> QED
  BY <1>1, <1>2, <1>3, StepEffect DEF Next

LEMMA InitCustody == Init => CustodyInv
<1> SUFFICES ASSUME Init
             PROVE  CustodyInv
  OBVIOUS
<1>1. audit = <<>> /\ origin = members /\ DOMAIN audit = {}
  BY DEF Init
<1>2. \A r \in Request : pc[r] = "new"
  BY DEF Init
<1> QED
  BY <1>1, <1>2 DEF CustodyInv, ChainOfCustody, Owns, RoleOf, Entitled, Underway, Running

\* No sequence of role changes, removals and overlapping requests lets anyone
\* hand out OWNER who was not OWNER at the start, did not create the
\* organization and was never handed it.
THEOREM Custody == Spec => []ChainOfCustody
<1>1. IInv /\ IdsInv /\ CustodyInv /\ [Next]_vars => CustodyInv'
  BY NextCustody
<1>2. CustodyInv => ChainOfCustody
  BY DEF CustodyInv
<1> QED
  BY <1>1, <1>2, IdsInvariance, InitCustody, PTL DEF Spec

-----------------------------------------------------------------------------
(* The removals of organizations.                                          *)

Deletions(o) ==
  {i \in DOMAIN audit : audit[i].action = "ORGANIZATION_DELETED" /\ audit[i].entity = o}

DeletionsTold ==
  \A o \in Org : IF orgState[o] = "deleted" THEN \E i : Deletions(o) = {i}
                                            ELSE Deletions(o) = {}

DeletionsThen(o) ==
  {i \in DOMAIN audit' : audit'[i].action = "ORGANIZATION_DELETED" /\ audit'[i].entity = o}

\* What a commit's record is to deletions: it is of one, which it makes of an
\* organization that is there, or there is none.
CommitsDeletions(rec) ==
  /\ More(rec)
  /\ \/ /\ rec.action # "ORGANIZATION_DELETED"
        /\ \A o \in Org : orgState'[o] = "deleted" <=> orgState[o] = "deleted"
     \/ \E o \in Org : /\ rec.action = "ORGANIZATION_DELETED" /\ rec.entity = o
                       /\ orgState[o] # "deleted" /\ StateSet(o, "deleted")

LEMMA CommitDeletions ==
  ASSUME IInv, NEW r \in Request, Commit(r)
  PROVE  \E rec \in AuditRecord : CommitsDeletions(rec)
<1>1. CASE CreateOrganization(r)
  BY <1>1, CreateOrganizationEffect DEF CommitsDeletions, RecordIs, StateSet
<1>2. CASE UpdateOrganization(r)
  BY <1>2, UpdateOrganizationEffect DEF CommitsDeletions, RecordIs
<1>3. CASE RemoveOrganization(r)
  <2>1. PICK o \in Org, rec \in AuditRecord :
           /\ More(rec) /\ RecordIs(rec, r, NoOrg, "ORGANIZATION_DELETED", o, <<>>)
           /\ orgState[o] = "live" /\ StateSet(o, "deleted")
    BY <1>3, RemoveOrganizationEffect
  <2> QED
    BY <2>1 DEF CommitsDeletions, RecordIs
<1>4. ASSUME NEW rec \in AuditRecord, More(rec), rec.action \in MemberAction, UNCHANGED orgState
      PROVE  CommitsDeletions(rec)
  BY <1>4 DEF CommitsDeletions, MemberAction
<1>5. CASE CreateMember(r) \/ UpdateMemberRole(r) \/ TransferOwnership(r)
  BY <1>4, <1>5, CreateMemberEffect, UpdateMemberRoleEffect, TransferOwnershipEffect
     DEF RecordIs, MemberAction
<1>6. CASE RemoveMember(r) \/ LeaveOrganization(r)
  BY <1>4, <1>6, RemoveMemberEffect, LeaveOrganizationEffect DEF RecordIs, MemberAction
<1> QED
  BY <1>1, <1>2, <1>3, <1>5, <1>6 DEF Commit

LEMMA DeletionsKept ==
  ASSUME IInv, DeletionsTold, NEW rec \in AuditRecord, CommitsDeletions(rec), NEW o \in Org
  PROVE  IF orgState'[o] = "deleted" THEN \E i : DeletionsThen(o) = {i} ELSE DeletionsThen(o) = {}
<1> DEFINE n == Len(audit) + 1
           told == rec.action = "ORGANIZATION_DELETED" /\ rec.entity = o
<1>1. /\ n \notin DOMAIN audit /\ DOMAIN audit' = DOMAIN audit \cup {n} /\ audit'[n] = rec
      /\ \A i \in DOMAIN audit :
           audit'[i] = IF Unlinked(audit[i]) THEN [audit[i] EXCEPT !.org = NoOrg] ELSE audit[i]
  BY DEF CommitsDeletions, More
<1> HIDE DEF n
<1>2. ASSUME NEW i \in DOMAIN audit
      PROVE  audit'[i].action = audit[i].action /\ audit'[i].entity = audit[i].entity
  <2>1. audit[i] \in AuditRecord
    BY DEF IInv, TypeOK
  <2> QED
    BY <1>1, <2>1 DEF AuditRecord
<1>3. DeletionsThen(o) = IF told THEN Deletions(o) \cup {n} ELSE Deletions(o)
  BY <1>1, <1>2 DEF DeletionsThen, Deletions
<1>4. CASE told
  <2>1. orgState[o] # "deleted" /\ orgState'[o] = "deleted"
    BY <1>4 DEF CommitsDeletions, StateSet
  <2>2. Deletions(o) = {}
    BY <2>1 DEF DeletionsTold
  <2> QED
    BY <1>3, <1>4, <2>1, <2>2
<1>5. CASE ~told
  <2>1. orgState'[o] = "deleted" <=> orgState[o] = "deleted"
    BY <1>5 DEF CommitsDeletions, StateSet
  <2> QED
    BY <1>3, <1>5, <2>1 DEF DeletionsTold
<1> QED
  BY <1>4, <1>5

LEMMA NextDeletions == IInv /\ DeletionsTold /\ [Next]_vars => DeletionsTold'
<1> SUFFICES ASSUME IInv, DeletionsTold, [Next]_vars
             PROVE  DeletionsTold'
  OBVIOUS
<1>1. CASE UNCHANGED db
  BY <1>1 DEF db, DeletionsTold, Deletions
<1>2. ASSUME NEW r \in Request, Commit(r)
      PROVE  DeletionsTold'
  BY <1>2, CommitDeletions, DeletionsKept DEF DeletionsTold, Deletions, DeletionsThen
<1> QED
  BY <1>1, <1>2, StepEffect DEF Next, vars, db

\* Two removals of an organization that both passed their guards leave one
\* record of it; a removal is never unrecorded.
THEOREM DeletionsAreRecorded == Spec => []DeletionRecordedOnce
<1>1. Init => DeletionsTold
  <2> SUFFICES ASSUME Init
               PROVE  DeletionsTold
    OBVIOUS
  <2>1. \A o \in Org : orgState[o] # "deleted" /\ Deletions(o) = {}
    BY DEF Init, Deletions
  <2> QED
    BY <2>1 DEF DeletionsTold
<1>2. IInv /\ DeletionsTold /\ [Next]_vars => DeletionsTold'
  BY NextDeletions
<1>3. DeletionsTold => DeletionRecordedOnce
  BY FS_EmptySet, FS_Singleton DEF DeletionsTold, Deletions, DeletionRecordedOnce
<1> QED
  BY <1>1, <1>2, <1>3, Invariance, PTL DEF Spec

-----------------------------------------------------------------------------
(* Requests that come one at a time.                                       *)

\* Of requests that come one at a time, at most one is running, and what it has
\* read is still so.
Fresh(r) ==
  /\ Underway(r) => membership[r] = CallerRow(args[r])
  /\ pc[r] = "commit" /\ args[r].op \in TargetedOps => seen[r] = TargetRow(args[r])

AloneInv ==
  /\ alone \in BOOLEAN
  /\ alone => /\ \A q, r \in Request : pc[q] \in Running /\ pc[r] \in Running => q = r
              /\ \A r \in Request : Fresh(r)
              /\ ExactlyOneOwner
              /\ DeparturesRecorded
LEMMA FreshIsUpToDate ==
  ASSUME NEW r \in Request, pc[r] = "commit", Fresh(r)
  PROVE  UpToDate(r)
BY DEF Fresh, Underway, Running, UpToDate, Stale

\* A commit on rows that are as they were read leaves every organization, the
\* one it creates included, with one OWNER.
LEMMA OneOwnerKept ==
  ASSUME IInv, IInv', ExactlyOneOwner, NEW r \in Request, Commit(r), UpToDate(r),
         NEW p \in Org, orgState'[p] = "live"
  PROVE  OneOwner(p)'
<1>1. CASE orgState[p] = "live"
  BY <1>1, FreshCommit DEF ExactlyOneOwner
<1>2. CASE orgState[p] # "live"
  <2>1. \A v \in User : members[p][v] = NoRow
    BY <1>2 DEF IInv, NoOrphanMembership
  <2>2. CreateOrganization(r)
    <3>1. CASE RemoveOrganization(r)
      BY <1>2, <3>1, RemoveOrganizationEffect DEF StateSet
    <3>2. CASE ~RemoveOrganization(r) /\ ~CreateOrganization(r)
      <4>1. UNCHANGED orgState
        BY <3>2, UpdateOrganizationEffect, CreateMemberEffect, UpdateMemberRoleEffect,
           TransferOwnershipEffect, RemoveMemberEffect, LeaveOrganizationEffect DEF Commit
      <4> QED
        BY <1>2, <4>1
    <3> QED
      BY <3>1, <3>2
  <2>3. PICK o \in Org, row \in Row :
           /\ StateSet(o, "live") /\ args[r].actor \in User
           /\ RowSet(o, args[r].actor, row) /\ row.role = "OWNER"
    BY <2>2, CreateOrganizationEffect
  <2>4. p = o
    BY <1>2, <2>3 DEF StateSet
  <2>5. \A v \in User : members'[p][v].role = "OWNER" <=> v = args[r].actor
    BY <2>1, <2>3, <2>4, NoRowOwnsNothing DEF RowSet
  <2> QED
    BY <2>3, <2>5 DEF OneOwner, Owns, RoleOf
<1> QED
  BY <1>1, <1>2

\* Such a commit names the row that it removes and the one that it adds.
CommitsDepartures(rec) ==
  /\ More(rec)
  /\ \A o \in Org : orgState'[o] = "live" => orgState[o] \in {"unborn", "live"}
  /\ \A o \in Org, u \in User :
       orgState'[o] = "live" /\ orgState[o] = "live" /\ members[o][u] # NoRow =>
         \/ members'[o][u].id = members[o][u].id
         \/ Departure(rec, o, members[o][u].id)
  /\ rec.action = "MEMBER_ADDED" =>
       /\ orgState[rec.org] = "live"
       /\ \E u \in User : members'[rec.org][u].id = rec.entity

LEMMA CommitDepartures ==
  ASSUME IInv, NEW r \in Request, Commit(r), UpToDate(r)
  PROVE  \E rec \in AuditRecord : CommitsDepartures(rec)
<1>1. CASE CreateOrganization(r)
  <2>1. PICK o \in Org, row \in Row, rec \in AuditRecord :
           /\ More(rec) /\ RecordIs(rec, r, o, "ORGANIZATION_CREATED", o, <<>>)
           /\ orgState[o] = "unborn" /\ StateSet(o, "live")
           /\ RowSet(o, args[r].actor, row)
    BY <1>1, CreateOrganizationEffect
  <2>2. CommitsDepartures(rec)
    BY <2>1 DEF CommitsDepartures, RecordIs, StateSet, RowSet
  <2> QED
    BY <2>2
<1>2. CASE UpdateOrganization(r)
  <2>1. PICK rec \in AuditRecord :
           /\ More(rec) /\ rec.action = "ORGANIZATION_UPDATED"
           /\ UNCHANGED <<orgState, members>>
    BY <1>2, UpdateOrganizationEffect DEF RecordIs
  <2>2. CommitsDepartures(rec)
    BY <2>1 DEF CommitsDepartures
  <2> QED
    BY <2>2
<1>3. CASE RemoveOrganization(r)
  <2>1. PICK o \in Org, rec \in AuditRecord :
           /\ More(rec) /\ RecordIs(rec, r, NoOrg, "ORGANIZATION_DELETED", o, <<>>)
           /\ orgState[o] = "live" /\ StateSet(o, "deleted")
           /\ \A p \in Org, v \in User :
                members'[p][v] = IF p = o THEN NoRow ELSE members[p][v]
    BY <1>3, RemoveOrganizationEffect
  <2>2. CommitsDepartures(rec)
    BY <2>1 DEF CommitsDepartures, RecordIs, StateSet
  <2> QED
    BY <2>2
<1>4. CASE CreateMember(r)
  <2>1. PICK o \in Org, u \in User, row \in Row, rec \in AuditRecord :
           /\ More(rec) /\ RecordIs(rec, r, o, "MEMBER_ADDED", r, <<>>)
           /\ orgState[o] = "live" /\ UNCHANGED orgState
           /\ members[o][u] = NoRow
           /\ RowSet(o, u, row) /\ row.id = r /\ row.role = "VIEWER"
    BY <1>4, CreateMemberEffect
  <2>2. CommitsDepartures(rec)
    BY <2>1 DEF CommitsDepartures, RecordIs, RowSet
  <2> QED
    BY <2>2
<1>5. CASE UpdateMemberRole(r)
  <2>1. PICK o \in Org, u \in User, row \in Row, rec \in AuditRecord :
           /\ More(rec) /\ rec.action = "MEMBER_ROLE_CHANGED"
           /\ UNCHANGED orgState
           /\ RowSet(o, u, row) /\ row.id = members[o][u].id
    BY <1>5, UpdateMemberRoleEffect DEF RecordIs
  <2>2. CommitsDepartures(rec)
    BY <2>1 DEF CommitsDepartures, RowSet
  <2> QED
    BY <2>2
<1>6. CASE TransferOwnership(r)
  <2> DEFINE o == args[r].org
             from == args[r].actor
             to == args[r].target
  <2>1. /\ o \in Org /\ from \in User /\ to \in User /\ UNCHANGED orgState
        /\ \E demoted \in Row, promoted \in Row, rec \in AuditRecord :
              /\ More(rec)
              /\ RecordIs(rec, r, o, "OWNERSHIP_TRANSFERRED", seen[r].id, <<from, to>>)
              /\ demoted.id = members[o][from].id
              /\ promoted.id = members[o][to].id
              /\ \A p \in Org, v \in User :
                   members'[p][v] = IF p = o /\ v = to THEN promoted
                                    ELSE IF p = o /\ v = from THEN demoted
                                    ELSE members[p][v]
    BY <1>6, TransferOwnershipEffect
  <2> HIDE DEF o, from, to
  <2>2. PICK demoted \in Row, promoted \in Row, rec \in AuditRecord :
              /\ More(rec)
              /\ RecordIs(rec, r, o, "OWNERSHIP_TRANSFERRED", seen[r].id, <<from, to>>)
              /\ demoted.id = members[o][from].id
              /\ promoted.id = members[o][to].id
              /\ \A p \in Org, v \in User :
                   members'[p][v] = IF p = o /\ v = to THEN promoted
                                    ELSE IF p = o /\ v = from THEN demoted
                                    ELSE members[p][v]
    BY <2>1
  <2>3. CommitsDepartures(rec)
    BY <2>1, <2>2 DEF CommitsDepartures, RecordIs
  <2> QED
    BY <2>3
<1>7. CASE RemoveMember(r) \/ LeaveOrganization(r)
  <2>1. PICK o \in Org, u \in User, rec \in AuditRecord :
           /\ More(rec)
           /\ rec.org = o /\ rec.action \in {"MEMBER_REMOVED", "MEMBER_LEFT"}
           /\ rec.entity = members[o][u].id
           /\ UNCHANGED orgState
           /\ RowSet(o, u, NoRow)
    BY <1>7, RemoveMemberEffect, LeaveOrganizationEffect
       DEF RecordIs, UpToDate, Stale, CallerRow, TargetRow, TargetedOps
  <2>2. CommitsDepartures(rec)
    BY <2>1 DEF CommitsDepartures, RowSet, Departure
  <2> QED
    BY <2>2
<1> QED
  BY <1>1, <1>2, <1>3, <1>4, <1>5, <1>6, <1>7 DEF Commit

\* The ids of the rows that o is known to have had.
KnownRow(o, id) ==
  \/ \E u \in User : id = origin[o][u].id
  \/ \E i \in DOMAIN audit : /\ audit[i].org = o /\ audit[i].action = "MEMBER_ADDED"
                             /\ id = audit[i].entity
KnownRowThen(o, id) ==
  \/ \E u \in User : id = origin'[o][u].id
  \/ \E i \in DOMAIN audit' : /\ audit'[i].org = o /\ audit'[i].action = "MEMBER_ADDED"
                              /\ id = audit'[i].entity

AccountedFor(o, id) ==
  \/ id = NoId
  \/ \E u \in User : members[o][u].id = id
  \/ \E i \in DOMAIN audit : Departure(audit[i], o, id)
AccountedThen(o, id) ==
  \/ id = NoId
  \/ \E u \in User : members'[o][u].id = id
  \/ \E i \in DOMAIN audit' : Departure(audit'[i], o, id)

LEMMA DeparturesKept ==
  ASSUME IInv, IdsInv, DeparturesRecorded, UNCHANGED origin,
         NEW rec \in AuditRecord, CommitsDepartures(rec),
         NEW o \in Org, orgState'[o] = "live", NEW id, KnownRowThen(o, id)
  PROVE  AccountedThen(o, id)
<1> DEFINE n == Len(audit) + 1
<1>1. /\ n \notin DOMAIN audit /\ DOMAIN audit' = DOMAIN audit \cup {n} /\ audit'[n] = rec
      /\ \A i \in DOMAIN audit :
           audit'[i] = IF Unlinked(audit[i]) THEN [audit[i] EXCEPT !.org = NoOrg] ELSE audit[i]
  BY DEF CommitsDepartures, More
<1>2. \A i \in DOMAIN audit : audit[i] \in AuditRecord
  BY DEF IInv, TypeOK
<1> HIDE DEF n
<1>3. ASSUME NEW i \in DOMAIN audit, audit[i].org = o \/ audit'[i].org = o
      PROVE  audit'[i] = audit[i]
  BY <1>1, <1>2, <1>3, MembershipAssumption DEF Unlinked, AuditRecord
<1>4. CASE rec.org = o /\ rec.action = "MEMBER_ADDED" /\ id = rec.entity
  BY <1>4 DEF CommitsDepartures, AccountedThen
<1>5. CASE KnownRow(o, id)
  <2>1. CASE orgState[o] = "live"
    <3>1. AccountedFor(o, id)
      BY <1>5, <2>1 DEF KnownRow, AccountedFor, DeparturesRecorded
    <3>2. ASSUME NEW u \in User, members[o][u].id = id, id # NoId
          PROVE  AccountedThen(o, id)
      <4>1. members[o][u] # NoRow
        BY <3>2 DEF NoRow
      <4> QED
        BY <1>1, <2>1, <3>2, <4>1 DEF CommitsDepartures, AccountedThen
    <3>3. ASSUME NEW i \in DOMAIN audit, Departure(audit[i], o, id)
          PROVE  AccountedThen(o, id)
      BY <1>1, <1>3, <3>3 DEF AccountedThen, Departure
    <3> QED
      BY <3>1, <3>2, <3>3 DEF AccountedFor, AccountedThen
  <2>2. CASE orgState[o] = "unborn"
    <3>1. \A u \in User : origin[o][u] = NoRow
      BY <2>2 DEF IdsInv, OriginsAlive
    <3>2. \A i \in DOMAIN audit : audit[i].org # o
      BY <2>2, MembershipAssumption DEF IdsInv, LinksAlive
    <3> QED
      BY <1>5, <3>1, <3>2 DEF KnownRow, AccountedThen, NoRow
  <2> QED
    BY <2>1, <2>2 DEF CommitsDepartures
<1> QED
  BY <1>1, <1>3, <1>4, <1>5 DEF KnownRow, KnownRowThen

\* A step that makes no request overlap another: who takes it is the only one
\* that runs, before and after.
LEMMA AloneStep ==
  ASSUME IInv, AloneInv, AloneNext, alone'
  PROVE  alone /\ \E r \in Request : /\ Step(r) /\ Fresh(r)
                                     /\ \A q \in Request \ {r} : pc[q] \notin Running
<1>1. PICK r \in Request : Step(r)
  BY DEF AloneNext, Next
<1>2. alone
  BY DEF AloneNext, AloneInv
<1>3. pc'[r] # pc[r]
  BY <1>1, StepEffect
<1>4. \A q \in Request \ {r} : pc[q] \notin Running
  BY <1>3 DEF AloneNext
<1> QED
  BY <1>1, <1>2, <1>4 DEF AloneInv

LEMMA FreshKept ==
  ASSUME IInv, NEW r \in Request, Step(r), Fresh(r),
         \A q \in Request \ {r} : pc[q] \notin Running
  PROVE  /\ \A q \in Request : Fresh(q)'
         /\ \A p, q \in Request : pc'[p] \in Running /\ pc'[q] \in Running => p = q
<1>1. \A q \in Request \ {r} : pc'[q] = pc[q]
  BY StepEffect
<1>2. \A p, q \in Request : pc'[p] \in Running /\ pc'[q] \in Running => p = q
  BY <1>1
<1>3. ASSUME NEW q \in Request \ {r}
      PROVE  Fresh(q)'
  <2>1. pc'[q] \notin Running
    BY <1>1
  <2> QED
    BY <2>1 DEF Fresh, Underway, Running
<1>4. Fresh(r)'
  <2>1. CASE pc'[r] \in Ended
    BY <2>1 DEF Fresh, Underway, Running, Ended
  <2>2. CASE Begin(r)
    <3>1. args'[r].op = "CreateOrganization"
      BY <2>2 DEF Begin, IInv, TypeOK
    <3> QED
      BY <3>1 DEF Fresh, Underway, TargetedOps
  <2>3. CASE Guard(r)
    <3>1. PICK a \in Args :
            /\ args' = [args EXCEPT ![r] = a]
            /\ membership' = [membership EXCEPT ![r] = CallerRow(a)]
            /\ pc' = [pc EXCEPT ![r] = IF a.op \in TargetedOps THEN "read" ELSE "commit"]
      BY <2>3 DEF Guard
    <3>2. args'[r] = a /\ membership'[r] = members'[a.org][a.actor]
      BY <2>3, <3>1 DEF IInv, TypeOK, CallerRow, Guard, db
    <3>3. pc'[r] = "commit" => a.op \notin TargetedOps
      BY <3>1 DEF IInv, TypeOK
    <3> QED
      BY <3>2, <3>3 DEF Fresh, CallerRow
  <2>4. CASE Check(r)
    <3>1. /\ pc[r] = "read" /\ UNCHANGED <<db, args, membership>>
          /\ seen'[r] = members'[args'[r].org][args'[r].target]
      BY <2>4 DEF Check, IInv, TypeOK, TargetRow, db
    <3>2. args[r].op # "CreateOrganization" => membership[r] = members[args[r].org][args[r].actor]
      BY <3>1 DEF Fresh, Underway, Running, CallerRow
    <3> QED
      BY <3>1, <3>2 DEF Fresh, Underway, CallerRow, TargetRow, db
  <2> QED
    BY <2>1, <2>2, <2>3, <2>4, StepEffect DEF Ended
<1> QED
  BY <1>2, <1>3, <1>4

LEMMA AloneKept ==
  ASSUME IInv, IInv', IdsInv, AloneInv, AloneNext, alone'
  PROVE  /\ ExactlyOneOwner'
         /\ DeparturesRecorded'
<1>1. PICK r \in Request : Step(r) /\ Fresh(r)
  BY AloneStep
<1>2. ExactlyOneOwner /\ DeparturesRecorded
  BY AloneStep DEF AloneInv
<1>3. CASE UNCHANGED db
  BY <1>2, <1>3 DEF db, ExactlyOneOwner, OneOwner, Owns, RoleOf, DeparturesRecorded, Departure
<1>4. CASE Commit(r)
  <2>1. UpToDate(r) /\ UNCHANGED origin
    BY <1>1, <1>4, CommitStep, FreshIsUpToDate
  <2>2. ExactlyOneOwner'
    BY <1>2, <1>4, <2>1, OneOwnerKept DEF ExactlyOneOwner
  <2>3. PICK rec \in AuditRecord : CommitsDepartures(rec)
    BY <1>4, <2>1, CommitDepartures
  <2>4. \A o \in Org : orgState'[o] = "live" =>
          \A id : KnownRowThen(o, id) => AccountedThen(o, id)
    BY <1>2, <2>1, <2>3, DeparturesKept
  <2>5. DeparturesRecorded'
    BY <2>4 DEF DeparturesRecorded, KnownRowThen, AccountedThen, Departure
  <2> QED
    BY <2>2, <2>5
<1> QED
  BY <1>1, <1>3, <1>4, StepEffect

LEMMA NextAlone == IInv /\ IdsInv /\ AloneInv /\ [AloneNext]_<<vars, alone>> => AloneInv'
<1> SUFFICES ASSUME IInv, IdsInv, AloneInv, [AloneNext]_<<vars, alone>>
             PROVE  AloneInv'
  OBVIOUS
<1>1. CASE UNCHANGED <<vars, alone>>
  BY <1>1 DEF vars, AloneInv, Fresh, Underway, CallerRow, TargetRow, ExactlyOneOwner, OneOwner,
              Owns, RoleOf, DeparturesRecorded, Departure
<1>2. CASE AloneNext
  <2>1. alone' \in BOOLEAN
    BY <1>2 DEF AloneNext, AloneInv
  <2>2. CASE alone'
    <3>1. IInv'
      BY <1>2, NextIInv DEF AloneNext
    <3>2. ExactlyOneOwner' /\ DeparturesRecorded'
      BY <1>2, <2>2, <3>1, AloneKept
    <3>3. /\ \A q \in Request : Fresh(q)'
          /\ \A p, q \in Request : pc'[p] \in Running /\ pc'[q] \in Running => p = q
      BY <1>2, <2>2, AloneStep, FreshKept
    <3> QED
      BY <2>1, <3>2, <3>3 DEF AloneInv
  <2> QED
    BY <2>1, <2>2 DEF AloneInv
<1> QED
  BY <1>1, <1>2

LEMMA InitAlone == AloneInit => AloneInv
<1> SUFFICES ASSUME AloneInit
             PROVE  AloneInv
  OBVIOUS
<1>1. Init /\ alone = TRUE
  BY DEF AloneInit
<1>2. \A r \in Request : pc[r] = "new"
  BY <1>1 DEF Init
<1>3. ExactlyOneOwner
  BY <1>1 DEF Init, ExactlyOneOwner
<1>4. origin = members /\ DOMAIN audit = {}
  BY <1>1 DEF Init
<1>5. DeparturesRecorded
  BY <1>4 DEF DeparturesRecorded
<1> QED
  BY <1>1, <1>2, <1>3, <1>5 DEF AloneInv, Fresh, Underway, Running

LEMMA AloneInvariance == AloneSpec => [](IInv /\ IdsInv /\ AloneInv)
<1>1. AloneInit => IInv /\ IdsInv /\ AloneInv
  BY InitIInv, InitIds, InitAlone DEF AloneInit
<1>2. [AloneNext]_<<vars, alone>> => [Next]_vars
  BY DEF AloneNext
<1>3. IInv /\ IdsInv /\ AloneInv /\ [AloneNext]_<<vars, alone>> => (IInv /\ IdsInv /\ AloneInv)'
  BY <1>2, NextIInv, NextIds, NextAlone
<1> QED
  BY <1>1, <1>3, PTL DEF AloneSpec

\* docs/business-rules.md:15-17.  As long as requests come one at a time, every
\* live organization has exactly one OWNER.
THEOREM OneOwnerAlone == AloneSpec => []ExactlyOneOwnerAlone
<1>1. AloneInv => ExactlyOneOwnerAlone
  BY DEF AloneInv, ExactlyOneOwnerAlone
<1> QED
  BY <1>1, AloneInvariance, PTL

\* As long as requests come one at a time, every row that was ever there is
\* there or is named by a record of its removal.
THEOREM DeparturesAreRecordedAlone == AloneSpec => []DeparturesRecordedAlone
<1>1. AloneInv => DeparturesRecordedAlone
  BY DEF AloneInv, DeparturesRecordedAlone
<1> QED
  BY <1>1, AloneInvariance, PTL

\* As long as requests come one at a time, each change of roles is the one its
\* service means to make.
THEOREM ImplementsStrictly == AloneSpec => StrictTableAlone
<1>1. IInv /\ AloneInv /\ [AloneNext]_<<vars, alone>> =>
        [alone' /\ StrictTable!table' # StrictTable!table => StrictTable!ANext]_<<vars, alone>>
  <2> SUFFICES ASSUME IInv, AloneInv, AloneNext, alone',
                      StrictTable!table' # StrictTable!table
               PROVE  StrictTable!ANext
    OBVIOUS
  <2>1. PICK r \in Request : Step(r) /\ Fresh(r)
    BY AloneStep
  <2>2. ~UNCHANGED <<orgState, members>>
    BY DEF StrictTable!table, RoleOf
  <2>3. Commit(r) /\ UpToDate(r)
    BY <2>1, <2>2, StepEffect, CommitStep, FreshIsUpToDate DEF db
  <2> QED
    BY <2>2, <2>3, CreateIsFound, RemoveIsDissolve, CreateMemberIsEnroll,
       UpdateMemberRoleIsRegrade, TransferIsHandover, DepartureIsStrike
       DEF Commit, UpdateOrganization
<1> QED
  BY <1>1, AloneInvariance, PTL DEF AloneSpec, StrictTableAlone
=============================================================================
