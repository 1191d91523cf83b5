-------------------------------- MODULE Tasks --------------------------------
(***************************************************************************)
(* Tasks, who they are assigned to, their status and priority, and what    *)
(* the audit log tells of them.                                            *)
(*                                                                         *)
(* A request passes TaskGuard or BoardGuard, reads either the task or the  *)
(* membership of the user it names, and commits one transaction that       *)
(* writes the task by its id and adds an audit record.  Each read is a     *)
(* step of its own.  A transaction that locks the task's row before it     *)
(* adds its record is one step; the removal of a task adds its record      *)
(* first and is two.  Meanwhile members come and go, as the table of roles *)
(* in Ownership allows with Strict FALSE, which is what Membership         *)
(* implements; boards are removed, alone or with their project; and        *)
(* organizations are removed with everything in them.                      *)
(*                                                                         *)
(* A task is named by the request that creates it.  Titles, texts, dates   *)
(* and hours are left out: nothing depends on them.                        *)
(***************************************************************************)
EXTENDS Integers, Sequences, FiniteSets, Access

CONSTANTS User, Org,
          Board,
          OrgOf,    \* the organization of each board, through its project
          Request,
          Old,      \* tasks there are from the beginning
          Status, Priority, \* values of TaskStatus and of TaskPriority
          MaxMoves, \* bound on the changes to members, boards and organizations
          Null      \* no user, organization, board or task

ASSUME TasksAssumption ==
  /\ OrgOf \in [Board -> Org]
  /\ Request \cap Old = {}
  /\ "TODO" \in Status /\ "MEDIUM" \in Priority
  /\ Status \cap Priority = {} /\ User \cap (Status \cup Priority) = {}
  /\ MaxMoves \in Nat
  /\ Null \notin User \cup Org \cup Board \cup Request \cup Old \cup Status \cup Priority

VARIABLES
  state,  \* whether an organization is yet to be founded, live or deleted
  role,   \* the role of each user in each organization
  boards, \* the Board rows
  tasks,  \* the Task rows
  audit,  \* what was inserted into AuditLog about tasks, by createdAt
  pc,     \* what each request does next
  args,   \* its endpoint and parameters
  org,    \* request.resourceOrganizationId, which its guard found
  seen,   \* the task row its service found
  met,    \* history: who has been in a request's organization since its guard
  moves   \* how many changes to members, boards and organizations there were

db == <<state, role, boards, tasks, audit, moves>>
vars == <<state, role, boards, tasks, audit, moves, pc, args, org, seen, met>>

Table == INSTANCE Ownership WITH Strict <- FALSE

-----------------------------------------------------------------------------

Task == Old \cup Request

Row == [board : Board, status : Status, priority : Priority,
        assignedTo : User \cup {Null}]
NoTask == [board |-> Null, status |-> Null, priority |-> Null, assignedTo |-> Null]

FieldOp == {"UpdateStatus", "UpdatePriority"}
FoundOp == FieldOp \cup {"UpdateTask", "RemoveTask", "RemoveAssignee"}
Op == FoundOp \cup {"CreateTask", "AssignTask"}

\* The roles that every endpoint which changes a task requires.
Editor == {"OWNER", "ADMIN", "MEMBER"}

\* The values a request may ask for.
Wanted(op) ==
  CASE op = "CreateTask" -> User \cup {Null}
    [] op = "AssignTask" -> User
    [] op = "UpdateStatus" -> Status
    [] op = "UpdatePriority" -> Priority
    [] OTHER -> {Null}

\* on is the board of a task to be created, else the task.
Args ==
  {a \in [op : Op, on : Board \cup Task,
          to : User \cup Status \cup Priority \cup {Null}] :
     /\ a.on \in IF a.op = "CreateTask" THEN Board ELSE Task
     /\ a.to \in Wanted(a.op)}
NoArgs == [op |-> "none", on |-> Null, to |-> Null]

Action ==
  {"TASK_CREATED", "TASK_UPDATED", "TASK_DELETED", "TASK_ASSIGNED",
   "TASK_UNASSIGNED", "TASK_STATUS_CHANGED", "TASK_PRIORITY_CHANGED"}

\* from and to are the metadata: the previous and the new value, or the user
\* a task was assigned to.  by is the request whose transaction inserts it.
AuditRecord ==
  [action : Action, task : Task, from : Status \cup Priority \cup {Null},
   to : User \cup Status \cup Priority \cup {Null}, by : Request]

Running == {"validate", "find", "commit", "delete"}

TypeOK ==
  /\ Table!ATypeOK
  /\ boards \subseteq Board
  /\ tasks \in [Task -> Row \cup {NoTask}]
  /\ audit \in Seq(AuditRecord)
  /\ pc \in [Request -> {"new", "done", "rejected"} \cup Running]
  /\ args \in [Request -> Args \cup {NoArgs}]
  /\ org \in [Request -> Org \cup {Null}]
  /\ seen \in [Request -> Row \cup {NoTask}]
  /\ met \in [Request -> SUBSET User]
  /\ moves \in 0..MaxMoves

Exists(t) == tasks[t] # NoTask

\* The organization a request is about.
Home(a) == OrgOf[IF a.op = "CreateTask" THEN a.on ELSE tasks[a.on].board]
BelongsTo(o, u) == role[o][u] # NoRole
MembersOf(o, roles) == {u \in User : roles[o][u] # NoRole}

Init ==
  /\ Table!AInit
  /\ boards = {b \in Board : state[OrgOf[b]] = "live"}
  /\ \E f \in [Old -> boards] :
       tasks = [t \in Task |->
                  IF t \in Old
                    THEN [board |-> f[t], status |-> "TODO",
                          priority |-> "MEDIUM", assignedTo |-> Null]
                    ELSE NoTask]
  /\ audit = << >>
  /\ pc = [r \in Request |-> "new"]
  /\ args = [r \in Request |-> NoArgs]
  /\ org = [r \in Request |-> Null]
  /\ seen = [r \in Request |-> NoTask]
  /\ met = [r \in Request |-> {}]
  /\ moves = 0

Goto(r, label) == pc' = [pc EXCEPT ![r] = label]

\* The request is answered, and what it knew is forgotten.
Finish(r, outcome) ==
  /\ Goto(r, outcome)
  /\ args' = [args EXCEPT ![r] = NoArgs]
  /\ org' = [org EXCEPT ![r] = Null]
  /\ seen' = [seen EXCEPT ![r] = NoTask]
  /\ met' = [met EXCEPT ![r] = {}]

-----------------------------------------------------------------------------
(* Before the transaction.                                                 *)

\* BoardGuard and TaskGuard: the board or task is found, and then the caller's
\* membership in its organization, which no step tells apart.  RolesGuard: and
\* his role will do.
Admitted(a) ==
  /\ IF a.op = "CreateTask" THEN a.on \in boards ELSE Exists(a.on)
  /\ \E caller \in User : role[Home(a)][caller] \in Editor

\* Mutant: a new task's assignee is not looked up.
FirstReadTrusting(a) ==
  CASE a.op = "AssignTask" -> "validate"
    [] a.op = "CreateTask" -> "commit"
    [] OTHER -> "find"

\* What a service does first.
FirstRead(a) ==
  CASE a.op = "AssignTask" \/ (a.op = "CreateTask" /\ a.to # Null) -> "validate"
    [] a.op = "CreateTask" /\ a.to = Null -> "commit"
    [] OTHER -> "find"

\* The guards of a request let it through.
Begin(r) ==
  /\ pc[r] = "new"
  /\ \E a \in Args :
       /\ Admitted(a)
       /\ args' = [args EXCEPT ![r] = a]
       /\ org' = [org EXCEPT ![r] = Home(a)]
       /\ met' = [met EXCEPT ![r] = MembersOf(Home(a), role)]
       /\ Goto(r, FirstRead(a))
  /\ UNCHANGED <<db, seen>>

\* validateAssignee finds a membership.
Validate(r) ==
  /\ pc[r] = "validate"
  /\ BelongsTo(org[r], args[r].to)
  /\ Goto(r, "commit")
  /\ UNCHANGED <<db, args, org, seen, met>>

\* The service's findFirst finds the task.
Find(r) ==
  /\ pc[r] = "find"
  /\ Exists(args[r].on)
  /\ seen' = [seen EXCEPT ![r] = tasks[args[r].on]]
  /\ Goto(r, "commit")
  /\ UNCHANGED <<db, args, org, met>>

\* A guard refuses, or what the service reads first is not there.
Refuse(r) ==
  /\ \/ pc[r] = "new"
     \/ pc[r] = "validate" /\ ~BelongsTo(org[r], args[r].to)
     \/ pc[r] = "find" /\ ~Exists(args[r].on)
  /\ Finish(r, "rejected")
  /\ UNCHANGED db

-----------------------------------------------------------------------------
(* The transactions.                                                       *)

Log(r, action, t, from, to) ==
  audit' = Append(audit, [action |-> action, task |-> t, from |-> from, to |-> to, by |-> r])

Write(t, row) == tasks' = [tasks EXCEPT ![t] = row]

\* Mutant: upsert for update.
PresentUnchecked(r) == TRUE

\* The task that r is about is still there; update and delete raise P2025 if
\* it is not.
Present(r) == Exists(args[r].on)

Ready(r, op) ==
  /\ pc[r] = "commit"
  /\ args[r].op = op

\* The rest of a transaction that commits.
Commit(r) ==
  /\ Finish(r, "done")
  /\ UNCHANGED <<state, role, boards, moves>>

\* Mutant: the board is not a foreign key.
CreateTaskAnywhere(r) ==
  /\ Ready(r, "CreateTask")
  /\ \E p \in Priority :
       Write(r, [board |-> args[r].on, status |-> "TODO", priority |-> p,
                 assignedTo |-> args[r].to])
  /\ Log(r, "TASK_CREATED", r, Null, Null)
  /\ Commit(r)

\* The board is a foreign key.  The caller may name a priority.
CreateTask(r) ==
  /\ Ready(r, "CreateTask")
  /\ args[r].on \in boards
  /\ \E p \in Priority :
       Write(r, [board |-> args[r].on, status |-> "TODO", priority |-> p,
                 assignedTo |-> args[r].to])
  /\ Log(r, "TASK_CREATED", r, Null, Null)
  /\ Commit(r)

\* Mutant: updateMany, which finds nothing to update and succeeds.
UpdateTaskIfAny(r) ==
  /\ Ready(r, "UpdateTask")
  /\ Log(r, "TASK_UPDATED", args[r].on, Null, Null)
  /\ UNCHANGED tasks
  /\ Commit(r)

\* Titles, texts, dates and hours are left out of the row.
UpdateTask(r) ==
  /\ Ready(r, "UpdateTask")
  /\ Present(r)
  /\ Log(r, "TASK_UPDATED", args[r].on, Null, Null)
  /\ UNCHANGED tasks
  /\ Commit(r)

\* The record of a removal comes first, while the row is not locked: whoever
\* writes the task before it is deleted is told of after its removal.  The
\* organization is a foreign key of the record.
RecordRemoval(r) ==
  /\ Ready(r, "RemoveTask")
  /\ state[org[r]] = "live"
  /\ Log(r, "TASK_DELETED", args[r].on, Null, Null)
  /\ Goto(r, "delete")
  /\ UNCHANGED <<state, role, boards, tasks, moves, args, org, seen, met>>

\* Mutant: deleteMany, which finds nothing to delete and succeeds.
RemoveTaskIfAny(r) ==
  /\ pc[r] = "delete"
  /\ Write(args[r].on, NoTask)
  /\ UNCHANGED audit
  /\ Commit(r)

RemoveTask(r) ==
  /\ pc[r] = "delete"
  /\ Present(r)
  /\ Write(args[r].on, NoTask)
  /\ UNCHANGED audit
  /\ Commit(r)

AssignTask(r) ==
  /\ Ready(r, "AssignTask")
  /\ Present(r)
  /\ Write(args[r].on, [tasks[args[r].on] EXCEPT !.assignedTo = args[r].to])
  /\ Log(r, "TASK_ASSIGNED", args[r].on, Null, args[r].to)
  /\ Commit(r)

\* Mutant: as for a status, no record when the row read had no assignee.
RemoveAssigneeQuietly(r) ==
  /\ Ready(r, "RemoveAssignee")
  /\ Present(r)
  /\ Write(args[r].on, [tasks[args[r].on] EXCEPT !.assignedTo = Null])
  /\ IF seen[r].assignedTo = Null
       THEN UNCHANGED audit
       ELSE Log(r, "TASK_UNASSIGNED", args[r].on, Null, Null)
  /\ Commit(r)

RemoveAssignee(r) ==
  /\ Ready(r, "RemoveAssignee")
  /\ Present(r)
  /\ Write(args[r].on, [tasks[args[r].on] EXCEPT !.assignedTo = Null])
  /\ Log(r, "TASK_UNASSIGNED", args[r].on, Null, Null)
  /\ Commit(r)

\* Mutant: the previous and the new value are swapped.
SetFieldSwapped(r, field, action) ==
  /\ Present(r)
  /\ Write(args[r].on, [tasks[args[r].on] EXCEPT ![field] = args[r].to])
  /\ IF seen[r][field] = args[r].to
       THEN UNCHANGED audit
       ELSE Log(r, action, args[r].on, args[r].to, seen[r][field])
  /\ Commit(r)

\* The record tells the value that was read before the transaction, and there
\* is none when that is the value asked for.
SetField(r, field, action) ==
  /\ Present(r)
  /\ Write(args[r].on, [tasks[args[r].on] EXCEPT ![field] = args[r].to])
  /\ IF seen[r][field] = args[r].to
       THEN UNCHANGED audit
       ELSE Log(r, action, args[r].on, seen[r][field], args[r].to)
  /\ Commit(r)

UpdateStatus(r) ==
  /\ Ready(r, "UpdateStatus")
  /\ SetField(r, "status", "TASK_STATUS_CHANGED")

UpdatePriority(r) ==
  /\ Ready(r, "UpdatePriority")
  /\ SetField(r, "priority", "TASK_PRIORITY_CHANGED")

\* The board, the organization or the task has gone since it was found.
Gone(r) ==
  /\ \/ Ready(r, "CreateTask") /\ args[r].on \notin boards
     \/ Ready(r, "RemoveTask") /\ state[org[r]] # "live"
     \/ pc[r] = "commit" /\ args[r].op \notin {"CreateTask", "RemoveTask"} /\ ~Present(r)
     \/ pc[r] = "delete" /\ ~Present(r)
  /\ Finish(r, "rejected")
  /\ UNCHANGED db

\* A statement fails, Postgres aborts the transaction or the process dies.  A
\* record that was inserted is never committed.
Fail(r) ==
  /\ pc[r] \in Running
  /\ Finish(r, "rejected")
  /\ UNCHANGED db

-----------------------------------------------------------------------------
(* The other resources.                                                    *)

Move == moves < MaxMoves /\ moves' = moves + 1

\* onDelete: Cascade.
Cascade ==
  tasks' = [t \in Task |-> IF Exists(t) /\ tasks[t].board \notin boards'
                             THEN NoTask ELSE tasks[t]]

\* Members and organizations change.  Assignments to a member who goes stay.
ChangeMembers ==
  /\ Move
  /\ Table!ANext
  /\ <<state, role>>' # <<state, role>>
  /\ met' = [r \in Request |->
               IF pc[r] \in Running THEN met[r] \cup MembersOf(org[r], role') ELSE met[r]]
  /\ boards' = {b \in boards : state'[OrgOf[b]] = "live"}
  /\ Cascade
  /\ UNCHANGED <<audit, pc, args, org, seen>>

\* BoardsService.remove, and ProjectsService.remove with a project's boards.
RemoveBoards ==
  /\ Move
  /\ \E o \in Org : \E gone \in SUBSET {b \in boards : OrgOf[b] = o} :
       gone # {} /\ boards' = boards \ gone
  /\ Cascade
  /\ UNCHANGED <<state, role, audit, pc, args, org, seen, met>>

-----------------------------------------------------------------------------

Step(r) ==
  \/ Begin(r) \/ Refuse(r) \/ Validate(r) \/ Find(r)
  \/ CreateTask(r) \/ UpdateTask(r) \/ RecordRemoval(r) \/ RemoveTask(r)
  \/ AssignTask(r) \/ RemoveAssignee(r) \/ UpdateStatus(r) \/ UpdatePriority(r)
  \/ Gone(r) \/ Fail(r)

Next ==
  \/ \E r \in Request : Step(r)
  \/ ChangeMembers
  \/ RemoveBoards

Spec == Init /\ [][Next]_vars

-----------------------------------------------------------------------------
(* Properties.                                                             *)

Commits(r) == pc[r] \in {"commit", "delete"} /\ pc'[r] = "done"

\* Whoever is assigned a task was a member of its organization at some moment
\* while the request that chose him ran, though his membership is read before
\* the transaction: one who has left before that is not assigned.
AssigneesWereMembers ==
  [][\A t \in Task :
       tasks'[t].assignedTo \notin {Null, tasks[t].assignedTo} =>
         \E r \in Request :
           /\ Commits(r) /\ t \in {r, args[r].on}
           /\ org[r] = OrgOf[tasks'[t].board]
           /\ tasks'[t].assignedTo \in met[r]]_vars

\* docs/business-rules.md:53.  The assignee of a task is a member of its
\* organization.
AssigneesBelong ==
  \A t \in Task : Exists(t) /\ tasks[t].assignedTo # Null =>
    BelongsTo(OrgOf[tasks[t].board], tasks[t].assignedTo)

\* Every task is on a board there is, in an organization there is, whatever
\* was removed while it was created.
TasksHaveBoards ==
  \A t \in Task : Exists(t) =>
    tasks[t].board \in boards /\ state[OrgOf[tasks[t].board]] = "live"

\* What is inserted becomes a row of the log when its transaction commits.
Committed(i) == pc[audit[i].by] = "done"

\* Where the log tells of t by one of the actions.
Told(t, actions) ==
  {i \in DOMAIN audit : Committed(i) /\ audit[i].task = t /\ audit[i].action \in actions}

Earliest(i, told) == \A j \in told : i <= j
Latest(i, told) == \A j \in told : j <= i

\* A task is created in the log once, before anything else is told of it, and
\* deleted at most once; one that was deleted is not there, one that is there
\* was created.
AuditFramesTask ==
  \A t \in Task :
    LET told == Told(t, Action) IN
    /\ \A i \in told :
         audit[i].action = "TASK_CREATED" <=> Earliest(i, told) /\ t \notin Old
    /\ \A i, j \in Told(t, {"TASK_DELETED"}) : i = j /\ ~Exists(t)
    /\ Exists(t) /\ t \notin Old => told # {}

\* Once its removal is told, nothing more is told of a task: what is dated after
\* the record of the removal was committed before it.
DeletionClosesLog ==
  [][\A t \in Task :
       Told(t, {"TASK_DELETED"}) # {} => Told(t, Action)' = Told(t, Action)]_vars

Assignment == {"TASK_ASSIGNED", "TASK_UNASSIGNED"}

\* Assignments are told as they happen: the last one told is who the task is
\* assigned to, however requests overlap; an old task of which none is told is
\* assigned to nobody, as in the beginning.
AssignmentsTold ==
  \A t \in Task : Exists(t) =>
    LET told == Told(t, Assignment) IN
    /\ \A i \in told : Latest(i, told) => audit[i].to = tasks[t].assignedTo
    /\ told = {} /\ t \in Old => tasks[t].assignedTo = Null

\* The changes told of a field make a chain up to the task's value.
Coherent(t, field, action) ==
  LET told == Told(t, {action}) IN
  \A i \in told :
    /\ \A j \in told : i < j /\ (\A k \in told : k <= i \/ j <= k)
         => audit[j].from = audit[i].to
    /\ Latest(i, told) => audit[i].to = tasks[t][field]

\* What the log tells of a task's status (or priority) stops being the truth
\* only when a request commits that has read another status than the one it
\* replaces.
LogDriftIsStale ==
  [][\A t \in Task :
       \A f \in {<<"status", "TASK_STATUS_CHANGED">>,
                 <<"priority", "TASK_PRIORITY_CHANGED">>} :
         /\ Exists(t)' /\ ~Coherent(t, f[1], f[2])'
         /\ Exists(t) /\ Coherent(t, f[1], f[2])
         => \E r \in Request : Commits(r) /\ args[r].on = t
                               /\ seen[r][f[1]] # tasks[t][f[1]]]_vars
=============================================================================
