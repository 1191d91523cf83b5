------------------------------ MODULE TasksProofs ------------------------------
(***************************************************************************)
(* Tasks stay on boards, assignees were members when they were chosen, and *)
(* the log tells what became of the tasks, for any users, organizations,   *)
(* boards and requests.                                                    *)
(***************************************************************************)
EXTENDS Tasks, TLAPS

\* A task is created by a request that is still on its way then, and only once:
\* a task that was named cannot come back as another's.  The organization the
\* guard found is the one the task is still in, whoever is in it was met, and so
\* was an assignee that has been looked up.
RequestOK(r) ==
  LET a == args[r] IN
  /\ Exists(r) => pc[r] = "done"
  /\ pc[r] \in Running =>
       /\ a \in Args
       /\ org[r] \in Org
       /\ MembersOf(org[r], role) \subseteq met[r]
       /\ a.op = "CreateTask" => org[r] = OrgOf[a.on]
       /\ a.op # "CreateTask" =>
            /\ a.on \in Request => pc[a.on] = "done"
            /\ Exists(a.on) => OrgOf[tasks[a.on].board] = org[r]
  /\ pc[r] = "find" => a.op \in FoundOp
  /\ pc[r] = "validate" => a.op \in {"CreateTask", "AssignTask"}
  /\ pc[r] = "delete" => a.op = "RemoveTask"
  /\ pc[r] = "commit" =>
       /\ a.op \in FoundOp => seen[r] \in Row
       /\ a.op \in {"CreateTask", "AssignTask"} /\ a.to # Null => a.to \in met[r]

IInv ==
  /\ TypeOK
  /\ TasksHaveBoards
  /\ \A b \in boards : state[OrgOf[b]] = "live"
  /\ \A r \in Request : RequestOK(r)

-----------------------------------------------------------------------------
(* Rows and parameters.                                                    *)

LEMMA NoTaskIsNoRow == NoTask \notin Row
BY TasksAssumption DEF NoTask, Row

LEMMA ArgsFields ==
  ASSUME NEW a \in Args
  PROVE  /\ a.op \in Op
         /\ a.op = "CreateTask" => a.on \in Board /\ a.to \in User \cup {Null}
         /\ a.op # "CreateTask" => a.on \in Task
         /\ a.op = "AssignTask" => a.to \in User
         /\ a.op = "UpdateStatus" => a.to \in Status
         /\ a.op = "UpdatePriority" => a.to \in Priority
<1>1. /\ a.op \in Op
      /\ a.on \in IF a.op = "CreateTask" THEN Board ELSE Task
      /\ a.to \in Wanted(a.op)
  BY DEF Args
<1> QED
  BY <1>1 DEF Wanted

LEMMA RowFields ==
  ASSUME TypeOK, NEW t \in Task, Exists(t)
  PROVE  /\ tasks[t] \in Row
         /\ tasks[t].board \in Board /\ OrgOf[tasks[t].board] \in Org
BY TasksAssumption DEF TypeOK, Exists, Row

LEMMA OfRequest ==
  ASSUME IInv, NEW r \in Request
  PROVE  /\ RequestOK(r) /\ r \in Task
         /\ pc[r] \in {"new", "done", "rejected"} \cup Running
BY DEF IInv, TypeOK, Task

-----------------------------------------------------------------------------
(* The table of roles.                                                     *)

LEMMA TableTyped ==
  ASSUME Table!ATypeOK, Table!ANext
  PROVE  Table!ATypeOK'
<1> USE DEF Table!ATypeOK, Table!Role, Table!NoRole
<1>1. PICK o \in Org :
        \/ Table!Dissolve(o)
        \/ \E u \in User :
             \/ Table!Found(o, u) \/ Table!Enroll(o, u) \/ Table!Strike(o, u)
             \/ \E to \in Table!Role : Table!Regrade(o, u, to)
             \/ \E to \in User : Table!Handover(o, u, to)
  BY DEF Table!ANext
<1>2. CASE Table!Dissolve(o)
  BY <1>2 DEF Table!Dissolve
<1>3. ASSUME NEW u \in User, Table!Found(o, u) \/ Table!Enroll(o, u) \/ Table!Strike(o, u)
      PROVE  Table!ATypeOK'
  BY <1>3 DEF Table!Found, Table!Enroll, Table!Strike
<1>4. ASSUME NEW u \in User, NEW to \in Table!Role, Table!Regrade(o, u, to)
      PROVE  Table!ATypeOK'
  BY <1>4 DEF Table!Regrade
<1>5. ASSUME NEW u \in User, NEW to \in User, Table!Handover(o, u, to)
      PROVE  Table!ATypeOK'
  BY <1>5 DEF Table!Handover
<1> QED
  BY <1>1, <1>2, <1>3, <1>4, <1>5

-----------------------------------------------------------------------------
(* The effect of the actions.                                              *)

RequestsTypeOK ==
  /\ pc \in [Request -> {"new", "done", "rejected"} \cup Running]
  /\ args \in [Request -> Args \cup {NoArgs}]
  /\ org \in [Request -> Org \cup {Null}]
  /\ seen \in [Request -> Row \cup {NoTask}]
  /\ met \in [Request -> SUBSET User]

around == <<state, role, boards, moves>>

\* What a request knows and where it stands.  Whom it met may be more.
Waits(q) ==
  /\ pc'[q] = pc[q] /\ args'[q] = args[q] /\ org'[q] = org[q] /\ seen'[q] = seen[q]
  /\ met[q] \subseteq met'[q]
  /\ pc[q] \in Running /\ MembersOf(org[q], role) \subseteq met[q] =>
       MembersOf(org[q], role') \subseteq met'[q]

LEMMA FinishEffect ==
  ASSUME RequestsTypeOK, NEW r \in Request, NEW outcome \in {"done", "rejected"},
         Finish(r, outcome), role' = role
  PROVE  /\ RequestsTypeOK'
         /\ pc'[r] = outcome
         /\ \A q \in Request \ {r} : Waits(q)
BY DEF RequestsTypeOK, Finish, Goto, Waits, Running

LEMMA BeginEffect ==
  ASSUME IInv, NEW r \in Request, Begin(r)
  PROVE  /\ RequestsTypeOK'
         /\ pc[r] = "new" /\ UNCHANGED db
         /\ \E a \in Args :
              /\ Admitted(a) /\ args'[r] = a
              /\ org'[r] = Home(a) /\ Home(a) \in Org
              /\ met'[r] = MembersOf(Home(a), role)
              /\ pc'[r] = FirstRead(a)
         /\ \A q \in Request \ {r} : Waits(q)
<1>1. RequestsTypeOK
  BY DEF IInv, TypeOK, RequestsTypeOK
<1>2. PICK a \in Args :
        /\ Admitted(a)
        /\ args' = [args EXCEPT ![r] = a]
        /\ org' = [org EXCEPT ![r] = Home(a)]
        /\ met' = [met EXCEPT ![r] = MembersOf(Home(a), role)]
        /\ pc' = [pc EXCEPT ![r] = FirstRead(a)]
  BY DEF Begin, Goto
<1>3. Home(a) \in Org
  BY <1>2, ArgsFields, RowFields, TasksAssumption DEF IInv, Admitted, Home
<1>4. FirstRead(a) \in Running
  BY DEF FirstRead, Running
<1>5. UNCHANGED <<db, seen>> /\ pc[r] = "new"
  BY DEF Begin
<1>6. role' = role /\ MembersOf(Home(a), role) \subseteq User
  BY <1>5 DEF db, MembersOf
<1> QED
  BY <1>1, <1>2, <1>3, <1>4, <1>5, <1>6 DEF RequestsTypeOK, Waits

LEMMA ValidateEffect ==
  ASSUME IInv, NEW r \in Request, Validate(r)
  PROVE  /\ RequestsTypeOK'
         /\ pc[r] = "validate" /\ pc'[r] = "commit" /\ UNCHANGED <<db, args, org, seen, met>>
         /\ BelongsTo(org[r], args[r].to)
         /\ \A q \in Request \ {r} : Waits(q)
BY DEF IInv, TypeOK, RequestsTypeOK, Validate, Goto, Waits, Running, db

LEMMA FindEffect ==
  ASSUME IInv, NEW r \in Request, Find(r)
  PROVE  /\ RequestsTypeOK'
         /\ pc[r] = "find" /\ pc'[r] = "commit" /\ UNCHANGED <<db, args, org, met>>
         /\ seen'[r] \in Row
         /\ \A q \in Request \ {r} : Waits(q)
<1>1. args[r].on \in Task
  BY OfRequest, ArgsFields DEF Find, RequestOK, Running, FoundOp, FieldOp
<1>2. tasks[args[r].on] \in Row
  BY <1>1, RowFields DEF IInv, Find
<1> QED
  BY <1>2 DEF IInv, TypeOK, RequestsTypeOK, Find, Goto, Waits, Running, db

\* The log, if it has grown at all.
Logged == audit' = audit \/ \E e \in AuditRecord : audit' = Append(audit, e)

\* The record a request inserts.
Recorded(r, action, t, from, to) ==
  \E e \in AuditRecord :
    /\ audit' = Append(audit, e)
    /\ e.action = action /\ e.task = t /\ e.from = from /\ e.to = to /\ e.by = r

LEMMA RecordTyped ==
  ASSUME NEW r \in Request, NEW action \in Action, NEW t \in Task,
         NEW from \in Status \cup Priority \cup {Null},
         NEW to \in User \cup Status \cup Priority \cup {Null}, Log(r, action, t, from, to)
  PROVE  Recorded(r, action, t, from, to) /\ Logged
<1> DEFINE e == [action |-> action, task |-> t, from |-> from, to |-> to, by |-> r]
<1>1. e \in AuditRecord /\ audit' = Append(audit, e)
  BY DEF AuditRecord, Log
<1>2. e.action = action /\ e.task = t /\ e.from = from /\ e.to = to /\ e.by = r
  OBVIOUS
<1> QED
  BY <1>1, <1>2 DEF Recorded, Logged

LEMMA RecordRemovalEffect ==
  ASSUME IInv, NEW r \in Request, RecordRemoval(r)
  PROVE  /\ RequestsTypeOK'
         /\ pc[r] = "commit" /\ pc'[r] = "delete"
         /\ args[r].op = "RemoveTask" /\ args[r].on \in Task
         /\ UNCHANGED <<around, tasks, args, org, seen, met>>
         /\ Recorded(r, "TASK_DELETED", args[r].on, Null, Null) /\ Logged
         /\ \A q \in Request \ {r} : Waits(q)
<1>1. /\ pc[r] = "commit" /\ args[r].op = "RemoveTask"
      /\ pc' = [pc EXCEPT ![r] = "delete"]
      /\ UNCHANGED <<around, tasks, args, org, seen, met>>
  BY DEF RecordRemoval, Ready, Goto, around
<1>2. args[r].on \in Task
  BY <1>1, OfRequest, ArgsFields DEF RequestOK, Running
<1>3. Recorded(r, "TASK_DELETED", args[r].on, Null, Null) /\ Logged
  BY <1>2, RecordTyped DEF RecordRemoval, Action
<1> QED
  BY <1>1, <1>2, <1>3 DEF IInv, TypeOK, RequestsTypeOK, Waits, Running, around

\* The tasks after a transaction: one was created by r where it is allowed to,
\* one was written in its place or removed, or all are as they were.
Created(r) ==
  /\ args[r].op = "CreateTask"
  /\ args[r].on \in boards
  /\ \E p \in Priority :
       tasks' = [tasks EXCEPT ![r] = [board |-> args[r].on, status |-> "TODO", priority |-> p,
                                      assignedTo |-> args[r].to]]
Rewritten(r) ==
  /\ args[r].op # "CreateTask"
  /\ Exists(args[r].on)
  /\ \E row \in Row :
       /\ tasks' = [tasks EXCEPT ![args[r].on] = row]
       /\ row.board = tasks[args[r].on].board
       /\ \/ row.assignedTo = tasks[args[r].on].assignedTo
          \/ row.assignedTo = Null
          \/ args[r].op = "AssignTask" /\ row.assignedTo = args[r].to
Removed(r) == tasks' = [tasks EXCEPT ![args[r].on] = NoTask]

\* A transaction that commits.
Transacts(r) ==
  \/ CreateTask(r) \/ UpdateTask(r) \/ RemoveTask(r) \/ AssignTask(r)
  \/ RemoveAssignee(r) \/ UpdateStatus(r) \/ UpdatePriority(r)

LEMMA TransactionEffect ==
  ASSUME IInv, NEW r \in Request,
         Transacts(r)
  PROVE  /\ pc[r] \in {"commit", "delete"} /\ Finish(r, "done")
         /\ pc[r] = "delete" <=> RemoveTask(r)
         /\ UNCHANGED around
         /\ Logged
         /\ tasks' = tasks \/ Created(r) \/ Rewritten(r) \/ Removed(r)
<1>1. /\ pc[r] \in {"commit", "delete"} /\ Finish(r, "done") /\ UNCHANGED around
      /\ pc[r] = "delete" <=> RemoveTask(r)
  BY DEF Transacts, CreateTask, UpdateTask, RemoveTask, AssignTask, RemoveAssignee, UpdateStatus,
         UpdatePriority, SetField, Ready, Commit, around
<1>2. RequestOK(r) /\ r \in Task /\ args[r] \in Args
  BY <1>1, OfRequest DEF RequestOK, Running
<1>3. CASE CreateTask(r)
  <2>1. Logged
    BY <1>2, <1>3, RecordTyped DEF CreateTask, Action
  <2> QED
    BY <1>1, <1>3, <2>1 DEF CreateTask, Ready, Write, Created
<1> DEFINE on == args[r].on
<1>4. ASSUME args[r].op # "CreateTask", Present(r)
      PROVE  on \in Task /\ Exists(on) /\ tasks[on] \in Row
  BY <1>2, <1>4, ArgsFields, RowFields DEF IInv, Present
<1>5. CASE UpdateTask(r)
  BY <1>1, <1>4, <1>5, RecordTyped DEF UpdateTask, Ready, Action
<1>6. CASE RemoveTask(r)
  BY <1>1, <1>6 DEF RemoveTask, Write, Removed, Logged
<1>7. CASE AssignTask(r)
  <2>1. args[r].op = "AssignTask" /\ args[r].to \in User /\ Exists(on) /\ on \in Task
        /\ tasks[on] \in Row
    BY <1>2, <1>4, <1>7, ArgsFields DEF AssignTask, Ready
  <2>2. Logged
    BY <1>7, <2>1, RecordTyped DEF AssignTask, Action
  <2>3. /\ [tasks[on] EXCEPT !.assignedTo = args[r].to] \in Row
        /\ [tasks[on] EXCEPT !.assignedTo = args[r].to].board = tasks[on].board
        /\ [tasks[on] EXCEPT !.assignedTo = args[r].to].assignedTo = args[r].to
    BY <2>1 DEF Row
  <2>4. Rewritten(r)
    BY <1>7, <2>1, <2>3 DEF AssignTask, Write, Rewritten
  <2> QED
    BY <1>1, <2>2, <2>4
<1>8. CASE RemoveAssignee(r)
  <2>1. args[r].op # "CreateTask" /\ Exists(on) /\ on \in Task /\ tasks[on] \in Row
    BY <1>4, <1>8 DEF RemoveAssignee, Ready
  <2>2. Logged
    BY <1>8, <2>1, RecordTyped DEF RemoveAssignee, Action
  <2>3. /\ [tasks[on] EXCEPT !.assignedTo = Null] \in Row
        /\ [tasks[on] EXCEPT !.assignedTo = Null].board = tasks[on].board
        /\ [tasks[on] EXCEPT !.assignedTo = Null].assignedTo = Null
    BY <2>1 DEF Row
  <2>4. Rewritten(r)
    BY <1>8, <2>1, <2>3 DEF RemoveAssignee, Write, Rewritten
  <2> QED
    BY <1>1, <2>2, <2>4
<1>9. CASE UpdateStatus(r)
  <2>1. args[r].op = "UpdateStatus" /\ args[r].to \in Status /\ Exists(on) /\ on \in Task
        /\ tasks[on] \in Row /\ seen[r] \in Row
    BY <1>1, <1>2, <1>4, <1>9, ArgsFields
       DEF UpdateStatus, SetField, Ready, RequestOK, FoundOp, FieldOp
  <2>2. seen[r]["status"] \in Status
    BY <2>1 DEF Row
  <2>3. Logged
    BY <1>9, <2>1, <2>2, RecordTyped DEF UpdateStatus, SetField, Action, Logged
  <2>4. /\ [tasks[on] EXCEPT !["status"] = args[r].to] \in Row
        /\ [tasks[on] EXCEPT !["status"] = args[r].to].board = tasks[on].board
        /\ [tasks[on] EXCEPT !["status"] = args[r].to].assignedTo = tasks[on].assignedTo
    BY <2>1 DEF Row
  <2>5. Rewritten(r)
    BY <1>9, <2>1, <2>4 DEF UpdateStatus, SetField, Write, Rewritten
  <2> QED
    BY <1>1, <2>3, <2>5
<1>10. CASE UpdatePriority(r)
  <2>1. args[r].op = "UpdatePriority" /\ args[r].to \in Priority /\ Exists(on) /\ on \in Task
        /\ tasks[on] \in Row /\ seen[r] \in Row
    BY <1>1, <1>2, <1>4, <1>10, ArgsFields
       DEF UpdatePriority, SetField, Ready, RequestOK, FoundOp, FieldOp
  <2>2. seen[r]["priority"] \in Priority
    BY <2>1 DEF Row
  <2>3. Logged
    BY <1>10, <2>1, <2>2, RecordTyped DEF UpdatePriority, SetField, Action, Logged
  <2>4. /\ [tasks[on] EXCEPT !["priority"] = args[r].to] \in Row
        /\ [tasks[on] EXCEPT !["priority"] = args[r].to].board = tasks[on].board
        /\ [tasks[on] EXCEPT !["priority"] = args[r].to].assignedTo = tasks[on].assignedTo
    BY <2>1 DEF Row
  <2>5. Rewritten(r)
    BY <1>10, <2>1, <2>4 DEF UpdatePriority, SetField, Write, Rewritten
  <2> QED
    BY <1>1, <2>3, <2>5
<1> QED
  BY <1>3, <1>5, <1>6, <1>7, <1>8, <1>9, <1>10 DEF Transacts

\* Refuse, Gone and Fail change nothing but the request.
LEMMA RefusalEffect ==
  ASSUME NEW r \in Request, Refuse(r) \/ Gone(r) \/ Fail(r)
  PROVE  Finish(r, "rejected") /\ UNCHANGED db
BY DEF Refuse, Gone, Fail

-----------------------------------------------------------------------------
(* The rows after a step.                                                  *)

\* u is chosen for t by a request that commits, and has met him.
Chosen(t, o, u) ==
  \E r \in Request : /\ Commits(r) /\ t \in {r, args[r].on}
                     /\ org[r] = o /\ u \in met[r]

\* A task there is after a step was there, on its board, or is new, on a board
\* there is; and its assignee, if he is another, was met.
TasksFrom(t) ==
  tasks'[t] # NoTask =>
    /\ tasks'[t] \in Row
    /\ tasks'[t].board \in boards'
    /\ tasks'[t].assignedTo \notin {Null, tasks[t].assignedTo} =>
         Chosen(t, OrgOf[tasks'[t].board], tasks'[t].assignedTo)
    /\ \/ tasks[t] # NoTask /\ tasks'[t].board = tasks[t].board
       \/ t \in Request /\ pc[t] = "commit" /\ pc'[t] = "done"

TasksOK ==
  /\ tasks' \in [Task -> Row \cup {NoTask}]
  /\ \A t \in Task : TasksFrom(t)

LEMMA AsItWas ==
  ASSUME IInv, NEW t \in Task, tasks'[t] = tasks[t],
         tasks[t] # NoTask => tasks[t].board \in boards'
  PROVE  TasksFrom(t)
<1>1. tasks[t] # NoTask => tasks[t] \in Row
  BY DEF IInv, TypeOK
<1> QED
  BY <1>1 DEF TasksFrom

LEMMA TransactionKeepsTasks ==
  ASSUME IInv, NEW r \in Request,
         Transacts(r)
  PROVE  TasksOK
<1>1. /\ pc[r] \in {"commit", "delete"} /\ pc'[r] = "done"
      /\ boards' = boards
      /\ tasks' = tasks \/ Created(r) \/ Rewritten(r) \/ Removed(r)
  BY TransactionEffect DEF around, IInv, TypeOK, Finish, Goto
<1>2. tasks \in [Task -> Row \cup {NoTask}]
  BY DEF IInv, TypeOK
<1>3. /\ RequestOK(r) /\ r \in Task
      /\ args[r] \in Args
  BY <1>1, OfRequest DEF RequestOK, Running
<1> DEFINE on == args[r].on
           to == args[r].to
<1>0. ASSUME args[r].op \in {"CreateTask", "AssignTask"}, to # Null, NEW t \in {r, on}
      PROVE  Chosen(t, org[r], to) /\ pc[r] = "commit"
  <2>1. pc[r] = "commit" /\ to \in met[r]
    BY <1>0, <1>1, <1>3 DEF RequestOK
  <2>2. Commits(r)
    BY <1>1 DEF Commits
  <2> QED
    BY <1>0, <2>1, <2>2 DEF Chosen
<1>4. ASSUME NEW t \in Task, tasks'[t] = tasks[t]
      PROVE  TasksFrom(t)
  <2>1. tasks[t] # NoTask => tasks[t].board \in boards'
    BY <1>1 DEF IInv, TasksHaveBoards, Exists
  <2> QED
    BY <1>4, <2>1, AsItWas
<1>5. CASE tasks' = tasks
  BY <1>2, <1>4, <1>5 DEF TasksOK
<1>6. CASE Created(r)
  <2>1. PICK p \in Priority :
          tasks' = [tasks EXCEPT ![r] = [board |-> on, status |-> "TODO", priority |-> p,
                                         assignedTo |-> args[r].to]]
    BY <1>6 DEF Created
  <2> DEFINE row == [board |-> on, status |-> "TODO", priority |-> p, assignedTo |-> args[r].to]
  <2>2. on \in boards /\ on \in Board /\ args[r].to \in User \cup {Null}
    BY <1>3, <1>6, ArgsFields DEF Created
  <2>3. row \in Row
    BY <2>2, TasksAssumption DEF Row
  <2>4. /\ to # Null => Chosen(r, OrgOf[on], to)
        /\ pc[r] = "commit"
    <3>1. args[r].op = "CreateTask" /\ org[r] = OrgOf[on] /\ pc[r] = "commit"
      BY <1>1, <1>3, <1>6 DEF RequestOK, Running, Created
    <3> QED
      BY <1>0, <3>1
  <2>5. /\ tasks' \in [Task -> Row \cup {NoTask}]
        /\ tasks'[r] = row
        /\ \A t \in Task \ {r} : tasks'[t] = tasks[t]
    BY <1>2, <1>3, <2>1, <2>3
  <2>7. TasksFrom(r)
    BY <1>1, <2>2, <2>3, <2>4, <2>5 DEF TasksFrom
  <2> QED
    BY <1>4, <2>5, <2>7 DEF TasksOK
<1>7. CASE Rewritten(r)
  <2>1. on \in Task /\ Exists(on)
    BY <1>3, <1>7, ArgsFields DEF Rewritten
  <2>2. PICK row \in Row :
          /\ tasks' = [tasks EXCEPT ![on] = row]
          /\ row.board = tasks[on].board
          /\ \/ row.assignedTo = tasks[on].assignedTo
             \/ row.assignedTo = Null
             \/ args[r].op = "AssignTask" /\ row.assignedTo = args[r].to
    BY <1>7 DEF Rewritten
  <2>3. tasks[on].board \in boards
    BY <2>1 DEF IInv, TasksHaveBoards
  <2>4. args[r].op = "AssignTask" /\ to # Null => Chosen(on, OrgOf[tasks[on].board], to)
    <3>1. args[r].op = "AssignTask" => org[r] = OrgOf[tasks[on].board]
      BY <1>1, <1>3, <2>1 DEF RequestOK, Running
    <3> QED
      BY <1>0, <3>1
  <2>5. /\ tasks' \in [Task -> Row \cup {NoTask}]
        /\ tasks'[on] = row
        /\ \A t \in Task \ {on} : tasks'[t] = tasks[t]
    BY <1>2, <2>1, <2>2
  <2>6. TasksFrom(on)
    BY <1>1, <2>1, <2>2, <2>3, <2>4, <2>5 DEF TasksFrom, Exists
  <2> QED
    BY <1>4, <2>5, <2>6 DEF TasksOK
<1>8. CASE Removed(r)
  <2>1. /\ tasks' \in [Task -> Row \cup {NoTask}]
        /\ \A t \in Task : tasks'[t] \in {NoTask, tasks[t]}
    BY <1>2, <1>8 DEF Removed
  <2>2. \A t \in Task : TasksFrom(t)
    BY <1>4, <2>1 DEF TasksFrom
  <2> QED
    BY <2>1, <2>2 DEF TasksOK
<1> QED
  BY <1>1, <1>5, <1>6, <1>7, <1>8

LEMMA CascadeKeepsTasks ==
  ASSUME IInv, Cascade
  PROVE  TasksOK
<1>1. tasks \in [Task -> Row \cup {NoTask}]
  BY DEF IInv, TypeOK
<1>2. tasks' = [t \in Task |-> IF tasks[t] # NoTask /\ tasks[t].board \notin boards'
                                 THEN NoTask ELSE tasks[t]]
  BY DEF Cascade, Exists
<1>3. ASSUME NEW t \in Task
      PROVE  TasksFrom(t)
  <2>1. CASE tasks[t] # NoTask /\ tasks[t].board \notin boards'
    BY <1>2, <2>1 DEF TasksFrom
  <2>2. CASE ~(tasks[t] # NoTask /\ tasks[t].board \notin boards')
    BY <1>2, <2>2, AsItWas
  <2> QED
    BY <2>1, <2>2
<1> QED
  BY <1>1, <1>2, <1>3 DEF TasksOK

LEMMA TasksKept ==
  ASSUME IInv, Next
  PROVE  TasksOK
<1>1. ASSUME UNCHANGED <<tasks, boards>>
      PROVE  TasksOK
  <2>1. \A t \in Task : tasks[t] # NoTask => tasks[t].board \in boards'
    BY <1>1 DEF IInv, TasksHaveBoards, Exists
  <2>2. \A t \in Task : TasksFrom(t)
    BY <1>1, <2>1, AsItWas
  <2> QED
    BY <1>1, <2>2 DEF TasksOK, IInv, TypeOK
<1>2. ASSUME NEW r \in Request, Step(r)
      PROVE  TasksOK
  BY <1>1, <1>2, TransactionKeepsTasks, RefusalEffect
     DEF Step, Transacts, Begin, Validate, Find, RecordRemoval, db
<1> QED
  BY <1>2, CascadeKeepsTasks DEF Next, ChangeMembers, RemoveBoards

\* What a step leaves of the tables around the tasks, and of the log.
TablesOK ==
  /\ Table!ATypeOK'
  /\ boards' \subseteq Board
  /\ \A b \in boards' : state'[OrgOf[b]] = "live"
  /\ moves' \in 0..MaxMoves
  /\ audit' \in Seq(AuditRecord)

LEMMA TablesKept ==
  ASSUME IInv, Next
  PROVE  TablesOK
<1>1. /\ Table!ATypeOK
      /\ boards \subseteq Board
      /\ \A b \in boards : state[OrgOf[b]] = "live"
      /\ moves \in 0..MaxMoves
      /\ audit \in Seq(AuditRecord)
  BY DEF IInv, TypeOK
<1>2. ASSUME UNCHANGED around, Logged
      PROVE  TablesOK
  <2>1. audit' \in Seq(AuditRecord)
    BY <1>1, <1>2 DEF Logged
  <2> QED
    BY <1>1, <1>2, <2>1 DEF around, TablesOK, Table!ATypeOK
<1>3. ASSUME NEW r \in Request, Step(r)
      PROVE  UNCHANGED around /\ Logged
  BY <1>3, TransactionEffect, RefusalEffect, RecordRemovalEffect
     DEF Step, Transacts, Begin, Validate, Find, db, around, Logged
<1>4. Move => moves' \in 0..MaxMoves
  BY <1>1, TasksAssumption DEF Move
<1>5. CASE ChangeMembers
  <2>1. Table!ATypeOK'
    BY <1>1, <1>5, TableTyped DEF ChangeMembers
  <2>2. boards' \subseteq boards /\ \A b \in boards' : state'[OrgOf[b]] = "live"
    BY <1>5 DEF ChangeMembers
  <2> QED
    BY <1>1, <1>4, <1>5, <2>1, <2>2 DEF ChangeMembers, TablesOK
<1>6. CASE RemoveBoards
  <2>1. boards' \subseteq boards /\ UNCHANGED <<state, role, audit>> /\ Move
    BY <1>6 DEF RemoveBoards
  <2> QED
    BY <1>1, <1>4, <2>1 DEF TablesOK, Table!ATypeOK
<1> QED
  BY <1>2, <1>3, <1>5, <1>6 DEF Next

-----------------------------------------------------------------------------
(* The requests after a step.                                              *)

LEMMA StepEffect ==
  ASSUME IInv, NEW r \in Request, Step(r)
  PROVE  RequestsTypeOK' /\ \A q \in Request \ {r} : Waits(q)
<1>1. RequestsTypeOK
  BY DEF IInv, TypeOK, RequestsTypeOK
<1>2. CASE Transacts(r) \/ Refuse(r) \/ Gone(r) \/ Fail(r)
  <2>1. role' = role /\ (Finish(r, "done") \/ Finish(r, "rejected"))
    BY <1>2, TransactionEffect, RefusalEffect DEF around, db
  <2> QED
    BY <1>1, <2>1, FinishEffect
<1> QED
  BY <1>2, BeginEffect, ValidateEffect, FindEffect, RecordRemovalEffect DEF Step, Transacts

LEMMA MovesEffect ==
  ASSUME IInv, ChangeMembers \/ RemoveBoards
  PROVE  RequestsTypeOK' /\ \A q \in Request : Waits(q)
<1>1. RequestsTypeOK
  BY DEF IInv, TypeOK, RequestsTypeOK
<1>2. CASE ChangeMembers
  <2>1. UNCHANGED <<pc, args, org, seen>>
    BY <1>2 DEF ChangeMembers
  <2>2. met' = [r \in Request |->
                  IF pc[r] \in Running THEN met[r] \cup MembersOf(org[r], role') ELSE met[r]]
    BY <1>2 DEF ChangeMembers
  <2>3. ASSUME NEW q \in Request
        PROVE  MembersOf(org[q], role') \subseteq User /\ met[q] \subseteq User
    BY <1>1 DEF MembersOf, RequestsTypeOK
  <2>4. met' \in [Request -> SUBSET User]
    BY <2>2, <2>3
  <2>5. ASSUME NEW q \in Request
        PROVE  /\ met[q] \subseteq met'[q]
               /\ pc[q] \in Running => MembersOf(org[q], role') \subseteq met'[q]
    BY <2>2
  <2> QED
    BY <1>1, <2>1, <2>4, <2>5 DEF RequestsTypeOK, Waits
<1>3. CASE RemoveBoards
  BY <1>1, <1>3 DEF RemoveBoards, RequestsTypeOK, Waits
<1> QED
  BY <1>2, <1>3

LEMMA RequestsTyped ==
  ASSUME IInv, Next
  PROVE  RequestsTypeOK'
BY StepEffect, MovesEffect DEF Next

\* Every other request waits.
LEMMA OthersWait ==
  ASSUME IInv, NEW r \in Request, Step(r), NEW q \in Request \ {r}
  PROVE  Waits(q)
BY StepEffect

LEMMA DoneStaysDone ==
  ASSUME IInv, Next, NEW q \in Request, pc[q] = "done"
  PROVE  pc'[q] = "done"
<1>1. ASSUME NEW r \in Request, Step(r)
      PROVE  pc'[q] = "done"
  <2>1. CASE q = r
    BY <1>1, <2>1, TransactionEffect
       DEF Step, Transacts, Begin, Validate, Find, RecordRemoval, Ready, Refuse, Gone, Fail,
           Running
  <2>2. CASE q # r
    BY <1>1, <2>2, OthersWait DEF Waits
  <2> QED
    BY <2>1, <2>2
<1> QED
  BY <1>1 DEF Next, ChangeMembers, RemoveBoards

\* Of a request that takes no step, passes validateAssignee or findFirst, or
\* records a removal.
LEMMA KnowledgeKept ==
  ASSUME IInv, Next, NEW q \in Request, args'[q] = args[q], org'[q] = org[q],
         \/ Waits(q)
         \/ /\ UNCHANGED <<role, met>>
            /\ \/ pc[q] = "validate" /\ pc'[q] = "commit" /\ BelongsTo(org[q], args[q].to)
               \/ pc[q] = "find" /\ pc'[q] = "commit" /\ seen'[q] \in Row
               \/ pc[q] = "commit" /\ pc'[q] = "delete" /\ args[q].op = "RemoveTask"
  PROVE  RequestOK(q)'
<1> DEFINE a == args[q]
<1>1. RequestOK(q) /\ q \in Task
  BY OfRequest
<1>2. TasksOK
  BY TasksKept
<1>3. tasks'[q] # NoTask => pc'[q] = "done"
  BY <1>1, <1>2, DoneStaysDone DEF TasksOK, TasksFrom, RequestOK, Exists, Waits
<1>4. pc'[q] \in Running => pc[q] \in Running
  BY DEF Waits, Running
<1>5. ASSUME pc'[q] \in Running, a.op # "CreateTask"
      PROVE  /\ a.on \in Request => pc'[a.on] = "done"
             /\ tasks'[a.on] # NoTask => OrgOf[tasks'[a.on].board] = org[q]
  <2>1. /\ a.on \in Task
        /\ a.on \in Request => pc[a.on] = "done"
        /\ tasks[a.on] # NoTask => OrgOf[tasks[a.on].board] = org[q]
    BY <1>1, <1>4, <1>5, ArgsFields DEF RequestOK, Exists
  <2>2. TasksFrom(a.on)
    BY <1>2, <2>1 DEF TasksOK
  <2> QED
    BY <2>1, <2>2, DoneStaysDone DEF TasksFrom
<1>6. /\ pc'[q] \in Running => a \in Args /\ org[q] \in Org
      /\ pc'[q] \in Running /\ a.op = "CreateTask" => org[q] = OrgOf[a.on]
      /\ pc'[q] = "find" => a.op \in FoundOp
      /\ pc'[q] = "validate" => a.op \in {"CreateTask", "AssignTask"}
      /\ pc'[q] = "delete" => a.op = "RemoveTask"
  BY <1>1, <1>4 DEF RequestOK, Waits
<1>7. ASSUME pc'[q] = "commit", a.op \in FoundOp
      PROVE  seen'[q] \in Row
  BY <1>1, <1>7 DEF RequestOK, Waits, FoundOp, FieldOp
<1>8. ASSUME pc'[q] \in Running
      PROVE  MembersOf(org[q], role') \subseteq met'[q]
  BY <1>1, <1>4, <1>8 DEF RequestOK, Waits
<1>9. ASSUME pc'[q] = "commit", a.op \in {"CreateTask", "AssignTask"}, a.to # Null
      PROVE  a.to \in met'[q]
  <2>1. CASE pc[q] = "commit"
    BY <1>1, <1>9, <2>1 DEF RequestOK, Waits
  <2>2. CASE pc[q] = "validate"
    <3>1. /\ a \in Args /\ MembersOf(org[q], role) \subseteq met[q]
          /\ met' = met /\ BelongsTo(org[q], a.to)
      BY <1>1, <1>9, <2>2 DEF RequestOK, Running, Waits
    <3>2. a.to \in User
      BY <1>9, <3>1, ArgsFields
    <3> QED
      BY <3>1, <3>2 DEF MembersOf, BelongsTo
  <2> QED
    BY <1>1, <1>9, <2>1, <2>2 DEF RequestOK, Waits, FoundOp, FieldOp
<1>10. MembersOf(org[q], role') = MembersOf(org[q], role)'
  BY DEF MembersOf
<1> QED
  BY <1>3, <1>5, <1>6, <1>7, <1>8, <1>9, <1>10 DEF RequestOK, Exists

LEMMA BeginKeeps ==
  ASSUME IInv, Next, NEW r \in Request, Begin(r)
  PROVE  RequestOK(r)'
<1>1. PICK a \in Args :
        /\ Admitted(a) /\ args'[r] = a
        /\ org'[r] = Home(a) /\ Home(a) \in Org
        /\ met'[r] = MembersOf(Home(a), role)
        /\ pc'[r] = FirstRead(a)
  BY BeginEffect
<1>2. /\ pc[r] = "new" /\ UNCHANGED <<tasks, role>>
      /\ \A q \in Request \ {r} : pc'[q] = pc[q]
  BY BeginEffect DEF db, Waits
<1>3. ~Exists(r)
  BY <1>2, OfRequest DEF RequestOK
<1>4. ASSUME a.op # "CreateTask"
      PROVE  /\ a.on \in Request => pc'[a.on] = "done"
             /\ Home(a) = OrgOf[tasks[a.on].board]
  <2>1. Exists(a.on) /\ a.on # r
    BY <1>1, <1>3, <1>4 DEF Admitted
  <2>2. ASSUME a.on \in Request
        PROVE  pc'[a.on] = "done"
    <3>1. pc[a.on] = "done"
      BY <2>1, <2>2, OfRequest DEF RequestOK
    <3> QED
      BY <1>2, <2>1, <2>2, <3>1
  <2> QED
    BY <1>4, <2>2 DEF Home
<1>5. a.op = "CreateTask" => Home(a) = OrgOf[a.on]
  BY DEF Home
<1>6. a.op \in Op
  BY ArgsFields
<1>7. /\ FirstRead(a) = "validate" => a.op \in {"CreateTask", "AssignTask"}
      /\ FirstRead(a) = "find" => a.op \in FoundOp
      /\ FirstRead(a) = "commit" => a.op = "CreateTask" /\ a.to = Null
      /\ FirstRead(a) # "delete"
  BY <1>6 DEF FirstRead, Op, FoundOp, FieldOp
<1>8. tasks'[r] = NoTask /\ tasks' = tasks
  BY <1>2, <1>3 DEF Exists
<1>9. a.op # "CreateTask" =>
        /\ a.on \in Request => pc'[a.on] = "done"
        /\ tasks'[a.on] # NoTask => OrgOf[tasks'[a.on].board] = org'[r]
  BY <1>1, <1>4, <1>8
<1>10. pc'[r] = "commit" => a.op \notin FoundOp /\ a.to = Null
  BY <1>1, <1>7 DEF FoundOp, FieldOp
<1>11. MembersOf(org[r], role)' \subseteq met'[r]
  BY <1>1, <1>2 DEF MembersOf
<1> QED
  BY <1>1, <1>5, <1>7, <1>8, <1>9, <1>10, <1>11 DEF RequestOK, Exists

LEMMA RequestsKept ==
  ASSUME IInv, Next, NEW q \in Request
  PROVE  RequestOK(q)'
<1>1. RequestsTypeOK
  BY DEF IInv, TypeOK, RequestsTypeOK
<1>2. ASSUME NEW r \in Request, Step(r)
      PROVE  RequestOK(q)'
  <2>1. CASE q # r
    BY <1>2, <2>1, OthersWait, KnowledgeKept DEF Waits
  <2>2. CASE q = r /\ Begin(r)
    BY <2>2, BeginKeeps
  <2>3. CASE q = r /\ Validate(r)
    BY <2>3, ValidateEffect, KnowledgeKept DEF db
  <2>4. CASE q = r /\ Find(r)
    BY <2>4, FindEffect, KnowledgeKept DEF db
  <2>6. CASE q = r /\ RecordRemoval(r)
    BY <2>6, RecordRemovalEffect, KnowledgeKept DEF around
  <2>5. CASE q = r /\ ~(Begin(r) \/ Validate(r) \/ Find(r) \/ RecordRemoval(r))
    <3>1. role' = role /\ (Finish(r, "done") \/ (Finish(r, "rejected") /\ UNCHANGED db))
      BY <1>2, <2>5, TransactionEffect, RefusalEffect DEF Step, Transacts, around, db
    <3>2. CASE pc'[q] = "done"
      BY <3>2 DEF RequestOK, Running
    <3>3. CASE pc'[q] = "rejected" /\ UNCHANGED db /\ pc[q] # "done"
      <4>1. tasks'[q] = NoTask
        BY <3>3, OfRequest DEF RequestOK, Exists, db
      <4> QED
        BY <3>3, <4>1 DEF RequestOK, Exists, Running
    <3>4. pc'[q] = "done" \/ (pc'[q] = "rejected" /\ UNCHANGED db)
      BY <1>1, <2>5, <3>1, FinishEffect
    <3> QED
      BY <1>2, <3>2, <3>3, <3>4, DoneStaysDone
  <2> QED
    BY <1>2, <2>1, <2>2, <2>3, <2>4, <2>5, <2>6
<1>3. CASE ChangeMembers \/ RemoveBoards
  <2>1. Waits(q)
    BY <1>3, MovesEffect
  <2> QED
    BY <2>1, KnowledgeKept DEF Waits
<1> QED
  BY <1>2, <1>3 DEF Next

-----------------------------------------------------------------------------
(* The invariant.                                                          *)

LEMMA InitInvariant == Init => IInv
<1> SUFFICES ASSUME Init
             PROVE  IInv
  OBVIOUS
<1>1. Table!ATypeOK
  BY DEF Init, Table!AInit, Table!ATypeOK
<1>2. PICK f \in [Old -> boards] :
        tasks = [t \in Task |->
                   IF t \in Old
                     THEN [board |-> f[t], status |-> "TODO",
                           priority |-> "MEDIUM", assignedTo |-> Null]
                     ELSE NoTask]
  BY DEF Init
<1>3. boards \subseteq Board /\ \A b \in boards : state[OrgOf[b]] = "live"
  BY DEF Init
<1>4. ASSUME NEW t \in Task
      PROVE  /\ tasks[t] \in Row \cup {NoTask}
             /\ Exists(t) => /\ t \in Old
                             /\ tasks[t].board \in boards
                             /\ tasks[t].assignedTo = Null
  BY <1>2, <1>3, TasksAssumption DEF Row, Exists
<1>5. tasks \in [Task -> Row \cup {NoTask}]
  BY <1>2, <1>4
<1>6. TypeOK
  BY <1>1, <1>3, <1>5, TasksAssumption DEF Init, TypeOK
<1>7. TasksHaveBoards
  BY <1>3, <1>4 DEF TasksHaveBoards
<1>8. \A r \in Request : RequestOK(r)
  BY <1>4, TasksAssumption DEF Init, RequestOK, Task, Running
<1> QED
  BY <1>3, <1>6, <1>7, <1>8 DEF IInv

LEMMA NextInvariant == IInv /\ [Next]_vars => IInv'
<1> SUFFICES ASSUME IInv, [Next]_vars
             PROVE  IInv'
  OBVIOUS
<1>1. CASE Next
  <2>1. TablesOK /\ TasksOK /\ RequestsTypeOK' /\ \A r \in Request : RequestOK(r)'
    BY <1>1, TablesKept, TasksKept, RequestsTyped, RequestsKept
  <2>2. TypeOK'
    BY <2>1 DEF TypeOK, TablesOK, TasksOK, RequestsTypeOK
  <2>3. TasksHaveBoards'
    BY <2>1 DEF TasksHaveBoards, TablesOK, TasksOK, TasksFrom, Exists
  <2> QED
    BY <2>1, <2>2, <2>3 DEF IInv, TablesOK
<1>2. CASE UNCHANGED vars
  <2> USE <1>2 DEF vars
  <2>1. TypeOK'
    BY DEF IInv, TypeOK, Table!ATypeOK
  <2>2. TasksHaveBoards'
    BY DEF IInv, TasksHaveBoards, Exists
  <2>3. \A r \in Request : RequestOK(r)'
    BY DEF IInv, RequestOK, Exists, MembersOf
  <2> QED
    BY <2>1, <2>2, <2>3 DEF IInv
<1> QED
  BY <1>1, <1>2

LEMMA Invariance == Spec => []IInv
BY InitInvariant, NextInvariant, PTL DEF Spec

-----------------------------------------------------------------------------
(* The log.                                                                *)

\* What is inserted, whether or not it is ever told.
Inserted(log, t, actions) ==
  {i \in DOMAIN log : log[i].task = t /\ log[i].action \in actions}

CreationIn(log, t) == \E i \in DOMAIN log : log[i].task = t /\ log[i].action = "TASK_CREATED"

\* Only the record of a removal is inserted before its transaction commits, and
\* there is one to a request, about the task it removes.
RemovalsAhead ==
  \A i \in DOMAIN audit :
    LET by == audit[i].by IN
    /\ pc[by] \in {"delete", "done", "rejected"}
    /\ audit[i].action # "TASK_DELETED" => pc[by] = "done"
    /\ audit[i].action = "TASK_DELETED" =>
         /\ pc[by] = "delete" => args[by].on = audit[i].task
         /\ \A j \in DOMAIN audit :
              audit[j].action = "TASK_DELETED" /\ audit[j].by = by => i = j

\* A task whose removal is told is gone, and was removed by one request.
RemovalsFinal ==
  \A i \in DOMAIN audit : audit[i].action = "TASK_DELETED" /\ Committed(i) =>
    /\ ~Exists(audit[i].task)
    /\ \A j \in DOMAIN audit :
         /\ audit[j].action = "TASK_DELETED" /\ Committed(j)
         /\ audit[j].task = audit[i].task
         => i = j

\* A new task's creation is inserted when it is created, and nothing before it.
CreationsFirst ==
  /\ \A i \in DOMAIN audit :
       LET t == audit[i].task IN
       /\ t \in Request => pc[t] = "done"
       /\ t \notin Old => CreationIn(audit, t)
       /\ audit[i].action = "TASK_CREATED" =>
            t \notin Old /\ \A j \in DOMAIN audit : audit[j].task = t => i <= j
  /\ \A t \in Task : Exists(t) /\ t \notin Old => CreationIn(audit, t)
  /\ \A r \in Request :
       pc[r] \in Running /\ args[r].op # "CreateTask" /\ args[r].on \notin Old =>
         CreationIn(audit, args[r].on)

\* AssignmentsTold, of what is inserted.
AssignmentsInserted ==
  \A t \in Task : Exists(t) =>
    LET told == Inserted(audit, t, Assignment) IN
    /\ \A i \in told : Latest(i, told) => audit[i].to = tasks[t].assignedTo
    /\ told = {} /\ t \in Old => tasks[t].assignedTo = Null

LogInv == RemovalsAhead /\ RemovalsFinal /\ CreationsFirst /\ AssignmentsInserted

\* But for removals, all that is inserted is told.
LEMMA ToldIsInserted ==
  ASSUME RemovalsAhead, NEW t, NEW actions, "TASK_DELETED" \notin actions
  PROVE  Told(t, actions) = Inserted(audit, t, actions)
BY DEF RemovalsAhead, Told, Inserted, Committed

-----------------------------------------------------------------------------
(* What a step does to the log.                                            *)

\* One record more: the older ones stay where they are, and what was inserted of
\* t has grown by it, if it is about t.
Grown(log, e, t, actions) ==
  LET n == Len(log) + 1
      more == Append(log, e)
      new == IF e.task = t /\ e.action \in actions THEN {n} ELSE {}
  IN  /\ n \in Nat /\ more[n] = e
      /\ \A i \in Inserted(log, t, actions) : i \in Nat /\ i < n /\ more[i] = log[i]
      /\ Inserted(more, t, actions) = Inserted(log, t, actions) \cup new

LEMMA LogGrows ==
  ASSUME NEW log \in Seq(AuditRecord), NEW e \in AuditRecord
  PROVE  LET n == Len(log) + 1
             more == Append(log, e)
         IN  /\ n \in Nat /\ n \notin DOMAIN log
             /\ DOMAIN more = DOMAIN log \cup {n}
             /\ more[n] = e
             /\ \A i \in DOMAIN log : i \in Nat /\ i < n /\ more[i] = log[i]
<1> DEFINE n == Len(log) + 1
           more == Append(log, e)
<1>1. /\ DOMAIN log = 1..Len(log) /\ Len(log) \in Nat
      /\ DOMAIN more = 1..n
      /\ \A i \in 1..Len(log) : more[i] = log[i]
      /\ more[n] = e
  OBVIOUS
<1>2. \A i : i \in 1..n <=> i \in 1..Len(log) \/ i = n
  BY <1>1
<1> QED
  BY <1>1, <1>2

LEMMA InsertedGrows ==
  ASSUME NEW log \in Seq(AuditRecord), NEW e \in AuditRecord, NEW t, NEW actions
  PROVE  Grown(log, e, t, actions)
<1> DEFINE n == Len(log) + 1
           more == Append(log, e)
<1>1. /\ n \in Nat /\ n \notin DOMAIN log
      /\ DOMAIN more = DOMAIN log \cup {n}
      /\ more[n] = e
      /\ \A i \in DOMAIN log : i \in Nat /\ i < n /\ more[i] = log[i]
  BY LogGrows
<1> HIDE DEF n, more
<1>2. ASSUME NEW i
      PROVE  i \in Inserted(more, t, actions) <=>
               i \in Inserted(log, t, actions) \/ (i = n /\ e.task = t /\ e.action \in actions)
  BY <1>1 DEF Inserted
<1>3. Inserted(more, t, actions) =
        Inserted(log, t, actions) \cup (IF e.task = t /\ e.action \in actions THEN {n} ELSE {})
  BY <1>2
<1>4. \A i \in Inserted(log, t, actions) : i \in Nat /\ i < n /\ more[i] = log[i]
  BY <1>1 DEF Inserted
<1> QED
  BY <1>1, <1>3, <1>4, Zenon DEF Grown, n, more

\* What every step leaves of the requests: those that have ended stay so, one
\* that removes a task goes on with it, and one that is about a task was so, or
\* has found it there.
Standing ==
  \A q \in Request :
    /\ pc[q] \in {"done", "rejected"} => pc'[q] = pc[q]
    /\ pc[q] = "delete" => /\ pc'[q] \in {"delete", "done", "rejected"}
                           /\ pc'[q] = "delete" => args'[q] = args[q]
    /\ pc'[q] \in Running /\ args'[q].op # "CreateTask" =>
         \/ pc[q] \in Running /\ args'[q] = args[q]
         \/ Exists(args'[q].on) /\ args'[q].on \in Task

\* A task there is after a step that tells nothing was there, and is assigned
\* to whom it was.
Unmoved ==
  \A t \in Task : Exists(t)' => /\ Exists(t)
                                /\ tasks'[t].assignedTo = tasks[t].assignedTo

\* A step that inserts nothing and ends no removal.
Silent ==
  /\ audit' = audit
  /\ \A q \in Request : pc[q] = "delete" => pc'[q] # "done"
  /\ Unmoved

\* The record of a removal.
Announces(r, e) ==
  /\ audit' = Append(audit, e)
  /\ e.by = r /\ e.action = "TASK_DELETED" /\ e.task = args[r].on
  /\ pc[r] = "commit" /\ pc'[r] = "delete" /\ args'[r] = args[r]
  /\ args[r].op = "RemoveTask"
  /\ \A q \in Request \ {r} : pc'[q] = pc[q]
  /\ tasks' = tasks

\* The removal.
Removes(r) ==
  /\ audit' = audit
  /\ pc[r] = "delete" /\ pc'[r] = "done"
  /\ \A q \in Request \ {r} : pc'[q] = pc[q]
  /\ Exists(args[r].on) /\ tasks'[args[r].on] = NoTask
  /\ \A t \in Task \ {args[r].on} : tasks'[t] = tasks[t]

\* Any other record, with what it tells done to the task.
Tells(r, e) ==
  /\ audit' = Append(audit, e)
  /\ e.by = r /\ e.action # "TASK_DELETED"
  /\ pc[r] = "commit" /\ pc'[r] = "done"
  /\ \A q \in Request \ {r} : pc'[q] = pc[q]
  /\ \A t \in Task \ {e.task} : tasks'[t] = tasks[t]
  /\ e.action = "TASK_CREATED" => e.task = r
  /\ e.action # "TASK_CREATED" => Exists(e.task)
  /\ e.action \in Assignment => Exists(e.task)' /\ e.to = tasks'[e.task].assignedTo
  /\ e.action \notin Assignment \cup {"TASK_CREATED"} =>
       tasks'[e.task].assignedTo = tasks[e.task].assignedTo

LogStep ==
  \/ Silent
  \/ \E r \in Request :
       Removes(r) \/ \E e \in AuditRecord : Announces(r, e) \/ Tells(r, e)

LEMMA StandingKept ==
  ASSUME IInv, Next
  PROVE  Standing
<1>1. ASSUME NEW q \in Request, Waits(q)
      PROVE  /\ pc'[q] = pc[q]
             /\ pc'[q] \in Running => pc[q] \in Running /\ args'[q] = args[q]
             /\ args'[q] = args[q]
  BY <1>1 DEF Waits
<1>2. ASSUME NEW r \in Request, Step(r)
      PROVE  /\ pc[r] \notin {"done", "rejected"}
             /\ pc[r] = "delete" => pc'[r] \in {"done", "rejected"}
             /\ pc'[r] \in Running /\ args'[r].op # "CreateTask" =>
                  \/ pc[r] \in Running /\ args'[r] = args[r]
                  \/ Exists(args'[r].on) /\ args'[r].on \in Task
  <2>1. CASE Begin(r)
    <3>1. PICK a \in Args : Admitted(a) /\ args'[r] = a
      BY <2>1, BeginEffect
    <3>2. a.op # "CreateTask" => Exists(a.on) /\ a.on \in Task
      BY <3>1, ArgsFields DEF Admitted
    <3> QED
      BY <2>1, <3>1, <3>2, BeginEffect
  <2>2. CASE Validate(r) \/ Find(r) \/ RecordRemoval(r)
    BY <2>2, ValidateEffect, FindEffect, RecordRemovalEffect DEF Running
  <2>3. CASE Transacts(r) \/ Refuse(r) \/ Gone(r) \/ Fail(r)
    <3>1. pc[r] \notin {"done", "rejected"}
      BY <2>3, TransactionEffect DEF Refuse, Gone, Fail, Ready, Running
    <3>2. pc'[r] \in {"done", "rejected"}
      BY <2>3, TransactionEffect, RefusalEffect DEF Finish, Goto, IInv, TypeOK
    <3> QED
      BY <3>1, <3>2 DEF Running
  <2> QED
    BY <1>2, <2>1, <2>2, <2>3 DEF Step, Transacts
<1>3. ASSUME NEW r \in Request, Step(r)
      PROVE  Standing
  BY <1>1, <1>2, <1>3, OthersWait DEF Standing
<1>4. CASE ChangeMembers \/ RemoveBoards
  BY <1>1, <1>4, MovesEffect DEF Standing
<1> QED
  BY <1>3, <1>4 DEF Next

\* updateStatus and updatePriority alike.
LEMMA SetFieldTells ==
  ASSUME IInv, NEW r \in Request,
         NEW field \in {"status", "priority"},
         NEW action \in {"TASK_STATUS_CHANGED", "TASK_PRIORITY_CHANGED"},
         pc[r] = "commit", args[r].op \in FieldOp,
         args[r].to \in Status \cup Priority,
         SetField(r, field, action)
  PROVE  /\ args[r].on \in Task /\ Exists(args[r].on)
         /\ tasks' = [tasks EXCEPT ![args[r].on] = [tasks[args[r].on] EXCEPT ![field] = args[r].to]]
         /\ tasks[args[r].on] \in Row /\ seen[r] \in Row
         /\ \/ seen[r][field] = args[r].to /\ audit' = audit
            \/ Recorded(r, action, args[r].on, seen[r][field], args[r].to)
<1>1. RequestOK(r) /\ args[r] \in Args
  BY OfRequest DEF RequestOK, Running
<1>2. args[r].on \in Task /\ Exists(args[r].on) /\ seen[r] \in Row
  BY <1>1, ArgsFields DEF SetField, Present, RequestOK, FoundOp, FieldOp
<1>3. tasks[args[r].on] \in Row
  BY <1>2, RowFields DEF IInv
<1>4. seen[r][field] \in Status \cup Priority
  BY <1>2 DEF Row
<1> QED
  BY <1>2, <1>3, <1>4, RecordTyped DEF SetField, Write, Action

LEMMA TransactionTells ==
  ASSUME IInv, NEW r \in Request,
         Transacts(r)
  PROVE  Silent \/ Removes(r) \/ \E e \in AuditRecord : Tells(r, e)
<1>1. /\ pc[r] \in {"commit", "delete"} /\ pc'[r] = "done"
      /\ pc[r] = "delete" <=> RemoveTask(r)
      /\ RequestOK(r) /\ r \in Task /\ args[r] \in Args
      /\ \A q \in Request \ {r} : pc'[q] = pc[q]
  BY TransactionEffect, OfRequest DEF IInv, TypeOK, Finish, Goto, RequestOK, Running
<1>2. tasks \in [Task -> Row \cup {NoTask}]
  BY DEF IInv, TypeOK
<1> DEFINE on == args[r].on
<1>3. ASSUME args[r].op # "CreateTask", Present(r)
      PROVE  on \in Task /\ Exists(on) /\ tasks[on] \in Row
  BY <1>1, <1>3, ArgsFields, RowFields DEF IInv, Present
<1>4. CASE CreateTask(r)
  <2>1. PICK e \in AuditRecord : /\ audit' = Append(audit, e) /\ e.by = r
                                 /\ e.action = "TASK_CREATED" /\ e.task = r
    <3>1. Recorded(r, "TASK_CREATED", r, Null, Null)
      BY <1>1, <1>4, RecordTyped DEF CreateTask, Action
    <3> QED
      BY <3>1 DEF Recorded
  <2>2. \A t \in Task \ {r} : tasks'[t] = tasks[t]
    BY <1>2, <1>4 DEF CreateTask, Write
  <2>9. pc[r] = "commit"
    BY <1>4 DEF CreateTask, Ready
  <2> QED
    BY <2>9, <1>1, <2>1, <2>2 DEF Tells, Assignment
<1>5. CASE UpdateTask(r)
  <2>1. on \in Task /\ Exists(on) /\ tasks' = tasks
    BY <1>3, <1>5 DEF UpdateTask, Ready
  <2>2. PICK e \in AuditRecord : /\ audit' = Append(audit, e) /\ e.by = r
                                 /\ e.action = "TASK_UPDATED" /\ e.task = on
    <3>1. Recorded(r, "TASK_UPDATED", on, Null, Null)
      BY <1>5, <2>1, RecordTyped DEF UpdateTask, Action
    <3> QED
      BY <3>1 DEF Recorded
  <2>9. pc[r] = "commit"
    BY <1>5 DEF UpdateTask, Ready
  <2> QED
    BY <2>9, <1>1, <2>1, <2>2 DEF Tells, Assignment, Exists
<1>6. CASE RemoveTask(r)
  <2>1. args[r].op # "CreateTask" /\ Present(r) /\ audit' = audit
    BY <1>1, <1>6 DEF RemoveTask, RequestOK
  <2>2. on \in Task /\ Exists(on) /\ tasks' = [tasks EXCEPT ![on] = NoTask]
    BY <1>3, <1>6, <2>1 DEF RemoveTask, Write
  <2>3. tasks'[on] = NoTask /\ \A t \in Task \ {on} : tasks'[t] = tasks[t]
    BY <1>2, <2>2
  <2> QED
    BY <1>1, <1>6, <2>1, <2>2, <2>3 DEF Removes, Exists
<1>7. CASE AssignTask(r)
  <2>1. /\ on \in Task /\ Exists(on) /\ tasks[on] \in Row /\ args[r].to \in User
        /\ tasks' = [tasks EXCEPT ![on] = [tasks[on] EXCEPT !.assignedTo = args[r].to]]
    BY <1>1, <1>3, <1>7, ArgsFields DEF AssignTask, Ready, Write
  <2>2. PICK e \in AuditRecord : /\ audit' = Append(audit, e) /\ e.by = r
                                 /\ e.action = "TASK_ASSIGNED" /\ e.task = on /\ e.to = args[r].to
    <3>1. Recorded(r, "TASK_ASSIGNED", on, Null, args[r].to)
      BY <1>7, <2>1, RecordTyped DEF AssignTask, Action
    <3> QED
      BY <3>1 DEF Recorded
  <2>3. /\ tasks'[on] \in Row /\ tasks'[on].assignedTo = args[r].to
        /\ \A t \in Task \ {on} : tasks'[t] = tasks[t]
    BY <1>2, <2>1 DEF Row
  <2>9. pc[r] = "commit"
    BY <1>7 DEF AssignTask, Ready
  <2> QED
    BY <2>9, <1>1, <2>1, <2>2, <2>3, NoTaskIsNoRow DEF Tells, Assignment, Exists
<1>8. CASE RemoveAssignee(r)
  <2>1. /\ on \in Task /\ Exists(on) /\ tasks[on] \in Row
        /\ tasks' = [tasks EXCEPT ![on] = [tasks[on] EXCEPT !.assignedTo = Null]]
    BY <1>3, <1>8 DEF RemoveAssignee, Ready, Write
  <2>2. PICK e \in AuditRecord : /\ audit' = Append(audit, e) /\ e.by = r
                                 /\ e.action = "TASK_UNASSIGNED" /\ e.task = on /\ e.to = Null
    <3>1. Recorded(r, "TASK_UNASSIGNED", on, Null, Null)
      BY <1>8, <2>1, RecordTyped DEF RemoveAssignee, Action
    <3> QED
      BY <3>1 DEF Recorded
  <2>3. /\ tasks'[on] \in Row /\ tasks'[on].assignedTo = Null
        /\ \A t \in Task \ {on} : tasks'[t] = tasks[t]
    BY <1>2, <2>1 DEF Row
  <2>9. pc[r] = "commit"
    BY <1>8 DEF RemoveAssignee, Ready
  <2> QED
    BY <2>9, <1>1, <2>1, <2>2, <2>3, NoTaskIsNoRow DEF Tells, Assignment, Exists
<1>9. CASE UpdateStatus(r) \/ UpdatePriority(r)
  <2>0. pc[r] = "commit"
    BY <1>9 DEF UpdateStatus, UpdatePriority, Ready
  <2>1. PICK field \in {"status", "priority"},
             action \in {"TASK_STATUS_CHANGED", "TASK_PRIORITY_CHANGED"} :
               args[r].op \in FieldOp /\ SetField(r, field, action)
    BY <1>9 DEF UpdateStatus, UpdatePriority, Ready, FieldOp
  <2>2. args[r].to \in Status \cup Priority
    BY <1>1, <2>1, ArgsFields DEF FieldOp
  <2>3. /\ on \in Task /\ Exists(on) /\ tasks[on] \in Row
        /\ tasks' = [tasks EXCEPT ![on] = [tasks[on] EXCEPT ![field] = args[r].to]]
        /\ \/ audit' = audit
           \/ Recorded(r, action, on, seen[r][field], args[r].to)
    BY <2>0, <2>1, <2>2, SetFieldTells
  <2>4. /\ tasks'[on].assignedTo = tasks[on].assignedTo
        /\ \A t \in Task \ {on} : tasks'[t] = tasks[t]
    BY <1>2, <2>3 DEF Row
  <2>5. CASE audit' = audit
    BY <1>1, <2>0, <2>3, <2>4, <2>5 DEF Silent, Unmoved, Exists, UpdateStatus, UpdatePriority
  <2>6. ASSUME NEW e \in AuditRecord, audit' = Append(audit, e), e.by = r,
               e.action = action, e.task = on
        PROVE  Tells(r, e)
    BY <1>1, <2>0, <2>3, <2>4, <2>6 DEF Tells, Assignment, Exists
  <2> QED
    BY <2>3, <2>5, <2>6 DEF Recorded
<1> QED
  BY <1>4, <1>5, <1>6, <1>7, <1>8, <1>9 DEF Transacts

LEMMA StepLogs ==
  ASSUME IInv, Next
  PROVE  LogStep
<1>1. UNCHANGED tasks => Unmoved
  BY DEF Unmoved, Exists
<1>2. ASSUME NEW r \in Request, Step(r)
      PROVE  LogStep
  <2>1. CASE Begin(r) \/ Validate(r) \/ Find(r) \/ Refuse(r) \/ Gone(r) \/ Fail(r)
    <3>1. UNCHANGED <<audit, tasks>> /\ (pc'[r] # "done" \/ pc[r] = "done")
      BY <2>1, BeginEffect, ValidateEffect, FindEffect, RefusalEffect
         DEF db, FirstRead, Finish, Goto, IInv, TypeOK
    <3>2. pc[r] # "done"
      BY <2>1 DEF Begin, Validate, Find, Refuse, Gone, Fail, Ready, Running
    <3> QED
      BY <1>1, <1>2, <3>1, <3>2, OthersWait DEF LogStep, Silent, Waits
  <2>2. CASE RecordRemoval(r)
    <3>1. PICK e \in AuditRecord :
            /\ audit' = Append(audit, e)
            /\ e.action = "TASK_DELETED" /\ e.task = args[r].on /\ e.by = r
      BY <2>2, RecordRemovalEffect DEF Recorded
    <3> QED
      BY <2>2, <3>1, RecordRemovalEffect DEF LogStep, Announces, Waits
  <2>3. CASE Transacts(r)
    BY <2>3, TransactionTells DEF LogStep
  <2> QED
    BY <1>2, <2>1, <2>2, <2>3 DEF Step, Transacts
<1>3. CASE ChangeMembers \/ RemoveBoards
  <2>1. audit' = audit /\ pc' = pc /\ Cascade
    BY <1>3 DEF ChangeMembers, RemoveBoards
  <2>2. Unmoved
    BY <2>1 DEF Cascade, Unmoved, Exists
  <2> QED
    BY <2>1, <2>2 DEF LogStep, Silent
<1> QED
  BY <1>2, <1>3 DEF Next

-----------------------------------------------------------------------------
(* The log after a step.                                                   *)

\* Nothing has been inserted of a task that is not created yet.
LEMMA NothingYet ==
  ASSUME IInv, LogInv, NEW r \in Request, pc[r] = "commit"
  PROVE  /\ r \notin Old /\ ~Exists(r)
         /\ \A i \in DOMAIN audit : audit[i].task # r /\ audit[i].by # r
<1>1. ~Exists(r)
  BY OfRequest DEF RequestOK
<1>2. \A i \in DOMAIN audit : audit[i].task # r /\ audit[i].by # r
  BY DEF LogInv, CreationsFirst, RemovalsAhead
<1> QED
  BY <1>1, <1>2, TasksAssumption

\* A task that a record is about has been created.
LEMMA AboutCreated ==
  ASSUME IInv, NEW r \in Request, NEW e \in AuditRecord, Announces(r, e) \/ Tells(r, e),
         e.task \in Request
  PROVE  pc'[e.task] = "done"
<1>1. CASE e.task = r /\ Tells(r, e)
  BY <1>1 DEF Tells
<1>2. CASE e.task # r /\ Tells(r, e)
  BY <1>2, OfRequest DEF Tells, RequestOK
<1>3. CASE Announces(r, e)
  <2>1. args[r].on \in Request => pc[args[r].on] = "done"
    BY <1>3, OfRequest DEF Announces, RequestOK, Running
  <2> QED
    BY <1>3, <2>1 DEF Announces
<1> QED
  BY <1>1, <1>2, <1>3

LEMMA LogTyped ==
  ASSUME IInv
  PROVE  /\ DOMAIN audit \subseteq Nat
         /\ \A i \in DOMAIN audit : /\ audit[i] \in AuditRecord
                                    /\ audit[i].task \in Task /\ audit[i].by \in Request
<1>1. audit \in Seq(AuditRecord)
  BY DEF IInv, TypeOK
<1>2. DOMAIN audit = 1..Len(audit) /\ Len(audit) \in Nat
  BY <1>1
<1>3. \A i \in DOMAIN audit : audit[i] \in AuditRecord
  BY <1>1, <1>2
<1> QED
  BY <1>2, <1>3 DEF AuditRecord

LEMMA NewRecord ==
  ASSUME IInv, NEW r \in Request, NEW e \in AuditRecord, Announces(r, e) \/ Tells(r, e)
  PROVE  \E n \in Nat :
           /\ n \notin DOMAIN audit /\ DOMAIN audit' = DOMAIN audit \cup {n}
           /\ audit'[n] = e
           /\ \A i \in DOMAIN audit : i \in Nat /\ i < n /\ audit'[i] = audit[i]
<1>1. audit \in Seq(AuditRecord) /\ audit' = Append(audit, e)
  BY DEF IInv, TypeOK, Announces, Tells
<1> QED
  BY <1>1, LogGrows

LEMMA RemovalsStayAhead ==
  ASSUME IInv, LogInv, LogStep, Standing
  PROVE  RemovalsAhead'
<1>1. \A i \in DOMAIN audit : audit[i] \in AuditRecord /\ audit[i].by \in Request
  BY LogTyped
<1>2. RemovalsAhead
  BY DEF LogInv
<1>3. ASSUME NEW i \in DOMAIN audit
      PROVE  LET by == audit[i].by IN
             /\ pc'[by] \in {"delete", "done", "rejected"}
             /\ audit[i].action # "TASK_DELETED" => pc'[by] = "done"
             /\ audit[i].action = "TASK_DELETED" /\ pc'[by] = "delete" =>
                  args'[by].on = audit[i].task
  BY <1>1, <1>2, <1>3 DEF RemovalsAhead, Standing
<1>4. CASE audit' = audit
  BY <1>2, <1>3, <1>4 DEF RemovalsAhead
<1>5. ASSUME NEW r \in Request, NEW e \in AuditRecord, Announces(r, e) \/ Tells(r, e)
      PROVE  RemovalsAhead'
  <2>1. PICK n \in Nat :
          /\ n \notin DOMAIN audit /\ DOMAIN audit' = DOMAIN audit \cup {n}
          /\ audit'[n] = e
          /\ \A i \in DOMAIN audit : i \in Nat /\ i < n /\ audit'[i] = audit[i]
    BY <1>5, NewRecord
  <2>2. \A i \in DOMAIN audit : audit[i].by # r
    BY <1>5, NothingYet DEF Announces, Tells
  <2>3. /\ e.by = r /\ pc'[r] \in {"delete", "done"}
        /\ e.action # "TASK_DELETED" => pc'[r] = "done"
        /\ e.action = "TASK_DELETED" => args'[r].on = e.task
    BY <1>5 DEF Announces, Tells
  <2>4. \A i, j \in DOMAIN audit' :
          /\ audit'[i].action = "TASK_DELETED" /\ audit'[j].action = "TASK_DELETED"
          /\ audit'[i].by = audit'[j].by
          => i = j
    BY <1>2, <2>1, <2>2, <2>3 DEF RemovalsAhead
  <2>5. ASSUME NEW i \in DOMAIN audit'
        PROVE  LET by == audit'[i].by IN
               /\ pc'[by] \in {"delete", "done", "rejected"}
               /\ audit'[i].action # "TASK_DELETED" => pc'[by] = "done"
               /\ audit'[i].action = "TASK_DELETED" /\ pc'[by] = "delete" =>
                    args'[by].on = audit'[i].task
    BY <1>3, <2>1, <2>3
  <2> QED
    BY <2>4, <2>5 DEF RemovalsAhead
<1> QED
  BY <1>4, <1>5 DEF LogStep, Silent, Removes

\* A removal that is told was told, and its task stays gone; or it is the one
\* that ends in this step, and its task was there.
LEMMA RemovalsStayFinal ==
  ASSUME IInv, LogInv, LogStep, Standing
  PROVE  RemovalsFinal'
<1> DEFINE Deleted(i) == audit[i].action = "TASK_DELETED" /\ pc[audit[i].by] = "done"
<1>0. /\ RemovalsAhead
      /\ \A i \in DOMAIN audit : Deleted(i) =>
           /\ ~Exists(audit[i].task)
           /\ \A j \in DOMAIN audit : Deleted(j) /\ audit[j].task = audit[i].task => i = j
      /\ \A i \in DOMAIN audit : /\ audit[i].task \in Task /\ audit[i].by \in Request
                                 /\ audit[i].task \in Request => pc[audit[i].task] = "done"
  BY LogTyped DEF LogInv, RemovalsFinal, CreationsFirst, Committed
<1>1. CASE Silent
  <2>1. \A i \in DOMAIN audit : Deleted(i)' => Deleted(i)
    BY <1>0, <1>1 DEF Silent, RemovalsAhead, Standing
  <2>2. \A t \in Task : Exists(t)' => Exists(t)
    BY <1>1 DEF Silent, Unmoved
  <2>3. \A i \in DOMAIN audit : Deleted(i) => tasks'[audit[i].task] = NoTask
    BY <1>0, <2>2 DEF Exists
  <2>4. audit' = audit
    BY <1>1 DEF Silent
  <2>5. \A i \in DOMAIN audit' : Deleted(i)' =>
           /\ tasks'[audit'[i].task] = NoTask
           /\ \A j \in DOMAIN audit' : Deleted(j)' /\ audit'[j].task = audit'[i].task => i = j
    BY <1>0, <2>1, <2>3, <2>4
  <2> QED
    BY <2>5 DEF RemovalsFinal, Committed, Exists
<1>2. ASSUME NEW r \in Request, Removes(r)
      PROVE  RemovalsFinal'
  <2> DEFINE on == args[r].on
  <2>1. audit' = audit /\ Exists(on) /\ tasks'[on] = NoTask
    BY <1>2 DEF Removes, Exists
  <2>2. \A i \in DOMAIN audit : Deleted(i)' =>
          Deleted(i) \/ (audit[i].by = r /\ audit[i].action = "TASK_DELETED" /\ audit[i].task = on)
    BY <1>0, <1>2, <2>1 DEF Removes, RemovalsAhead
  <2>3. \A i \in DOMAIN audit : Deleted(i) => tasks'[audit[i].task] = NoTask /\ audit[i].task # on
    BY <1>0, <1>2, <2>1 DEF Removes, Exists
  <2>4. ASSUME NEW i \in DOMAIN audit, NEW j \in DOMAIN audit, Deleted(i)', Deleted(j)',
               audit[j].task = audit[i].task
        PROVE  i = j
    BY <1>0, <2>2, <2>3, <2>4 DEF RemovalsAhead
  <2>5. \A i \in DOMAIN audit' : Deleted(i)' =>
           /\ tasks'[audit'[i].task] = NoTask
           /\ \A j \in DOMAIN audit' : Deleted(j)' /\ audit'[j].task = audit'[i].task => i = j
    BY <2>1, <2>2, <2>3, <2>4
  <2> QED
    BY <2>5 DEF RemovalsFinal, Committed, Exists
<1>3. ASSUME NEW r \in Request, NEW e \in AuditRecord, Announces(r, e) \/ Tells(r, e)
      PROVE  RemovalsFinal'
  <2>1. PICK n \in Nat :
          /\ n \notin DOMAIN audit /\ DOMAIN audit' = DOMAIN audit \cup {n}
          /\ audit'[n] = e
          /\ \A i \in DOMAIN audit : i \in Nat /\ i < n /\ audit'[i] = audit[i]
    BY <1>3, NewRecord
  <2>2. ~Deleted(n)'
    BY <1>3, <2>1 DEF Announces, Tells
  <2>3. \A i \in DOMAIN audit : audit[i].by # r /\ audit[i].task # r
    BY <1>3, NothingYet DEF Announces, Tells
  <2>4. \A i \in DOMAIN audit : Deleted(i)' => Deleted(i)
    BY <1>0, <1>3, <2>1, <2>3 DEF Announces, Tells
  <2>5. ASSUME NEW i \in DOMAIN audit, Deleted(i)
        PROVE  tasks'[audit[i].task] = NoTask
    <3>1. audit[i].task \in Task /\ ~Exists(audit[i].task) /\ audit[i].task # r
      BY <1>0, <2>3, <2>5
    <3>2. Tells(r, e) => e.task # audit[i].task
      BY <3>1 DEF Tells
    <3> QED
      BY <1>3, <3>1, <3>2 DEF Announces, Tells, Exists
  <2>6. \A i \in DOMAIN audit' : Deleted(i)' =>
           /\ tasks'[audit'[i].task] = NoTask
           /\ \A j \in DOMAIN audit' : Deleted(j)' /\ audit'[j].task = audit'[i].task => i = j
    BY <1>0, <2>1, <2>2, <2>4, <2>5
  <2> QED
    BY <2>6 DEF RemovalsFinal, Committed, Exists
<1> QED
  BY <1>1, <1>2, <1>3 DEF LogStep

LEMMA CreationsStayFirst ==
  ASSUME IInv, LogInv, LogStep, Standing, Next
  PROVE  CreationsFirst'
<1>0. /\ CreationsFirst
      /\ \A i \in DOMAIN audit : audit[i].task \in Task
      /\ \A q \in Request : pc[q] = "done" => pc'[q] = "done"
  BY LogTyped DEF LogInv, Standing
<1>1. ASSUME \A t \in Task : CreationIn(audit, t) => CreationIn(audit', t),
             \A t \in Task : Exists(t)' /\ t \notin Old => CreationIn(audit', t),
             NEW q \in Request, pc'[q] \in Running, args'[q].op # "CreateTask",
             args'[q].on \notin Old
      PROVE  CreationIn(audit', args'[q].on)
  <2>1. CASE pc[q] \in Running /\ args'[q] = args[q]
    <3>1. args[q].on \in Task
      BY <1>1, <2>1, OfRequest, ArgsFields DEF RequestOK
    <3> QED
      BY <1>0, <1>1, <2>1, <3>1 DEF CreationsFirst
  <2>2. CASE Exists(args'[q].on) /\ args'[q].on \in Task
    BY <1>0, <1>1, <2>2 DEF CreationsFirst
  <2> QED
    BY <1>1, <2>1, <2>2 DEF Standing
<1>2. CASE Silent \/ \E r \in Request : Removes(r)
  <2>1. audit' = audit /\ \A t \in Task : Exists(t)' => Exists(t)
    BY <1>2 DEF Silent, Unmoved, Removes, Exists
  <2>2. \A t \in Task : CreationIn(audit, t) => CreationIn(audit', t)
    BY <2>1 DEF CreationIn
  <2>3. \A t \in Task : Exists(t)' /\ t \notin Old => CreationIn(audit', t)
    BY <1>0, <2>1, <2>2 DEF CreationsFirst
  <2>4. \A i \in DOMAIN audit' :
          /\ audit'[i].task \in Request => pc'[audit'[i].task] = "done"
          /\ audit'[i].task \notin Old => CreationIn(audit', audit'[i].task)
          /\ audit'[i].action = "TASK_CREATED" =>
               /\ audit'[i].task \notin Old
               /\ \A j \in DOMAIN audit' : audit'[j].task = audit'[i].task => i <= j
    BY <1>0, <2>1, <2>2 DEF CreationsFirst
  <2> QED
    BY <1>1, <2>2, <2>3, <2>4 DEF CreationsFirst, CreationIn
<1>3. ASSUME NEW r \in Request, NEW e \in AuditRecord, Announces(r, e) \/ Tells(r, e)
      PROVE  CreationsFirst'
  <2>1. PICK n \in Nat :
          /\ n \notin DOMAIN audit /\ DOMAIN audit' = DOMAIN audit \cup {n}
          /\ audit'[n] = e
          /\ \A i \in DOMAIN audit : i \in Nat /\ i < n /\ audit'[i] = audit[i]
    BY <1>3, NewRecord
  <2>2. \A t \in Task : CreationIn(audit, t) => CreationIn(audit', t)
    BY <2>1 DEF CreationIn
  <2>3. e.task \in Task
    BY DEF AuditRecord
  <2>4. r \notin Old /\ \A i \in DOMAIN audit : audit[i].task # r
    BY <1>3, NothingYet DEF Announces, Tells
  <2>5. CASE Tells(r, e) /\ e.action = "TASK_CREATED"
    <3>1. e.task = r /\ CreationIn(audit', r) /\ pc'[r] = "done"
      BY <2>1, <2>5 DEF Tells, CreationIn
    <3>2. \A t \in Task : Exists(t)' /\ t \notin Old => CreationIn(audit', t)
      <4>1. \A t \in Task \ {r} : Exists(t)' => Exists(t)
        BY <2>5, <3>1 DEF Tells, Exists
      <4> QED
        BY <1>0, <2>2, <3>1, <4>1 DEF CreationsFirst
    <3>3. \A i \in DOMAIN audit' :
            /\ audit'[i].task \in Request => pc'[audit'[i].task] = "done"
            /\ audit'[i].task \notin Old => CreationIn(audit', audit'[i].task)
      BY <1>0, <2>1, <2>2, <3>1 DEF CreationsFirst
    <3>4. \A i \in DOMAIN audit' : audit'[i].action = "TASK_CREATED" =>
               /\ audit'[i].task \notin Old
               /\ \A j \in DOMAIN audit' : audit'[j].task = audit'[i].task => i <= j
      BY <1>0, <2>1, <2>4, <3>1 DEF CreationsFirst
    <3> QED
      BY <1>1, <2>2, <3>2, <3>3, <3>4 DEF CreationsFirst, CreationIn
  <2>6. CASE ~(Tells(r, e) /\ e.action = "TASK_CREATED")
    <3>1. e.action # "TASK_CREATED"
      BY <1>3, <2>6 DEF Announces
    <3>2. e.task \notin Old => CreationIn(audit, e.task)
      BY <1>0, <1>3, <2>3, <3>1 DEF Announces, Tells, CreationsFirst, Running
    <3>3. \A t \in Task : Exists(t)' => Exists(t)
      BY <1>3, <3>1 DEF Announces, Tells, Exists
    <3>4. \A t \in Task : Exists(t)' /\ t \notin Old => CreationIn(audit', t)
      BY <1>0, <2>2, <3>3 DEF CreationsFirst
    <3>5. e.task \in Request => pc'[e.task] = "done"
      BY <1>3, AboutCreated
    <3>6. \A i \in DOMAIN audit' :
            /\ audit'[i].task \in Request => pc'[audit'[i].task] = "done"
            /\ audit'[i].task \notin Old => CreationIn(audit', audit'[i].task)
      BY <1>0, <2>1, <2>2, <2>3, <3>2, <3>5 DEF CreationsFirst
    <3>7. \A i \in DOMAIN audit' : audit'[i].action = "TASK_CREATED" =>
               /\ audit'[i].task \notin Old
               /\ \A j \in DOMAIN audit' : audit'[j].task = audit'[i].task => i <= j
      BY <1>0, <2>1, <3>1 DEF CreationsFirst
    <3> QED
      BY <1>1, <2>2, <3>4, <3>6, <3>7 DEF CreationsFirst, CreationIn
  <2> QED
    BY <2>5, <2>6
<1> QED
  BY <1>2, <1>3 DEF LogStep

LEMMA AssignmentsStayInserted ==
  ASSUME IInv, LogInv, LogStep
  PROVE  AssignmentsInserted'
<1>0. \A t \in Task : Exists(t) =>
        /\ \A i \in Inserted(audit, t, Assignment) :
             Latest(i, Inserted(audit, t, Assignment)) => audit[i].to = tasks[t].assignedTo
        /\ Inserted(audit, t, Assignment) = {} /\ t \in Old => tasks[t].assignedTo = Null
  BY DEF LogInv, AssignmentsInserted
<1>1. CASE Silent \/ \E r \in Request : Removes(r)
  <2>1. /\ audit' = audit
        /\ \A t \in Task : tasks'[t] # NoTask =>
             Exists(t) /\ tasks'[t].assignedTo = tasks[t].assignedTo
    BY <1>1 DEF Silent, Unmoved, Removes, Exists
  <2> QED
    BY <1>0, <2>1 DEF AssignmentsInserted, Exists, Latest
<1>2. ASSUME NEW r \in Request, NEW e \in AuditRecord, Announces(r, e) \/ Tells(r, e),
             NEW t \in Task, tasks'[t] # NoTask
      PROVE  LET more == Inserted(audit', t, Assignment) IN
             /\ \A i \in more : Latest(i, more) => audit'[i].to = tasks'[t].assignedTo
             /\ more = {} /\ t \in Old => tasks'[t].assignedTo = Null
  <2> DEFINE n == Len(audit) + 1
             told == Inserted(audit, t, Assignment)
             more == Inserted(audit', t, Assignment)
  <2>1. /\ n \in Nat /\ audit'[n] = e
        /\ \A i \in told : i \in Nat /\ i < n /\ audit'[i] = audit[i]
        /\ more = told \cup (IF e.task = t /\ e.action \in Assignment THEN {n} ELSE {})
    <3>1. audit \in Seq(AuditRecord) /\ audit' = Append(audit, e)
      BY <1>2 DEF IInv, TypeOK, Announces, Tells
    <3>2. Grown(audit, e, t, Assignment)
      BY <3>1, InsertedGrows
    <3> QED
      BY <3>1, <3>2 DEF Grown
  <2>2. r \notin Old /\ ~Exists(r) /\ \A i \in DOMAIN audit : audit[i].task # r
    BY <1>2, NothingYet DEF Announces, Tells
  <2>3. CASE e.task = t /\ e.action \in Assignment
    <3>1. more = told \cup {n} /\ e.to = tasks'[t].assignedTo
      BY <1>2, <2>1, <2>3 DEF Announces, Tells, Assignment
    <3> QED
      BY <2>1, <3>1 DEF Latest
  <2>4. CASE e.task = t /\ e.action = "TASK_CREATED"
    <3>1. t = r
      BY <1>2, <2>4 DEF Announces, Tells
    <3>2. told = {} /\ more = told
      BY <2>1, <2>2, <2>4, <3>1 DEF Inserted, Assignment
    <3> QED
      BY <2>2, <3>1, <3>2
  <2>5. CASE ~(e.task = t /\ e.action \in Assignment \cup {"TASK_CREATED"})
    <3>1. more = told
      BY <2>1, <2>5
    <3>2. Exists(t) /\ tasks'[t].assignedTo = tasks[t].assignedTo
      BY <1>2, <2>5 DEF Announces, Tells, Exists
    <3> QED
      BY <1>0, <2>1, <3>1, <3>2 DEF Latest
  <2> QED
    BY <2>3, <2>4, <2>5
<1>3. ASSUME NEW r \in Request, NEW e \in AuditRecord, Announces(r, e) \/ Tells(r, e)
      PROVE  AssignmentsInserted'
  BY <1>2, <1>3 DEF AssignmentsInserted, Exists, Latest, Inserted
<1> QED
  BY <1>1, <1>3 DEF LogStep

LEMMA LogKept ==
  ASSUME IInv, LogInv, Next
  PROVE  LogInv'
<1>1. LogStep /\ Standing
  BY StepLogs, StandingKept
<1> QED
  BY <1>1, RemovalsStayAhead, RemovalsStayFinal, CreationsStayFirst, AssignmentsStayInserted
     DEF LogInv

LEMMA LogInvariance == Spec => [](IInv /\ LogInv)
<1>1. Init => IInv /\ LogInv
  <2> SUFFICES ASSUME Init
               PROVE  LogInv
    BY InitInvariant
  <2>1. /\ DOMAIN audit = {} /\ \A t, actions : Inserted(audit, t, actions) = {}
        /\ \A r \in Request : pc[r] \notin Running
    BY DEF Init, Inserted, Running
  <2>2. \A t \in Task : Exists(t) => t \in Old /\ tasks[t].assignedTo = Null
    BY DEF Init, Exists
  <2> QED
    BY <2>1, <2>2
       DEF LogInv, RemovalsAhead, RemovalsFinal, CreationsFirst, AssignmentsInserted
<1>2. IInv /\ LogInv /\ [Next]_vars => (IInv /\ LogInv)'
  <2> SUFFICES ASSUME IInv, LogInv, [Next]_vars
               PROVE  LogInv'
    BY NextInvariant
  <2>1. CASE UNCHANGED vars
    <3>1. RemovalsAhead' /\ RemovalsFinal'
      BY <2>1 DEF vars, LogInv, RemovalsAhead, RemovalsFinal, Committed, Exists
    <3>2. CreationsFirst'
      BY <2>1 DEF vars, LogInv, CreationsFirst, CreationIn, Exists
    <3>3. AssignmentsInserted'
      BY <2>1 DEF vars, LogInv, AssignmentsInserted, Inserted, Latest, Exists
    <3> QED
      BY <3>1, <3>2, <3>3 DEF LogInv
  <2> QED
    BY <2>1, LogKept
<1> QED
  BY <1>1, <1>2, PTL DEF Spec

-----------------------------------------------------------------------------
(* What the log tells.                                                     *)

LEMMA FramesTold ==
  ASSUME IInv, LogInv
  PROVE  AuditFramesTask
<1>1. RemovalsAhead /\ RemovalsFinal /\ CreationsFirst
  BY DEF LogInv
<1>2. ASSUME NEW t \in Task
      PROVE  LET told == Told(t, Action) IN
             /\ \A i \in told :
                  audit[i].action = "TASK_CREATED" <=> Earliest(i, told) /\ t \notin Old
             /\ \A i, j \in Told(t, {"TASK_DELETED"}) : i = j /\ ~Exists(t)
             /\ Exists(t) /\ t \notin Old => told # {}
  <2> DEFINE told == Told(t, Action)
  <2>1. /\ DOMAIN audit \subseteq Nat
        /\ \A i \in told : i \in DOMAIN audit /\ audit[i].task = t
    BY LogTyped DEF Told
  <2>2. CreationIn(audit, t) => \E i \in told : audit[i].action = "TASK_CREATED"
    BY <1>1 DEF CreationIn, RemovalsAhead, Told, Committed, Action
  <2>3. \A i \in told : audit[i].action = "TASK_CREATED" => Earliest(i, told) /\ t \notin Old
    BY <1>1, <2>1 DEF CreationsFirst, Earliest
  <2>4. ASSUME NEW i \in told, Earliest(i, told), t \notin Old
        PROVE  audit[i].action = "TASK_CREATED"
    <3>1. PICK j \in told : audit[j].action = "TASK_CREATED"
      BY <1>1, <2>1, <2>2, <2>4 DEF CreationsFirst
    <3>2. i <= j /\ j <= i
      BY <2>1, <2>3, <2>4, <3>1 DEF Earliest
    <3> QED
      BY <2>1, <3>1, <3>2
  <2>5. \A i, j \in Told(t, {"TASK_DELETED"}) : i = j /\ ~Exists(t)
    BY <1>1 DEF RemovalsFinal, Told
  <2>6. Exists(t) /\ t \notin Old => told # {}
    BY <1>1, <2>2 DEF CreationsFirst
  <2> QED
    BY <2>3, <2>4, <2>5, <2>6
<1> QED
  BY <1>2 DEF AuditFramesTask

LEMMA AssignmentsToldInserted ==
  ASSUME LogInv
  PROVE  AssignmentsTold
<1>1. \A t : Told(t, Assignment) = Inserted(audit, t, Assignment)
  BY ToldIsInserted DEF LogInv, Assignment
<1> QED
  BY <1>1 DEF LogInv, AssignmentsInserted, AssignmentsTold

\* Of a task whose removal is told, no record is added that is ever told, and
\* none of those there are is told now.
LEMMA ClosedStep ==
  ASSUME IInv, LogInv, Next, NEW t \in Task, Told(t, {"TASK_DELETED"}) # {}
  PROVE  Told(t, Action)' = Told(t, Action)
<1>1. LogStep /\ Standing /\ RemovalsAhead
  BY StepLogs, StandingKept DEF LogInv
<1>2. /\ ~Exists(t)
      /\ \E i \in DOMAIN audit : audit[i].task = t
      /\ \A i \in DOMAIN audit : audit[i].by \in Request
  BY LogTyped DEF LogInv, RemovalsFinal, Told
<1>3. ASSUME audit' = audit,
             \A i \in DOMAIN audit : audit[i].task = t =>
               (pc'[audit[i].by] = "done" <=> pc[audit[i].by] = "done")
      PROVE  Told(t, Action)' = Told(t, Action)
  BY <1>3 DEF Told, Committed
<1>4. CASE Silent
  BY <1>1, <1>2, <1>3, <1>4 DEF Silent, RemovalsAhead, Standing
<1>5. ASSUME NEW r \in Request, Removes(r)
      PROVE  Told(t, Action)' = Told(t, Action)
  <2>1. ASSUME NEW i \in DOMAIN audit, audit[i].task = t
        PROVE  pc'[audit[i].by] = pc[audit[i].by]
    <3>1. audit[i].by # r
      BY <1>1, <1>2, <1>5, <2>1 DEF Removes, RemovalsAhead
    <3> QED
      BY <1>2, <1>5, <3>1 DEF Removes
  <2> QED
    BY <1>3, <1>5, <2>1 DEF Removes
<1>6. ASSUME NEW r \in Request, NEW e \in AuditRecord, Announces(r, e) \/ Tells(r, e)
      PROVE  Told(t, Action)' = Told(t, Action)
  <2>1. PICK n \in Nat :
          /\ n \notin DOMAIN audit /\ DOMAIN audit' = DOMAIN audit \cup {n}
          /\ audit'[n] = e
          /\ \A i \in DOMAIN audit : i \in Nat /\ i < n /\ audit'[i] = audit[i]
    BY <1>6, NewRecord
  <2>2. \A i \in DOMAIN audit : audit[i].by # r /\ audit[i].task # r
    BY <1>6, NothingYet DEF Announces, Tells
  <2>3. \A i \in DOMAIN audit : pc'[audit[i].by] = pc[audit[i].by]
    BY <1>2, <1>6, <2>2 DEF Announces, Tells
  <2>4. e.task = t => pc'[e.by] # "done"
    BY <1>2, <1>6, <2>2 DEF Announces, Tells
  <2>5. \A i : i \in Told(t, Action)' <=> i \in Told(t, Action)
    BY <2>1, <2>3, <2>4 DEF Told, Committed
  <2> QED
    BY <2>5
<1> QED
  BY <1>1, <1>4, <1>5, <1>6 DEF LogStep

\* Coherent, of what is inserted.
Chain(t, field, action) ==
  LET told == Inserted(audit, t, {action}) IN
  \A i \in told :
    /\ \A j \in told : i < j /\ (\A k \in told : k <= i \/ j <= k)
         => audit[j].from = audit[i].to
    /\ Latest(i, told) => audit[i].to = tasks[t][field]

\* What a step can do to the chain of a field: nothing, unless it is the commit
\* of a request for that field of that task.
LEMMA ChainKept ==
  ASSUME IInv, NEW t \in Task, NEW field, NEW action, Chain(t, field, action),
         Inserted(audit, t, {action})' = Inserted(audit, t, {action}),
         \A i \in Inserted(audit, t, {action}) : audit'[i] = audit[i],
         tasks'[t][field] = tasks[t][field]
  PROVE  Chain(t, field, action)'
<1> DEFINE told == Inserted(audit, t, {action})
<1>1. told' = told /\ \A i \in told : audit'[i] = audit[i]
  BY DEF told
<1>2. \A i \in told :
        /\ \A j \in told : i < j /\ (\A k \in told : k <= i \/ j <= k) => audit[j].from = audit[i].to
        /\ Latest(i, told) => audit[i].to = tasks[t][field]
  BY DEF told, Chain
<1>3. \A i \in told' :
        /\ \A j \in told' : i < j /\ (\A k \in told' : k <= i \/ j <= k) => audit'[j].from = audit'[i].to
        /\ Latest(i, told') => audit'[i].to = tasks'[t][field]
  BY <1>1, <1>2
<1> QED
  BY <1>3 DEF Chain, told, Latest

LEMMA ChainGrows ==
  ASSUME IInv, NEW t \in Task, NEW field, NEW action, NEW e \in AuditRecord,
         Chain(t, field, action),
         audit' = Append(audit, e), e.task = t, e.action = action,
         e.from = tasks[t][field], e.to = tasks'[t][field]
  PROVE  Chain(t, field, action)'
<1> DEFINE told == Inserted(audit, t, {action})
           more == Inserted(audit, t, {action})'
           n == Len(audit) + 1
<1>1. /\ n \in Nat /\ audit'[n] = e
      /\ \A i \in told : i \in Nat /\ i < n /\ audit'[i] = audit[i]
      /\ more = told \cup {n}
  <2>1. Grown(audit, e, t, {action})
    BY InsertedGrows DEF IInv, TypeOK
  <2>2. more = Inserted(audit', t, {action})
    BY DEF Inserted
  <2> QED
    BY <2>1, <2>2 DEF Grown
<1>2. \A i \in told :
        /\ \A j \in told : i < j /\ (\A k \in told : k <= i \/ j <= k) => audit[j].from = audit[i].to
        /\ Latest(i, told) => audit[i].to = tasks[t][field]
  BY DEF Chain
<1> HIDE DEF told, more, n
<1>3. ASSUME NEW i \in more, NEW j \in more, i < j, \A k \in more : k <= i \/ j <= k
      PROVE  audit'[j].from = audit'[i].to
  <2>1. i \in told /\ audit'[i] = audit[i]
    <3>1. ASSUME i = n
          PROVE  FALSE
      BY <1>1, <1>3, <3>1
    <3> QED
      BY <1>1, <3>1
  <2>2. CASE j = n
    <3>1. Latest(i, told)
      BY <1>1, <1>3, <2>1, <2>2 DEF Latest
    <3> QED
      BY <1>1, <1>2, <2>1, <2>2, <3>1
  <2>3. CASE j \in told
    BY <1>1, <1>2, <1>3, <2>1, <2>3
  <2> QED
    BY <1>1, <2>2, <2>3
<1>4. ASSUME NEW i \in more, Latest(i, more)
      PROVE  audit'[i].to = tasks'[t][field]
  <2>1. ~(i < n)
    BY <1>1, <1>4 DEF Latest
  <2>2. i = n
    BY <1>1, <2>1
  <2> QED
    BY <1>1, <2>2
<1>5. \A i \in more :
        /\ \A j \in more : i < j /\ (\A k \in more : k <= i \/ j <= k) => audit'[j].from = audit'[i].to
        /\ Latest(i, more) => audit'[i].to = tasks'[t][field]
  BY <1>3, <1>4
<1> QED
  BY <1>5 DEF Chain, Latest, more

LEMMA ChainElsewhere ==
  ASSUME IInv, NEW t \in Task, NEW field, NEW action, Chain(t, field, action),
         tasks'[t][field] = tasks[t][field],
         \/ audit' = audit
         \/ \E e \in AuditRecord : audit' = Append(audit, e) /\ ~(e.task = t /\ e.action = action)
  PROVE  Chain(t, field, action)'
<1>1. CASE audit' = audit
  <2>1. Inserted(audit, t, {action})' = Inserted(audit, t, {action})
    BY <1>1 DEF Inserted
  <2> QED
    BY <1>1, <2>1, ChainKept
<1>2. ASSUME NEW e \in AuditRecord, audit' = Append(audit, e), ~(e.task = t /\ e.action = action)
      PROVE  Chain(t, field, action)'
  <2>1. /\ Inserted(audit', t, {action}) = Inserted(audit, t, {action})
        /\ \A i \in Inserted(audit, t, {action}) : audit'[i] = audit[i]
    <3>1. Grown(audit, e, t, {action})
      BY <1>2, InsertedGrows DEF IInv, TypeOK
    <3> QED
      BY <1>2, <3>1 DEF Grown
  <2>2. Inserted(audit, t, {action})' = Inserted(audit, t, {action})
    BY <2>1 DEF Inserted
  <2> QED
    BY <2>1, <2>2, ChainKept
<1> QED
  BY <1>1, <1>2

\* The fields LogDriftIsStale speaks of, with the action that tells of each.
Tracked == {<<"status", "TASK_STATUS_CHANGED">>, <<"priority", "TASK_PRIORITY_CHANGED">>}

Stale(t, field) ==
  \E r \in Request : Commits(r) /\ args[r].on = t /\ seen[r][field] # tasks[t][field]

LEMMA SetFieldDrift ==
  ASSUME IInv, NEW r \in Request, NEW g \in Tracked, SetField(r, g[1], g[2]),
         pc[r] = "commit", args[r].op \in FieldOp,
         args[r].to \in Status \cup Priority,
         NEW t \in Task, NEW f \in Tracked, Exists(t), Chain(t, f[1], f[2]),
         ~Stale(t, f[1])
  PROVE  Chain(t, f[1], f[2])'
<1> DEFINE on == args[r].on
<1>1. /\ on \in Task /\ Exists(on)
      /\ tasks' = [tasks EXCEPT ![on] = [tasks[on] EXCEPT ![g[1]] = args[r].to]]
      /\ tasks[on] \in Row /\ seen[r] \in Row
      /\ \/ seen[r][g[1]] = args[r].to /\ audit' = audit
         \/ Recorded(r, g[2], on, seen[r][g[1]], args[r].to)
  <2>1. /\ g[1] \in {"status", "priority"}
        /\ g[2] \in {"TASK_STATUS_CHANGED", "TASK_PRIORITY_CHANGED"}
    BY DEF Tracked
  <2> QED
    BY <2>1, SetFieldTells
<1>2. tasks \in [Task -> Row \cup {NoTask}]
  BY DEF IInv, TypeOK
<1>3. CASE on # t
  <2>1. tasks'[t] = tasks[t]
    BY <1>1, <1>2, <1>3
  <2> QED
    BY <1>1, <1>3, <2>1, ChainElsewhere DEF Recorded
<1>4. CASE on = t /\ f # g
  <2>1. f[1] # g[1] /\ f[2] # g[2] /\ f[1] \in {"status", "priority"}
    BY <1>4 DEF Tracked
  <2>2. tasks'[t][f[1]] = tasks[t][f[1]]
    BY <1>1, <1>2, <1>4, <2>1 DEF Row
  <2> QED
    BY <1>1, <2>1, <2>2, ChainElsewhere DEF Recorded
<1>5. CASE on = t /\ f = g
  <2>1. Commits(r)
    BY DEF SetField, Commit, Finish, Goto, Commits, IInv, TypeOK
  <2>2. seen[r][f[1]] = tasks[t][f[1]]
    BY <1>5, <2>1 DEF Stale
  <2>3. f[1] \in {"status", "priority"}
    BY DEF Tracked
  <2>4. tasks'[t][f[1]] = args[r].to
    BY <1>1, <1>2, <1>5, <2>3 DEF Row
  <2>5. CASE seen[r][g[1]] = args[r].to /\ audit' = audit
    BY <1>5, <2>2, <2>4, <2>5, ChainElsewhere
  <2>6. ASSUME NEW e \in AuditRecord, audit' = Append(audit, e),
               e.action = g[2], e.task = on, e.from = seen[r][g[1]], e.to = args[r].to
        PROVE  Chain(t, f[1], f[2])'
    BY <1>5, <2>2, <2>4, <2>6, ChainGrows
  <2> QED
    BY <1>1, <2>5, <2>6 DEF Recorded
<1> QED
  BY <1>3, <1>4, <1>5

LEMMA DriftStep ==
  ASSUME IInv, Next, NEW t \in Task, NEW f \in Tracked,
         tasks'[t] # NoTask, Exists(t), Chain(t, f[1], f[2]), ~Stale(t, f[1])
  PROVE  Chain(t, f[1], f[2])'
<1> DEFINE Same == tasks'[t][f[1]] = tasks[t][f[1]]
<1>1. tasks \in [Task -> Row \cup {NoTask}] /\ tasks[t] \in Row
  BY RowFields DEF IInv, TypeOK
<1>2. f[1] \in {"status", "priority"} /\ f[2] \in {"TASK_STATUS_CHANGED", "TASK_PRIORITY_CHANGED"}
  BY DEF Tracked
<1>3. ASSUME Cascade, audit' = audit
      PROVE  Chain(t, f[1], f[2])'
  BY <1>3, ChainElsewhere DEF Cascade
<1>4. ASSUME UNCHANGED <<tasks, audit>>
      PROVE  Chain(t, f[1], f[2])'
  BY <1>4, ChainElsewhere
<1>5. ASSUME NEW r \in Request, Step(r)
      PROVE  Chain(t, f[1], f[2])'
  <2>1. CASE Begin(r) \/ Validate(r) \/ Find(r) \/ Refuse(r) \/ Gone(r) \/ Fail(r)
    BY <1>4, <2>1, RefusalEffect DEF Begin, Validate, Find, db
  <2>2. CASE CreateTask(r)
    <3>1. /\ RequestOK(r) /\ pc[r] = "commit" /\ r \in Task
      BY <2>2, OfRequest DEF CreateTask, Ready
    <3>2. r # t /\ tasks'[t] = tasks[t]
      BY <1>1, <2>2, <3>1 DEF CreateTask, Write, RequestOK
    <3>3. Recorded(r, "TASK_CREATED", r, Null, Null)
      BY <2>2, <3>1, RecordTyped DEF CreateTask, Action
    <3> QED
      BY <3>2, <3>3, ChainElsewhere DEF Recorded
  <2>5. CASE RecordRemoval(r)
    BY <1>2, <2>5, RecordRemovalEffect, ChainElsewhere DEF Recorded
  <2>6. CASE RemoveTask(r)
    <3>1. tasks'[t] = tasks[t] /\ audit' = audit
      BY <1>1, <2>6 DEF RemoveTask, Write
    <3> QED
      BY <3>1, ChainElsewhere
  <2>3. CASE UpdateTask(r) \/ AssignTask(r) \/ RemoveAssignee(r)
    <3>1. /\ pc[r] = "commit" /\ RequestOK(r) /\ args[r] \in Args
          /\ args[r].op # "CreateTask" /\ Present(r)
      BY <2>3, OfRequest
         DEF UpdateTask, AssignTask, RemoveAssignee, Ready, RequestOK, Running
    <3>2. args[r].on \in Task /\ (args[r].op = "AssignTask" => args[r].to \in User)
      BY <3>1, ArgsFields
    <3>3. \E action \in {"TASK_UPDATED", "TASK_ASSIGNED", "TASK_UNASSIGNED"},
             to \in User \cup {Null} : Recorded(r, action, args[r].on, Null, to)
      BY <1>2, <2>3, <3>2, RecordTyped
         DEF UpdateTask, AssignTask, RemoveAssignee, Ready, Action
    <3>4. Same
      BY <1>1, <1>2, <2>3, <3>2
         DEF UpdateTask, AssignTask, RemoveAssignee, Write, Row
    <3> QED
      BY <1>2, <3>3, <3>4, ChainElsewhere DEF Recorded
  <2>4. CASE UpdateStatus(r) \/ UpdatePriority(r)
    <3>1. /\ pc[r] = "commit" /\ RequestOK(r) /\ args[r] \in Args /\ args[r].op \in FieldOp
      BY <2>4, OfRequest DEF UpdateStatus, UpdatePriority, Ready, RequestOK, Running, FieldOp
    <3>2. args[r].to \in Status \cup Priority
      BY <3>1, ArgsFields DEF FieldOp
    <3>3. \E g \in Tracked : SetField(r, g[1], g[2])
      BY <2>4 DEF UpdateStatus, UpdatePriority, Tracked
    <3> QED
      BY <3>1, <3>2, <3>3, SetFieldDrift
  <2> QED
    BY <1>5, <2>1, <2>2, <2>3, <2>4, <2>5, <2>6 DEF Step
<1> QED
  BY <1>3, <1>5 DEF Next, ChangeMembers, RemoveBoards

-----------------------------------------------------------------------------
(* What a reader should know of.                                          *)

\* The tables, the log and the requests are always what the code can make them.
THEOREM TypeCorrect == Spec => []TypeOK
<1>1. IInv => TypeOK
  BY DEF IInv
<1> QED
  BY <1>1, Invariance, PTL

\* Whatever is removed while a task is created or changed, none is left without
\* its board, in a live organization.
THEOREM HaveBoards == Spec => []TasksHaveBoards
<1>1. IInv => TasksHaveBoards
  BY DEF IInv
<1> QED
  BY <1>1, Invariance, PTL

\* validateAssignee looks before the transaction writes; what it has seen may
\* have changed by then, but only by the member's leaving after the request's
\* guard: nobody is assigned a task of an organization he was not in meanwhile.
THEOREM AssigneesWere == Spec => AssigneesWereMembers
<1>1. IInv /\ [Next]_vars =>
        [\A t \in Task :
           tasks'[t].assignedTo \notin {Null, tasks[t].assignedTo} =>
             \E r \in Request :
               /\ Commits(r) /\ t \in {r, args[r].on}
               /\ org[r] = OrgOf[tasks'[t].board]
               /\ tasks'[t].assignedTo \in met[r]]_vars
  <2> SUFFICES ASSUME IInv, Next, NEW t \in Task,
                      tasks'[t].assignedTo \notin {Null, tasks[t].assignedTo}
               PROVE  Chosen(t, OrgOf[tasks'[t].board], tasks'[t].assignedTo)
    BY DEF Chosen
  <2>1. TasksFrom(t)
    BY TasksKept DEF TasksOK
  <2>2. tasks'[t] # NoTask
    BY DEF NoTask
  <2> QED
    BY <2>1, <2>2 DEF TasksFrom
<1> QED
  BY <1>1, Invariance, PTL DEF Spec, AssigneesWereMembers

\* Whoever creates, changes and removes a task at the same time, its records
\* begin with its creation, tell of one removal at most, and of none while it is
\* there: the transaction whose delete finds nothing takes its record back.
THEOREM AuditFrames == Spec => []AuditFramesTask
BY LogInvariance, FramesTold, PTL

\* A removal is recorded before the row is locked, so records of others may be
\* dated after it; but they are in the log by the time it is told, and none
\* comes later.
THEOREM DeletionCloses == Spec => DeletionClosesLog
<1>1. IInv /\ LogInv /\ [Next]_vars =>
        [\A t \in Task :
           Told(t, {"TASK_DELETED"}) # {} => Told(t, Action)' = Told(t, Action)]_vars
  BY ClosedStep
<1> QED
  BY <1>1, LogInvariance, PTL DEF Spec, DeletionClosesLog

\* assignTask and removeAssignee may overlap, but their records come in the
\* order of their writes.
THEOREM AssignmentsAreTold == Spec => []AssignmentsTold
<1>1. IInv /\ LogInv => AssignmentsTold
  BY AssignmentsToldInserted
<1> QED
  BY <1>1, LogInvariance, PTL

LEMMA CoherentIsChain ==
  ASSUME LogInv, NEW t \in Task, NEW f \in Tracked
  PROVE  Coherent(t, f[1], f[2]) <=> Chain(t, f[1], f[2])
<1>1. f[2] # "TASK_DELETED"
  BY DEF Tracked
<1>2. Told(t, {f[2]}) = Inserted(audit, t, {f[2]})
  BY <1>1, ToldIsInserted DEF LogInv
<1> QED
  BY <1>2 DEF Coherent, Chain

\* updateStatus and updatePriority record the value they read before their
\* transaction; that is the only way the records of a field can come apart.
THEOREM DriftIsStale == Spec => LogDriftIsStale
<1> DEFINE A(t, f) ==
             /\ Exists(t)' /\ ~Coherent(t, f[1], f[2])'
             /\ Exists(t) /\ Coherent(t, f[1], f[2])
             => Stale(t, f[1])
<1>1. IInv /\ LogInv /\ (LogInv)' /\ [Next]_vars =>
        [\A t \in Task : \A f \in {<<"status", "TASK_STATUS_CHANGED">>,
                                   <<"priority", "TASK_PRIORITY_CHANGED">>} :
           /\ Exists(t)' /\ ~Coherent(t, f[1], f[2])'
           /\ Exists(t) /\ Coherent(t, f[1], f[2])
           => \E r \in Request : Commits(r) /\ args[r].on = t
                                 /\ seen[r][f[1]] # tasks[t][f[1]]]_vars
  <2> SUFFICES ASSUME IInv, LogInv, LogInv', Next
               PROVE  \A t \in Task : \A f \in Tracked : A(t, f)
    BY DEF Tracked, Stale
  <2>1. ASSUME NEW t \in Task, NEW f \in Tracked
        PROVE  /\ Coherent(t, f[1], f[2]) <=> Chain(t, f[1], f[2])
               /\ Coherent(t, f[1], f[2])' <=> Chain(t, f[1], f[2])'
    <3>1. f[2] # "TASK_DELETED" /\ RemovalsAhead /\ RemovalsAhead'
      BY DEF Tracked, LogInv
    <3>2. Told(t, {f[2]})' = Inserted(audit, t, {f[2]})'
      BY <3>1 DEF RemovalsAhead, Told, Inserted, Committed
    <3>3. Coherent(t, f[1], f[2])' <=> Chain(t, f[1], f[2])'
      BY <3>2 DEF Coherent, Chain, Latest
    <3> QED
      BY <3>3, CoherentIsChain
  <2> QED
    BY <2>1, DriftStep DEF Exists
<1> QED
  BY <1>1, LogInvariance, PTL DEF Spec, LogDriftIsStale
=============================================================================
