-------------------------------- MODULE Labels --------------------------------
(***************************************************************************)
(* Labels of organizations and which tasks they are on, as LabelsService   *)
(* changes them.                                                           *)
(*                                                                         *)
(* No method of the service opens a transaction.  A request passes its     *)
(* guard, looks things up one await after another (the label, whether its  *)
(* name is free, whether it is on the task) and then writes by key.  What  *)
(* it looked up may be gone by then: keys, foreign keys and cascades of    *)
(* the schema decide.  Meanwhile tasks go, alone or with their board or    *)
(* project, and organizations with all they have.                          *)
(*                                                                         *)
(* A label is named by the request that creates it.  Colours are left out, *)
(* and so is which member calls: any member with the role will do.         *)
(***************************************************************************)
EXTENDS Integers, FiniteSets

CONSTANTS Org, Name, Task, Request,
          OrgOf, \* the organization of each task, through board and project
          Old,   \* labels there may be from the beginning
          Null   \* no organization, name, task or label

ASSUME LabelsAssumption ==
  /\ OrgOf \in [Task -> Org]
  /\ Request \cap Old = {}
  /\ Null \notin Org \cup Name \cup Task \cup Request \cup Old

VARIABLES
  orgs,       \* the organizations there are
  tasks,      \* the tasks there are
  labels,     \* the Label rows
  taskLabels, \* the TaskLabel rows
  pc,         \* what each request does next
  args,       \* its endpoint and parameters
  org         \* the organization whose names it looks up

db == <<orgs, tasks, labels, taskLabels>>
vars == <<orgs, tasks, labels, taskLabels, pc, args, org>>

-----------------------------------------------------------------------------

Label == Old \cup Request
Row == [org : Org, name : Name]
NoLabel == [org |-> Null, name |-> Null]

\* on is the organization a label is created in, or the task it is put on or
\* taken off; a rename to Null changes only the colour.
Args ==
  [op : {"Create"}, on : Org, label : {Null}, name : Name]
    \cup [op : {"Update"}, on : {Null}, label : Label, name : Name \cup {Null}]
    \cup [op : {"Remove"}, on : {Null}, label : Label, name : {Null}]
    \cup [op : {"Assign", "Unassign"}, on : Task, label : Label, name : {Null}]
NoArgs == [op |-> "none", on |-> Null, label |-> Null, name |-> Null]

TypeOK ==
  /\ orgs \subseteq Org
  /\ tasks \subseteq Task
  /\ labels \in [Label -> Row \cup {NoLabel}]
  /\ taskLabels \subseteq Task \X Label
  /\ pc \in [Request -> {"new", "find", "check", "commit", "done"}]
  /\ args \in [Request -> Args \cup {NoArgs}]
  /\ org \in [Request -> Org \cup {Null}]

Exists(l) == labels[l] # NoLabel

Book == INSTANCE LabelBook

Init ==
  /\ Book!BInit
  /\ \A r \in Request : labels[r] = NoLabel
  /\ pc = [r \in Request |-> "new"]
  /\ args = [r \in Request |-> NoArgs]
  /\ org = [r \in Request |-> Null]

Goto(r, label) == pc' = [pc EXCEPT ![r] = label]

\* An answer, of whatever kind.
Finish(r) ==
  /\ Goto(r, "done")
  /\ args' = [args EXCEPT ![r] = NoArgs]
  /\ org' = [org EXCEPT ![r] = Null]

-----------------------------------------------------------------------------
(* What a request looks up.                                                *)

\* OrganizationGuard, LabelGuard or TaskGuard finds what the request names.
Admitted(a) ==
  CASE a.op = "Create" -> a.on \in orgs
    [] a.op \in {"Assign", "Unassign"} -> a.on \in tasks
    [] OTHER -> Exists(a.label)

FirstLookup(op) == IF op \in {"Create", "Unassign"} THEN "check" ELSE "find"

Begin(r) ==
  /\ pc[r] = "new"
  /\ \E a \in Args :
       /\ Admitted(a)
       /\ args' = [args EXCEPT ![r] = a]
       /\ org' = [org EXCEPT ![r] = IF a.op = "Create" THEN a.on ELSE Null]
       /\ Goto(r, FirstLookup(a.op))
  /\ UNCHANGED db

\* Mutant: a label of another organization will do.
FoundAnywhere(a) == Exists(a.label)

\* The label is there and, to be put on a task, of the task's organization.
Found(a) ==
  /\ Exists(a.label)
  /\ a.op = "Assign" => labels[a.label].org = OrgOf[a.on]

\* The service's findUnique finds the label.
Find(r) ==
  /\ pc[r] = "find"
  /\ Found(args[r])
  /\ org' = [org EXCEPT ![r] = labels[args[r].label].org]
  /\ Goto(r, IF args[r].op = "Assign" \/ args[r].name # Null THEN "check" ELSE "commit")
  /\ UNCHANGED <<db, args>>

\* ensureNameIsAvailable: no label of the organization but this one has the name.
NameIsAvailable(o, n, this) ==
  \A l \in Label \ {this} : labels[l] # [org |-> o, name |-> n]

\* The name is free, or the label is not on the task yet, or it is.
Clear(r) ==
  CASE args[r].op = "Assign" -> <<args[r].on, args[r].label>> \notin taskLabels
    [] args[r].op = "Unassign" -> <<args[r].on, args[r].label>> \in taskLabels
    [] OTHER -> NameIsAvailable(org[r], args[r].name, args[r].label)

Check(r) ==
  /\ pc[r] = "check"
  /\ Clear(r)
  /\ Goto(r, "commit")
  /\ UNCHANGED <<db, args, org>>

\* A guard or a lookup refuses.
Refuse(r) ==
  /\ \/ pc[r] = "new"
     \/ pc[r] = "find" /\ ~Found(args[r])
     \/ pc[r] = "check" /\ ~Clear(r)
  /\ Finish(r)
  /\ UNCHANGED db

-----------------------------------------------------------------------------
(* What it writes.                                                         *)

Ready(r, op) == pc[r] = "commit" /\ args[r].op = op

\* Mutant: the pair of organization and name is no key.
NameIsFreeUnkeyed(o, n, this) == TRUE

\* @@unique([organizationId, name]).
NameIsFree(o, n, this) == NameIsAvailable(o, n, this)

\* The organization is a foreign key.
Create(r) ==
  /\ Ready(r, "Create")
  /\ args[r].on \in orgs
  /\ NameIsFree(args[r].on, args[r].name, r)
  /\ labels' = [labels EXCEPT ![r] = [org |-> args[r].on, name |-> args[r].name]]
  /\ UNCHANGED <<orgs, tasks, taskLabels>>
  /\ Finish(r)

\* Mutant: a name that is not given is written as none.
UpdateBlank(r) ==
  LET l == args[r].label
      n == args[r].name
  IN
  /\ Ready(r, "Update")
  /\ Exists(l)
  /\ NameIsFree(labels[l].org, n, l)
  /\ labels' = [labels EXCEPT ![l].name = n]
  /\ UNCHANGED <<orgs, tasks, taskLabels>>
  /\ Finish(r)

\* update by id raises P2025 when the label has gone.
Update(r) ==
  LET l == args[r].label
      n == args[r].name
  IN
  /\ Ready(r, "Update")
  /\ Exists(l)
  /\ n # Null => NameIsFree(labels[l].org, n, l)
  /\ labels' = IF n = Null THEN labels ELSE [labels EXCEPT ![l].name = n]
  /\ UNCHANGED <<orgs, tasks, taskLabels>>
  /\ Finish(r)

\* onDelete: Cascade.
Without(ts, ls) == {p \in taskLabels : p[1] \notin ts /\ p[2] \notin ls}

Remove(r) ==
  /\ Ready(r, "Remove")
  /\ Exists(args[r].label)
  /\ labels' = [labels EXCEPT ![args[r].label] = NoLabel]
  /\ taskLabels' = Without({}, {args[r].label})
  /\ UNCHANGED <<orgs, tasks>>
  /\ Finish(r)

\* Mutant: the row is written whatever has become of its two sides.
AssignDangling(r) ==
  /\ Ready(r, "Assign")
  /\ taskLabels' = taskLabels \cup {<<args[r].on, args[r].label>>}
  /\ UNCHANGED <<orgs, tasks, labels>>
  /\ Finish(r)

\* Task and label are foreign keys, and together the primary key.
Assign(r) ==
  /\ Ready(r, "Assign")
  /\ args[r].on \in tasks /\ Exists(args[r].label)
  /\ <<args[r].on, args[r].label>> \notin taskLabels
  /\ taskLabels' = taskLabels \cup {<<args[r].on, args[r].label>>}
  /\ UNCHANGED <<orgs, tasks, labels>>
  /\ Finish(r)

Unassign(r) ==
  /\ Ready(r, "Unassign")
  /\ <<args[r].on, args[r].label>> \in taskLabels
  /\ taskLabels' = taskLabels \ {<<args[r].on, args[r].label>>}
  /\ UNCHANGED <<orgs, tasks, labels>>
  /\ Finish(r)

\* A key is taken, a row has gone, a statement fails or the process dies.
Fail(r) ==
  /\ pc[r] \in {"find", "check", "commit"}
  /\ Finish(r)
  /\ UNCHANGED db

-----------------------------------------------------------------------------
(* The other resources.                                                    *)

\* TasksService.remove, and boards and projects with their tasks.
RemoveTasks ==
  /\ \E gone \in SUBSET tasks :
       /\ gone # {}
       /\ tasks' = tasks \ gone
       /\ taskLabels' = Without(gone, {})
  /\ UNCHANGED <<orgs, labels, pc, args, org>>

\* OrganizationsService.remove.
RemoveOrganization ==
  /\ \E o \in orgs :
       LET ts == {t \in tasks : OrgOf[t] = o}
           ls == {l \in Label : labels[l].org = o}
       IN
       /\ orgs' = orgs \ {o}
       /\ tasks' = tasks \ ts
       /\ labels' = [l \in Label |-> IF l \in ls THEN NoLabel ELSE labels[l]]
       /\ taskLabels' = Without(ts, ls)
  /\ UNCHANGED <<pc, args, org>>

-----------------------------------------------------------------------------

Step(r) ==
  \/ Begin(r) \/ Find(r) \/ Check(r) \/ Refuse(r)
  \/ Create(r) \/ Update(r) \/ Remove(r) \/ Assign(r) \/ Unassign(r)
  \/ Fail(r)

Next ==
  \/ \E r \in Request : Step(r)
  \/ RemoveTasks
  \/ RemoveOrganization

Spec == Init /\ [][Next]_vars

-----------------------------------------------------------------------------
(* Properties.                                                             *)

\* docs/business-rules.md:71,74 and docs/erd.md:339.  The name of a label is
\* unique within its organization, though names are looked up before they are
\* written; and a label is only ever on a task of its own organization, where
\* task, label and organization are there, whatever is removed while it is put
\* on.
LabelsInOrder == Book!BNamesUnique /\ Book!BAtHome

\* Whatever a request looked up and whatever has happened since, what it
\* writes is one step the book allows at that moment.
ImplementsBook == Book!BSpec
=============================================================================
