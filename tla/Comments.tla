------------------------------- MODULE Comments -------------------------------
(***************************************************************************)
(* Comments on tasks: who writes, edits and deletes them, as               *)
(* CommentsService decides.                                                *)
(*                                                                         *)
(* A guard reads the caller's membership; the service then reads the       *)
(* comment with its author (and, to delete it, the author's membership)    *)
(* and writes by id.  Nothing is in a transaction, so the two roles a      *)
(* deletion rests on are read at different moments, and both may be out of *)
(* date when the comment goes.  Meanwhile members come and go, as the      *)
(* table of roles in Ownership allows with Strict FALSE, which is what     *)
(* Membership implements; tasks are removed, alone or with a board, a      *)
(* project or the organization.                                            *)
(*                                                                         *)
(* A comment is named by the request that creates it.  Of its text only    *)
(* who wrote it is kept.                                                   *)
(***************************************************************************)
EXTENDS Integers, Sequences, FiniteSets, Access

CONSTANTS User, Org, Task, Request,
          OrgOf,    \* the organization of each task, through board and project
          Old,      \* comments there may be from the beginning
          MaxMoves, \* bound on the changes to members, tasks and organizations
          Null      \* no user, task or comment

ASSUME CommentsAssumption ==
  /\ OrgOf \in [Task -> Org]
  /\ Request \cap Old = {}
  /\ MaxMoves \in Nat
  /\ Null \notin User \cup Task \cup Request \cup Old

VARIABLES
  state,    \* whether an organization is yet to be founded, live or deleted
  role,     \* the role of each user in each organization
  tasks,    \* the tasks there are
  comments, \* the Comment rows
  pc,       \* what each request does next
  args,     \* its endpoint, caller and parameter
  held,     \* the caller's role, as its guard read it
  (* For the properties: *)
  editors,  \* who has ever been a member that may write comments
  past,     \* per deletion: the tables of roles there have been since its guard
  moves     \* how many changes to members, tasks and organizations there were

members == <<state, role, tasks, editors, moves>>
vars == <<members, comments, pc, args, held, past>>

Table == INSTANCE Ownership WITH Strict <- FALSE

-----------------------------------------------------------------------------

Comment == Old \cup Request
Row == [task : Task, authorId : User, writer : User]
NoComment == [task |-> Null, authorId |-> Null, writer |-> Null]

\* on is the task to comment on, else the comment.
Args ==
  [op : {"Create"}, user : User, on : Task]
    \cup [op : {"Update", "Remove"}, user : User, on : Comment]
NoArgs == [op |-> "none", user |-> Null, on |-> Null]

\* @Roles of the endpoints that change a comment.
Editor == {"OWNER", "ADMIN", "MEMBER"}
Editors(roles) == {m \in Org \X User : roles[m[1]][m[2]] \in Editor}

TypeOK ==
  /\ Table!ATypeOK
  /\ tasks \subseteq Task
  /\ comments \in [Comment -> Row \cup {NoComment}]
  /\ pc \in [Request -> {"new", "find", "commit", "done"}]
  /\ args \in [Request -> Args \cup {NoArgs}]
  /\ held \in [Request -> Role \cup {NoRole}]
  /\ editors \subseteq Org \X User
  /\ past \in [Request -> Seq([Org -> [User -> Role \cup {NoRole}]])]
  /\ moves \in 0..MaxMoves

Exists(c) == comments[c] # NoComment
OrgOfComment(c) == OrgOf[comments[c].task]

Init ==
  /\ Table!AInit
  /\ tasks = {t \in Task : state[OrgOf[t]] = "live"}
  /\ editors = Editors(role)
  /\ comments \in [Comment -> Row \cup {NoComment}]
  /\ \A c \in Comment : Exists(c) =>
       /\ c \in Old
       /\ comments[c].task \in tasks
       /\ comments[c].writer = comments[c].authorId
       /\ <<OrgOfComment(c), comments[c].authorId>> \in editors
  /\ pc = [r \in Request |-> "new"]
  /\ args = [r \in Request |-> NoArgs]
  /\ held = [r \in Request |-> NoRole]
  /\ past = [r \in Request |-> << >>]
  /\ moves = 0

Goto(r, label) == pc' = [pc EXCEPT ![r] = label]

\* An answer, of whatever kind.
Finish(r) ==
  /\ Goto(r, "done")
  /\ args' = [args EXCEPT ![r] = NoArgs]
  /\ held' = [held EXCEPT ![r] = NoRole]
  /\ past' = [past EXCEPT ![r] = << >>]

-----------------------------------------------------------------------------
(* Guards and lookups.                                                     *)

\* The organization of the task or comment a request names.
Home(a) == IF a.op = "Create" THEN OrgOf[a.on] ELSE OrgOfComment(a.on)

\* Mutant: RolesGuard lets pass whoever is a member.
PassesAll(found) == found # NoRole

\* RolesGuard.
Passes(found) == found \in Editor

\* TaskGuard or CommentGuard finds task or comment and the caller's membership.
Admitted(a) ==
  /\ IF a.op = "Create" THEN a.on \in tasks ELSE Exists(a.on)
  /\ Passes(role[Home(a)][a.user])

Begin(r) ==
  /\ pc[r] = "new"
  /\ \E a \in Args :
       /\ Admitted(a)
       /\ args' = [args EXCEPT ![r] = a]
       /\ held' = [held EXCEPT ![r] = role[Home(a)][a.user]]
       /\ past' = [past EXCEPT ![r] = IF a.op = "Remove" THEN <<role>> ELSE << >>]
       /\ Goto(r, IF a.op = "Create" THEN "commit" ELSE "find")
  /\ UNCHANGED <<members, comments>>

\* Mutant: an ADMIN may also delete what the OWNER wrote.
MayRemoveOwners(caller, own, author) ==
  /\ author # NoRole
  /\ caller = "MEMBER" => own

\* The author is still a member, a MEMBER deletes only what he wrote, and an
\* ADMIN not what the OWNER wrote.
MayRemove(caller, own, author) ==
  /\ author # NoRole
  /\ caller = "MEMBER" => own
  /\ caller = "ADMIN" => author # "OWNER"

\* Mutant: anyone may edit what others wrote, if he may delete it.
PermitsRemovers(a, caller) ==
  LET author == comments[a.on].authorId IN
  Exists(a.on) /\ MayRemove(caller, author = a.user, role[OrgOfComment(a.on)][author])

Permits(a, caller) ==
  LET author == comments[a.on].authorId IN
  /\ Exists(a.on)
  /\ IF a.op = "Update"
       THEN author = a.user
       ELSE MayRemove(caller, author = a.user, role[OrgOfComment(a.on)][author])

\* findUnique of the comment and its author.
Find(r) ==
  /\ pc[r] = "find"
  /\ Permits(args[r], held[r])
  /\ Goto(r, "commit")
  /\ UNCHANGED <<members, comments, args, held, past>>

\* A guard or the service refuses.
Refuse(r) ==
  /\ \/ pc[r] = "new"
     \/ pc[r] = "find" /\ ~Permits(args[r], held[r])
  /\ Finish(r)
  /\ UNCHANGED <<members, comments>>

-----------------------------------------------------------------------------
(* Writes.                                                                 *)

Ready(r, op) == pc[r] = "commit" /\ args[r].op = op

Written(r, c, row) ==
  /\ comments' = [comments EXCEPT ![c] = row]
  /\ UNCHANGED members
  /\ Finish(r)

\* Mutant: the task is no foreign key.
CreateAnywhere(r) ==
  /\ Ready(r, "Create")
  /\ Written(r, r, [task |-> args[r].on, authorId |-> args[r].user, writer |-> args[r].user])

Create(r) ==
  /\ Ready(r, "Create")
  /\ args[r].on \in tasks
  /\ Written(r, r, [task |-> args[r].on, authorId |-> args[r].user, writer |-> args[r].user])

\* Mutant: a row that has gone counts as one of no task and no author.
UpdateWhatWas(r) ==
  /\ Ready(r, "Update")
  /\ Written(r, args[r].on, [comments[args[r].on] EXCEPT !.writer = args[r].user])

\* update by id raises P2025 when the comment has gone.
Update(r) ==
  /\ Ready(r, "Update")
  /\ Exists(args[r].on)
  /\ Written(r, args[r].on, [comments[args[r].on] EXCEPT !.writer = args[r].user])

Remove(r) ==
  /\ Ready(r, "Remove")
  /\ Exists(args[r].on)
  /\ Written(r, args[r].on, NoComment)

\* The task or comment has gone, a statement fails or the process dies.
Fail(r) ==
  /\ pc[r] \in {"find", "commit"}
  /\ Finish(r)
  /\ UNCHANGED <<members, comments>>

-----------------------------------------------------------------------------
(* The other resources.                                                    *)

Move == moves < MaxMoves /\ moves' = moves + 1

\* onDelete: Cascade, from the task.
Cascade ==
  comments' = [c \in Comment |-> IF Exists(c) /\ comments[c].task \notin tasks'
                                   THEN NoComment ELSE comments[c]]

\* Members and organizations change.  What a member who goes wrote stays.
ChangeMembers ==
  /\ Move
  /\ Table!ANext
  /\ role' # role
  /\ editors' = editors \cup Editors(role')
  /\ past' = [r \in Request |->
                IF args[r].op = "Remove" THEN Append(past[r], role') ELSE past[r]]
  /\ tasks' = {t \in tasks : state'[OrgOf[t]] = "live"}
  /\ Cascade
  /\ UNCHANGED <<pc, args, held>>

\* TasksService.remove, and boards and projects with their tasks.
RemoveTasks ==
  /\ Move
  /\ \E gone \in SUBSET tasks : gone # {} /\ tasks' = tasks \ gone
  /\ Cascade
  /\ UNCHANGED <<state, role, editors, past, pc, args, held>>

-----------------------------------------------------------------------------

Step(r) ==
  \/ Begin(r) \/ Find(r) \/ Refuse(r)
  \/ Create(r) \/ Update(r) \/ Remove(r)
  \/ Fail(r)

Next ==
  \/ \E r \in Request : Step(r)
  \/ ChangeMembers
  \/ RemoveTasks

Spec == Init /\ [][Next]_vars

-----------------------------------------------------------------------------
(* Properties.                                                             *)

\* docs/business-rules.md:63.  A comment is on a task that exists, of a live
\* organization, whatever is removed while it is written.
CommentsHaveTasks ==
  \A c \in Comment : Exists(c) =>
    comments[c].task \in tasks /\ state[OrgOfComment(c)] = "live"

\* docs/business-rules.md:65.  The author of a comment was once a member of its
\* organization who could write there, and what it says is his.
AuthorsWereEditors ==
  \A c \in Comment : Exists(c) =>
    /\ comments[c].writer = comments[c].authorId
    /\ <<OrgOfComment(c), comments[c].authorId>> \in editors

\* By two tables of roles, the second no earlier than the first, u may delete
\* what author wrote in o: the first has his own role, the second the author's.
Allowed(tables, o, u, author) ==
  \E i, j \in DOMAIN tables :
    LET caller == tables[i][o][u]
        writer == tables[j][o][author]
    IN
    /\ i <= j
    /\ caller \in Editor /\ writer # NoRole
    /\ caller = "MEMBER" => author = u
    /\ caller = "ADMIN" => writer # "OWNER"

\* docs/business-rules.md:66.  A comment is deleted only as two roles allow that
\* were held while the request ran: the caller's, at a moment from the guard on,
\* and the author's, no earlier and before the comment goes.  Of who held other
\* roles before the guard, or elsewhere, nothing counts.
RemovalsAuthorized ==
  [][\A r \in Request :
       pc[r] = "commit" /\ args[r].op = "Remove" /\ comments' # comments /\ pc'[r] = "done"
         => Allowed(past[r], OrgOfComment(args[r].on), args[r].user,
                    comments[args[r].on].authorId)]_vars
=============================================================================
