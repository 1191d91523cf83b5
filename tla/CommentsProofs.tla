---------------------------- MODULE CommentsProofs ----------------------------
(***************************************************************************)
(* Comments stay on tasks, by authors who could write, and are deleted as  *)
(* the roles allow, for any users, organizations, tasks and requests.      *)
(***************************************************************************)
EXTENDS Comments, TLAPS

Tables == [Org -> [User -> Role \cup {NoRole}]]

\* u had the role h in o, in one of the tables.
Had(tables, o, u, h) == \E i \in DOMAIN tables : tables[i][o][u] = h

\* A comment is written by a request that is still on its way then, and only
\* once: one that was found cannot come back as another's.  What was read of
\* the caller and of the author is in the tables there have been since, the last
\* of which is the one there is.
RequestOK(r) ==
  LET u == args[r].user
      c == args[r].on
  IN
  /\ Exists(r) => pc[r] = "done"
  /\ pc[r] \in {"find", "commit"} =>
       /\ args[r] \in Args
       /\ held[r] \in Editor
  /\ pc[r] = "find" => args[r].op # "Create"
  /\ pc[r] = "commit" /\ args[r].op = "Create" => <<OrgOf[c], u>> \in editors
  /\ pc[r] \in {"find", "commit"} /\ args[r].op # "Create" =>
       /\ c \in Request => pc[c] = "done"
       /\ Exists(c) /\ pc[r] = "commit" /\ args[r].op = "Update" =>
            comments[c].authorId = u
  /\ pc[r] \in {"find", "commit"} /\ args[r].op = "Remove" =>
       /\ past[r] # << >> /\ past[r][Len(past[r])] = role
       /\ Exists(c) =>
            /\ Had(past[r], OrgOfComment(c), u, held[r])
            /\ pc[r] = "commit" =>
                 Allowed(past[r], OrgOfComment(c), u, comments[c].authorId)

IInv ==
  /\ TypeOK
  /\ CommentsHaveTasks
  /\ AuthorsWereEditors
  /\ \A t \in tasks : state[OrgOf[t]] = "live"
  /\ Editors(role) \subseteq editors
  /\ \A r \in Request : RequestOK(r)

-----------------------------------------------------------------------------
(* Rows and parameters.                                                    *)

LEMMA NoCommentIsNoRow == NoComment \notin Row
BY CommentsAssumption DEF NoComment, Row

LEMMA ArgsFields ==
  ASSUME NEW a \in Args
  PROVE  /\ a.op \in {"Create", "Update", "Remove"}
         /\ a.user \in User
         /\ a.op = "Create" => a.on \in Task
         /\ a.op # "Create" => a.on \in Comment
BY DEF Args

LEMMA RowFields ==
  ASSUME TypeOK, NEW c \in Comment, Exists(c)
  PROVE  /\ comments[c] \in Row
         /\ comments[c].task \in Task /\ comments[c].authorId \in User
         /\ OrgOfComment(c) \in Org
BY CommentsAssumption DEF TypeOK, Exists, Row, OrgOfComment

LEMMA OfRequest ==
  ASSUME IInv, NEW r \in Request
  PROVE  /\ RequestOK(r) /\ r \in Comment
         /\ pc[r] \in {"new", "find", "commit", "done"}
BY DEF IInv, TypeOK, Comment

-----------------------------------------------------------------------------
(* The table of roles.                                                     *)

LEMMA TableTyped ==
  ASSUME Table!ATypeOK, Table!ANext
  PROVE  Table!ATypeOK'
<1> USE DEF Table!ATypeOK, Table!Role, Table!NoRole
<1>1. PICK o \in Org :
        \/ Table!Dissolve(o)
        \/ \E u \in User :
             \/ Table!Found(o, u) \/ Table!Enroll(o, u) \/ Table!Strike(o, u)
             \/ \E to \in Table!Role : Table!Regrade(o, u, to)
             \/ \E to \in User : Table!Handover(o, u, to)
  BY DEF Table!ANext
<1>2. CASE Table!Dissolve(o)
  BY <1>2 DEF Table!Dissolve
<1>3. ASSUME NEW u \in User, Table!Found(o, u) \/ Table!Enroll(o, u) \/ Table!Strike(o, u)
      PROVE  Table!ATypeOK'
  BY <1>3 DEF Table!Found, Table!Enroll, Table!Strike
<1>4. ASSUME NEW u \in User, NEW to \in Table!Role, Table!Regrade(o, u, to)
      PROVE  Table!ATypeOK'
  BY <1>4 DEF Table!Regrade
<1>5. ASSUME NEW u \in User, NEW to \in User, Table!Handover(o, u, to)
      PROVE  Table!ATypeOK'
  BY <1>5 DEF Table!Handover
<1> QED
  BY <1>1, <1>2, <1>3, <1>4, <1>5

-----------------------------------------------------------------------------
(* The effect of the actions.                                              *)

RequestsTypeOK ==
  /\ pc \in [Request -> {"new", "find", "commit", "done"}]
  /\ args \in [Request -> Args \cup {NoArgs}]
  /\ held \in [Request -> Role \cup {NoRole}]
  /\ past \in [Request -> Seq(Tables)]

LEMMA TypedRequests ==
  ASSUME TypeOK
  PROVE  RequestsTypeOK
BY DEF TypeOK, RequestsTypeOK, Tables

LEMMA FinishEffect ==
  ASSUME RequestsTypeOK, NEW r \in Request, Finish(r)
  PROVE  /\ RequestsTypeOK'
         /\ pc'[r] = "done"
         /\ \A q \in Request \ {r} : /\ pc'[q] = pc[q] /\ args'[q] = args[q]
                                     /\ held'[q] = held[q] /\ past'[q] = past[q]
BY DEF RequestsTypeOK, Finish, Goto

LEMMA BeginEffect ==
  ASSUME IInv, NEW r \in Request, Begin(r)
  PROVE  /\ RequestsTypeOK'
         /\ pc[r] = "new"
         /\ \E a \in Args :
              /\ Admitted(a) /\ args'[r] = a
              /\ held'[r] = role[Home(a)][a.user] /\ held'[r] \in Editor
              /\ a.op = "Remove" => past'[r] = <<role>>
              /\ pc'[r] = IF a.op = "Create" THEN "commit" ELSE "find"
         /\ \A q \in Request \ {r} : /\ pc'[q] = pc[q] /\ args'[q] = args[q]
                                     /\ held'[q] = held[q] /\ past'[q] = past[q]
         /\ UNCHANGED <<members, comments>>
<1>1. RequestsTypeOK
  BY TypedRequests DEF IInv
<1>2. PICK a \in Args :
        /\ Admitted(a)
        /\ args' = [args EXCEPT ![r] = a]
        /\ held' = [held EXCEPT ![r] = role[Home(a)][a.user]]
        /\ past' = [past EXCEPT ![r] = IF a.op = "Remove" THEN <<role>> ELSE << >>]
        /\ pc' = [pc EXCEPT ![r] = IF a.op = "Create" THEN "commit" ELSE "find"]
  BY DEF Begin, Goto
<1>3. role[Home(a)][a.user] \in Editor /\ Editor \subseteq Role
  BY <1>2 DEF Admitted, Passes, Editor, Role
<1>4. UNCHANGED <<members, comments>> /\ pc[r] = "new"
  BY DEF Begin
<1>5. role \in Tables
  BY DEF IInv, TypeOK, Table!ATypeOK, Table!Role, Table!NoRole, Tables, Role, NoRole
<1>6. (IF a.op = "Remove" THEN <<role>> ELSE << >>) \in Seq(Tables)
  BY <1>5
<1> QED
  BY <1>1, <1>2, <1>3, <1>4, <1>6 DEF RequestsTypeOK

LEMMA FindEffect ==
  ASSUME IInv, NEW r \in Request, Find(r)
  PROVE  /\ RequestsTypeOK'
         /\ pc[r] = "find" /\ pc'[r] = "commit" /\ Permits(args[r], held[r])
         /\ \A q \in Request \ {r} : pc'[q] = pc[q]
         /\ UNCHANGED <<members, comments, args, held, past>>
BY TypedRequests DEF IInv, RequestsTypeOK, Find, Goto

\* What a request that ends has written, if anything.
LEMMA WriteEffect ==
  ASSUME IInv, NEW r \in Request,
         \/ Refuse(r) \/ Create(r) \/ Update(r) \/ Remove(r) \/ Fail(r)
  PROVE  /\ Finish(r)
         /\ UNCHANGED members
         /\ \/ comments' = comments
            \/ /\ pc[r] = "commit" /\ args[r].op = "Create"
               /\ args[r].on \in tasks
               /\ comments' = [comments EXCEPT ![r] =
                    [task |-> args[r].on, authorId |-> args[r].user, writer |-> args[r].user]]
            \/ /\ pc[r] = "commit" /\ args[r].op = "Update"
               /\ Exists(args[r].on)
               /\ comments' = [comments EXCEPT ![args[r].on] =
                    [comments[args[r].on] EXCEPT !.writer = args[r].user]]
            \/ /\ pc[r] = "commit" /\ args[r].op = "Remove"
               /\ comments' = [comments EXCEPT ![args[r].on] = NoComment]
BY DEF Refuse, Create, Update, Remove, Fail, Written, Ready

\* A comment there is after a step was there, on its task, by its author, and
\* still says what he wrote; or it is new, of a member who could write it.
CommentsFrom(c) ==
  comments'[c] # NoComment =>
    /\ comments'[c] \in Row
    /\ comments'[c].task \in tasks'
    /\ comments'[c].writer = comments'[c].authorId
    /\ \/ /\ comments[c] # NoComment
          /\ comments'[c].task = comments[c].task
          /\ comments'[c].authorId = comments[c].authorId
       \/ /\ c \in Request /\ pc[c] = "commit" /\ pc'[c] = "done"
          /\ <<OrgOf[comments'[c].task], comments'[c].authorId>> \in editors

\* Of all comments.
CommentsOK ==
  /\ comments' \in [Comment -> Row \cup {NoComment}]
  /\ \A c \in Comment : CommentsFrom(c)

LEMMA CommentsWritten ==
  ASSUME IInv, NEW r \in Request, Step(r)
  PROVE  CommentsOK
<1>1. /\ TypeOK /\ comments \in [Comment -> Row \cup {NoComment}]
      /\ RequestsTypeOK
  <2>1. TypeOK
    BY DEF IInv
  <2>2. comments \in [Comment -> Row \cup {NoComment}]
    BY <2>1 DEF TypeOK
  <2> QED
    BY <2>1, <2>2, TypedRequests
<1>2. ASSUME NEW c \in Comment, comments'[c] = comments[c], tasks' = tasks
      PROVE  CommentsFrom(c)
  <2>1. comments[c] # NoComment =>
          /\ comments[c] \in Row
          /\ comments[c].task \in tasks
          /\ comments[c].writer = comments[c].authorId
    BY <1>1 DEF IInv, CommentsHaveTasks, AuthorsWereEditors, Exists
  <2> QED
    BY <1>2, <2>1 DEF CommentsFrom
<1>3. RequestOK(r) /\ r \in Comment
  BY OfRequest
<1>4. CASE comments' = comments /\ UNCHANGED members
  BY <1>1, <1>2, <1>4 DEF CommentsOK, members
<1>5. CASE Refuse(r) \/ Create(r) \/ Update(r) \/ Remove(r) \/ Fail(r)
  <2>1. Finish(r) /\ tasks' = tasks
    BY <1>5, WriteEffect DEF members
  <2>2. CASE /\ pc[r] = "commit" /\ args[r].op = "Create"
             /\ args[r].on \in tasks
             /\ comments' = [comments EXCEPT ![r] =
                  [task |-> args[r].on, authorId |-> args[r].user, writer |-> args[r].user]]
    <3> DEFINE row == [task |-> args[r].on, authorId |-> args[r].user, writer |-> args[r].user]
    <3>1. args[r].user \in User /\ args[r].on \in Task
      BY <1>3, <2>2, ArgsFields DEF RequestOK
    <3>2. row \in Row
      BY <3>1 DEF Row
    <3>3. pc'[r] = "done" /\ <<OrgOf[args[r].on], args[r].user>> \in editors
      BY <1>1, <1>3, <2>1, <2>2, FinishEffect DEF RequestOK
    <3>4. /\ comments' \in [Comment -> Row \cup {NoComment}]
          /\ comments'[r] = row
          /\ \A c \in Comment \ {r} : comments'[c] = comments[c]
      BY <1>1, <1>3, <2>2, <3>2
    <3>5. CommentsFrom(r)
      BY <2>1, <2>2, <3>2, <3>3, <3>4 DEF CommentsFrom
    <3> QED
      BY <1>2, <2>1, <3>4, <3>5 DEF CommentsOK
  <2>3. CASE /\ pc[r] = "commit" /\ args[r].op = "Update"
             /\ Exists(args[r].on)
             /\ comments' = [comments EXCEPT ![args[r].on] =
                  [comments[args[r].on] EXCEPT !.writer = args[r].user]]
    <3> DEFINE on == args[r].on
               row == [comments[on] EXCEPT !.writer = args[r].user]
    <3>1. on \in Comment /\ args[r].user \in User /\ comments[on].authorId = args[r].user
      BY <1>3, <2>3, ArgsFields DEF RequestOK
    <3>2. comments[on] \in Row /\ comments[on].task \in tasks
      BY <1>1, <2>3, <3>1, RowFields DEF IInv, CommentsHaveTasks
    <3>3. /\ row \in Row /\ row.task = comments[on].task /\ row.writer = args[r].user
          /\ row.authorId = comments[on].authorId
      BY <3>1, <3>2 DEF Row
    <3>4. /\ comments' \in [Comment -> Row \cup {NoComment}]
          /\ comments'[on] = row
          /\ \A c \in Comment \ {on} : comments'[c] = comments[c]
      BY <1>1, <2>3, <3>1, <3>3
    <3>5. CommentsFrom(on)
      BY <2>1, <2>3, <3>1, <3>2, <3>3, <3>4 DEF CommentsFrom, Exists
    <3> QED
      BY <1>2, <2>1, <3>4, <3>5 DEF CommentsOK
  <2>4. CASE /\ pc[r] = "commit" /\ args[r].op = "Remove"
             /\ comments' = [comments EXCEPT ![args[r].on] = NoComment]
    <3>1. /\ comments' \in [Comment -> Row \cup {NoComment}]
          /\ \A c \in Comment : comments'[c] \in {NoComment, comments[c]}
      BY <1>1, <2>4
    <3>2. \A c \in Comment : CommentsFrom(c)
      BY <1>2, <2>1, <3>1 DEF CommentsFrom
    <3> QED
      BY <3>1, <3>2 DEF CommentsOK
  <2> QED
    BY <1>4, <1>5, <2>2, <2>3, <2>4, WriteEffect
<1> QED
  BY <1>4, <1>5 DEF Step, Begin, Find

LEMMA CommentsCascade ==
  ASSUME IInv, Cascade
  PROVE  CommentsOK
<1>1. comments \in [Comment -> Row \cup {NoComment}]
  BY DEF IInv, TypeOK
<1>2. comments' = [c \in Comment |-> IF comments[c] # NoComment /\ comments[c].task \notin tasks'
                                       THEN NoComment ELSE comments[c]]
  BY DEF Cascade, Exists
<1>3. ASSUME NEW c \in Comment, comments'[c] # NoComment
      PROVE  comments'[c] = comments[c] /\ comments[c].task \in tasks'
  BY <1>2, <1>3
<1>4. \A c \in Comment : comments[c] # NoComment =>
        comments[c] \in Row /\ comments[c].writer = comments[c].authorId
  BY <1>1 DEF IInv, AuthorsWereEditors, Exists
<1>5. \A c \in Comment : CommentsFrom(c)
  BY <1>3, <1>4 DEF CommentsFrom
<1> QED
  BY <1>1, <1>2, <1>5 DEF CommentsOK

-----------------------------------------------------------------------------
(* The rows after a step.                                                  *)

\* What a step leaves of the tables around the comments.
TablesOK ==
  /\ Table!ATypeOK'
  /\ tasks' \subseteq Task
  /\ \A t \in tasks' : state'[OrgOf[t]] = "live"
  /\ editors' \subseteq Org \X User
  /\ editors \subseteq editors' /\ Editors(role') \subseteq editors'
  /\ moves' \in 0..MaxMoves

LEMMA TablesKept ==
  ASSUME IInv, Next
  PROVE  TablesOK
<1>1. /\ Table!ATypeOK
      /\ tasks \subseteq Task
      /\ \A t \in tasks : state[OrgOf[t]] = "live"
      /\ editors \subseteq Org \X User
      /\ Editors(role) \subseteq editors
      /\ moves \in 0..MaxMoves
  BY DEF IInv, TypeOK
<1>2. CASE UNCHANGED members
  BY <1>1, <1>2 DEF members, TablesOK, Table!ATypeOK
<1>3. ASSUME NEW r \in Request, Step(r)
      PROVE  UNCHANGED members
  BY <1>3, WriteEffect DEF Step, Begin, Find
<1>4. Move => moves' \in 0..MaxMoves
  BY <1>1, CommentsAssumption DEF Move
<1>5. CASE ChangeMembers
  <2>1. Table!ATypeOK'
    BY <1>1, <1>5, TableTyped DEF ChangeMembers
  <2>2. editors' = editors \cup Editors(role') /\ Editors(role') \subseteq Org \X User
    BY <1>5 DEF ChangeMembers, Editors
  <2>3. tasks' \subseteq tasks /\ \A t \in tasks' : state'[OrgOf[t]] = "live"
    BY <1>5 DEF ChangeMembers
  <2> QED
    BY <1>1, <1>4, <1>5, <2>1, <2>2, <2>3 DEF ChangeMembers, TablesOK
<1>6. CASE RemoveTasks
  <2>1. tasks' \subseteq tasks /\ UNCHANGED <<state, role, editors>>
    BY <1>6 DEF RemoveTasks
  <2> QED
    BY <1>1, <1>4, <1>6, <2>1 DEF RemoveTasks, TablesOK, Table!ATypeOK
<1> QED
  BY <1>2, <1>3, <1>5, <1>6 DEF Next

LEMMA CommentsKept ==
  ASSUME IInv, Next
  PROVE  CommentsOK
BY CommentsWritten, CommentsCascade DEF Next, ChangeMembers, RemoveTasks

-----------------------------------------------------------------------------
(* The requests after a step.                                              *)

LEMMA DoneStaysDone ==
  ASSUME IInv, Next, NEW q \in Request, pc[q] = "done"
  PROVE  pc'[q] = "done"
<1>1. pc \in [Request -> {"new", "find", "commit", "done"}]
  BY DEF IInv, TypeOK
<1> QED
  BY <1>1, WriteEffect DEF Next, Step, Begin, Find, Finish, Goto, ChangeMembers, RemoveTasks

\* A comment that was found is the same as long as it is there.
LEMMA FoundIsSame ==
  ASSUME IInv, Next, NEW c \in Comment, c \in Request => pc[c] = "done",
         comments'[c] # NoComment
  PROVE  /\ comments[c] # NoComment
         /\ comments'[c].task = comments[c].task
         /\ comments'[c].authorId = comments[c].authorId
BY CommentsKept DEF CommentsOK, CommentsFrom

\* One table more, or none: the older ones stay, and the last is the current one.
LEMMA PastGrows ==
  ASSUME NEW p \in Seq(Tables), p # << >>, p[Len(p)] = role, NEW p1,
         \/ p1 = p /\ role' = role
         \/ p1 = Append(p, role')
  PROVE  /\ p1 # << >> /\ p1[Len(p1)] = role'
         /\ \A i \in DOMAIN p : i \in Nat /\ i \in DOMAIN p1 /\ p1[i] = p[i]
<1>1. DOMAIN p = 1..Len(p) /\ Len(p) \in Nat
  OBVIOUS
<1>2. CASE p1 = p /\ role' = role
  BY <1>1, <1>2
<1>3. CASE p1 = Append(p, role')
  <2>1. Len(p1) = Len(p) + 1 /\ DOMAIN p1 = 1..Len(p1) /\ p1[Len(p1)] = role'
    BY <1>1, <1>3
  <2>2. \A i \in DOMAIN p : i \in 1..Len(p1) /\ p1[i] = p[i]
    BY <1>1, <1>3, <2>1
  <2> QED
    BY <1>1, <1>3, <2>1, <2>2
<1> QED
  BY <1>2, <1>3

\* What some tables allow, they allow with others after them.
LEMMA LaterTables ==
  ASSUME NEW p, NEW p1, \A i \in DOMAIN p : i \in DOMAIN p1 /\ p1[i] = p[i],
         NEW o, NEW u
  PROVE  /\ \A h : Had(p, o, u, h) => Had(p1, o, u, h)
         /\ \A v : Allowed(p, o, u, v) => Allowed(p1, o, u, v)
<1>1. \A h : Had(p, o, u, h) => Had(p1, o, u, h)
  BY Zenon DEF Had
<1>2. \A v : Allowed(p, o, u, v) => Allowed(p1, o, u, v)
  BY Zenon DEF Allowed
<1> QED
  BY <1>1, <1>2

\* Of a request that takes no step.
LEMMA WaitingKeeps ==
  ASSUME IInv, Next, NEW q \in Request,
         pc'[q] = pc[q], args'[q] = args[q], held'[q] = held[q],
         args[q].op = "Remove" => \/ past'[q] = past[q] /\ role' = role
                                  \/ past'[q] = Append(past[q], role')
  PROVE  RequestOK(q)'
<1> DEFINE u == args[q].user
           c == args[q].on
<1>1. RequestOK(q) /\ q \in Comment
  BY OfRequest
<1>2. comments'[q] # NoComment => pc'[q] = "done"
  BY <1>1, CommentsKept, DoneStaysDone DEF CommentsOK, CommentsFrom, RequestOK, Exists
<1>3. editors \subseteq editors'
  BY TablesKept DEF TablesOK
<1>4. ASSUME pc[q] \in {"find", "commit"}, args[q].op # "Create"
      PROVE  /\ c \in Comment /\ (c \in Request => pc'[c] = "done")
             /\ comments'[c] # NoComment =>
                  /\ comments[c] # NoComment
                  /\ comments'[c].task = comments[c].task
                  /\ comments'[c].authorId = comments[c].authorId
  <2>1. c \in Comment /\ (c \in Request => pc[c] = "done")
    BY <1>1, <1>4, ArgsFields DEF RequestOK
  <2> QED
    BY <2>1, DoneStaysDone, FoundIsSame
<1>5. ASSUME pc[q] = "commit", args[q].op = "Update", comments'[c] # NoComment
      PROVE  comments'[c].authorId = u
  BY <1>1, <1>4, <1>5 DEF RequestOK, Exists
<1>6. ASSUME pc[q] \in {"find", "commit"}, args[q].op = "Remove"
      PROVE  /\ past'[q] # << >> /\ past'[q][Len(past'[q])] = role'
             /\ \A i \in DOMAIN past[q] : /\ i \in Nat /\ i \in DOMAIN past'[q]
                                          /\ past'[q][i] = past[q][i]
  <2>1. past[q] \in Seq(Tables)
    BY TypedRequests DEF IInv, RequestsTypeOK
  <2>2. past[q] # << >> /\ past[q][Len(past[q])] = role
    BY <1>1, <1>6 DEF RequestOK
  <2> QED
    BY <1>6, <2>1, <2>2, PastGrows
<1>7. ASSUME pc[q] \in {"find", "commit"}, args[q].op = "Remove", comments'[c] # NoComment
      PROVE  /\ Had(past'[q], OrgOf[comments'[c].task], u, held[q])
             /\ pc[q] = "commit" =>
                  Allowed(past'[q], OrgOf[comments'[c].task], u, comments'[c].authorId)
  <2>1. args[q].op # "Create"
    BY <1>7
  <2>2. /\ comments[c] # NoComment
        /\ comments'[c].task = comments[c].task
        /\ comments'[c].authorId = comments[c].authorId
    BY <1>4, <1>7, <2>1
  <2>3. /\ Had(past[q], OrgOf[comments[c].task], u, held[q])
        /\ pc[q] = "commit" =>
             Allowed(past[q], OrgOf[comments[c].task], u, comments[c].authorId)
    BY <1>1, <1>7, <2>2 DEF RequestOK, Exists, OrgOfComment
  <2>4. \A i \in DOMAIN past[q] : i \in DOMAIN past'[q] /\ past'[q][i] = past[q][i]
    BY <1>6, <1>7
  <2>5. ASSUME NEW o, NEW v, NEW h
        PROVE  /\ Had(past[q], o, v, h) => Had(past'[q], o, v, h)
               /\ Allowed(past[q], o, v, h) => Allowed(past'[q], o, v, h)
    BY <2>4, LaterTables
  <2> QED
    BY <2>2, <2>3, <2>5
<1>8. pc[q] = "commit" /\ args[q].op = "Create" => <<OrgOf[c], u>> \in editors'
  BY <1>1, <1>3 DEF RequestOK
<1>9. args'[q] = args[q] /\ held'[q] = held[q]
  OBVIOUS
<1>10. /\ Had(past[q], OrgOfComment(c), u, held[q])' <=>
            Had(past'[q], OrgOf[comments'[c].task], u, held[q])
       /\ Allowed(past[q], OrgOfComment(c), u, comments[c].authorId)' <=>
            Allowed(past'[q], OrgOf[comments'[c].task], u, comments'[c].authorId)
  BY <1>9 DEF Had, Allowed, OrgOfComment
<1>11. /\ pc[q] \in {"find", "commit"} => args[q] \in Args /\ held[q] \in Editor
       /\ pc[q] = "find" => args[q].op # "Create"
       /\ pc[q] \in {"find", "commit"} /\ args[q].op # "Create" /\ Exists(c) =>
            (pc[q] = "commit" /\ args[q].op = "Update" => comments[c].authorId = u)
  BY <1>1 DEF RequestOK
<1>12. pc[q] \in {"find", "commit"} /\ args[q].op = "Remove" =>
         past'[q] # << >> /\ past'[q][Len(past'[q])] = role'
  BY <1>6
<1>13. pc[q] \in {"find", "commit"} /\ args[q].op # "Create" => (c \in Request => pc'[c] = "done")
  BY <1>4
<1> QED
  BY <1>2, <1>5, <1>7, <1>8, <1>10, <1>11, <1>12, <1>13 DEF RequestOK, Exists

LEMMA BeginKeeps ==
  ASSUME IInv, Next, NEW r \in Request, Begin(r)
  PROVE  RequestOK(r)'
<1>1. PICK a \in Args :
        /\ Admitted(a) /\ args'[r] = a
        /\ held'[r] = role[Home(a)][a.user] /\ held'[r] \in Editor
        /\ a.op = "Remove" => past'[r] = <<role>>
        /\ pc'[r] = IF a.op = "Create" THEN "commit" ELSE "find"
  BY BeginEffect
<1>2. /\ pc[r] = "new" /\ UNCHANGED <<members, comments>>
      /\ \A q \in Request \ {r} : pc'[q] = pc[q]
  BY BeginEffect
<1>3. ~Exists(r)
  BY <1>2, OfRequest DEF RequestOK
<1>4. CASE a.op = "Create"
  <2>1. OrgOf[a.on] \in Org /\ a.user \in User
    BY <1>4, ArgsFields, CommentsAssumption
  <2>2. <<OrgOf[a.on], a.user>> \in Editors(role)
    BY <1>1, <1>4, <2>1 DEF Editors, Home
  <2> QED
    BY <1>1, <1>2, <1>3, <1>4, <2>2 DEF RequestOK, Exists, IInv, members
<1>5. CASE a.op # "Create"
  <2>1. Exists(a.on) /\ a.on # r
    BY <1>1, <1>3, <1>5 DEF Admitted
  <2>2. ASSUME a.on \in Request
        PROVE  pc'[a.on] = "done"
    <3>1. pc[a.on] = "done"
      BY <2>1, <2>2, OfRequest DEF RequestOK
    <3> QED
      BY <1>2, <2>1, <2>2, <3>1
  <2>3. ASSUME a.op = "Remove"
        PROVE  /\ past'[r] # << >> /\ past'[r][Len(past'[r])] = role'
               /\ Had(past'[r], OrgOf[comments'[a.on].task], a.user, held'[r])
    <3>1. past'[r] = <<role>> /\ held'[r] = role[OrgOfComment(a.on)][a.user]
      BY <1>1, <1>5, <2>3 DEF Home
    <3>2. Len(<<role>>) = 1 /\ DOMAIN <<role>> = {1} /\ <<role>>[1] = role /\ <<role>> # << >>
      OBVIOUS
    <3>3. role' = role /\ comments' = comments
      BY <1>2 DEF members
    <3>4. /\ 1 \in DOMAIN past'[r] /\ past'[r][1] = role /\ Len(past'[r]) = 1
          /\ past'[r] # << >>
      BY <3>1, <3>2
    <3>5. past'[r][1][OrgOf[comments'[a.on].task]][a.user] = held'[r]
      BY <3>1, <3>3, <3>4 DEF OrgOfComment
    <3>6. Had(past'[r], OrgOf[comments'[a.on].task], a.user, held'[r])
      BY <3>4, <3>5, Zenon DEF Had
    <3> QED
      BY <3>3, <3>4, <3>6
  <2>4. a.op = "Remove" => Had(past[r], OrgOfComment(a.on), a.user, held[r])'
    BY <2>3 DEF OrgOfComment, Had
  <2> QED
    BY <1>1, <1>2, <1>3, <1>5, <2>2, <2>3, <2>4 DEF RequestOK, Exists, members
<1> QED
  BY <1>4, <1>5

\* The author's role is read later than the caller's.
LEMMA FindKeeps ==
  ASSUME IInv, Next, NEW r \in Request, Find(r)
  PROVE  RequestOK(r)'
<1> DEFINE u == args[r].user
           c == args[r].on
           author == comments[c].authorId
<1>1. /\ pc[r] = "find" /\ pc'[r] = "commit" /\ Permits(args[r], held[r])
      /\ \A q \in Request \ {r} : pc'[q] = pc[q]
      /\ UNCHANGED <<members, comments, args, held, past>>
  BY FindEffect
<1>2. RequestOK(r)
  BY OfRequest
<1>3. /\ args[r] \in Args /\ args[r].op # "Create" /\ held[r] \in Editor
      /\ ~Exists(r) /\ Exists(c)
      /\ c \in Request => pc[c] = "done"
  BY <1>1, <1>2 DEF RequestOK, Permits
<1>4. args[r].op = "Update" => author = u
  BY <1>1 DEF Permits
<1>5. ASSUME args[r].op = "Remove"
      PROVE  Allowed(past[r], OrgOfComment(c), u, author)
  <2>1. /\ past[r] # << >> /\ past[r][Len(past[r])] = role
        /\ Had(past[r], OrgOfComment(c), u, held[r])
    BY <1>1, <1>2, <1>3, <1>5 DEF RequestOK
  <2>2. past[r] \in Seq(Tables)
    BY TypedRequests DEF IInv, RequestsTypeOK
  <2> DEFINE n == Len(past[r])
  <2>3. n \in DOMAIN past[r] /\ \A i \in DOMAIN past[r] : i <= n
    BY <2>1, <2>2
  <2>4. PICK i \in DOMAIN past[r] : past[r][i][OrgOfComment(c)][u] = held[r]
    BY <2>1 DEF Had
  <2>5. MayRemove(held[r], author = u, past[r][n][OrgOfComment(c)][author])
    BY <1>1, <1>5, <2>1 DEF Permits
  <2>6. /\ past[r][n][OrgOfComment(c)][author] # NoRole
        /\ held[r] = "MEMBER" => author = u
        /\ held[r] = "ADMIN" => past[r][n][OrgOfComment(c)][author] # "OWNER"
    BY <2>5 DEF MayRemove
  <2> HIDE DEF n
  <2>7. i <= n /\ n \in DOMAIN past[r]
    BY <2>3
  <2> QED
    BY <1>3, <2>4, <2>6, <2>7, Zenon DEF Allowed
<1>6. c # r
  BY <1>3
<1>7. UNCHANGED <<role, comments, args, held, past>>
  BY <1>1 DEF members
<1>8. args[r].op = "Remove" =>
        /\ past[r] # << >> /\ past[r][Len(past[r])] = role
        /\ Had(past[r], OrgOfComment(c), u, held[r])
  BY <1>1, <1>2, <1>3 DEF RequestOK
<1>9. /\ Allowed(past[r], OrgOfComment(c), u, author)' <=>
           Allowed(past[r], OrgOfComment(c), u, author)
      /\ Had(past[r], OrgOfComment(c), u, held[r])' <=>
           Had(past[r], OrgOfComment(c), u, held[r])
  BY <1>7 DEF Allowed, Had, OrgOfComment
<1> QED
  BY <1>1, <1>3, <1>4, <1>5, <1>6, <1>7, <1>8, <1>9 DEF RequestOK, Exists

LEMMA RequestsTyped ==
  ASSUME IInv, Next
  PROVE  RequestsTypeOK'
<1>1. RequestsTypeOK
  BY TypedRequests DEF IInv
<1>2. ASSUME NEW r \in Request, Step(r)
      PROVE  RequestsTypeOK'
  BY <1>1, <1>2, BeginEffect, FindEffect, WriteEffect, FinishEffect DEF Step
<1>3. CASE ChangeMembers
  <2>1. role' \in Tables
    BY <1>3, TablesKept
       DEF TablesOK, Table!ATypeOK, Table!Role, Table!NoRole, Tables, Role, NoRole
  <2>2. past' = [r \in Request |->
                   IF args[r].op = "Remove" THEN Append(past[r], role') ELSE past[r]]
    BY <1>3 DEF ChangeMembers
  <2>3. past' \in [Request -> Seq(Tables)]
    BY <1>1, <2>1, <2>2 DEF RequestsTypeOK
  <2> QED
    BY <1>1, <1>3, <2>3 DEF RequestsTypeOK, ChangeMembers
<1>4. CASE RemoveTasks
  BY <1>1, <1>4 DEF RequestsTypeOK, RemoveTasks
<1> QED
  BY <1>2, <1>3, <1>4 DEF Next

LEMMA RequestsKept ==
  ASSUME IInv, Next, NEW q \in Request
  PROVE  RequestOK(q)'
<1>1. RequestsTypeOK
  BY TypedRequests DEF IInv
<1>2. ASSUME NEW r \in Request, Step(r)
      PROVE  RequestOK(q)'
  <2>1. CASE q # r
    <3>1. /\ pc'[q] = pc[q] /\ args'[q] = args[q]
          /\ held'[q] = held[q] /\ past'[q] = past[q]
      <4>1. CASE Begin(r)
        BY <2>1, <4>1, BeginEffect
      <4>2. CASE Find(r)
        BY <2>1, <4>2, FindEffect
      <4>3. CASE Refuse(r) \/ Create(r) \/ Update(r) \/ Remove(r) \/ Fail(r)
        BY <1>1, <2>1, <4>3, WriteEffect, FinishEffect
      <4> QED
        BY <1>2, <4>1, <4>2, <4>3 DEF Step
    <3>2. UNCHANGED role
      BY <1>2, WriteEffect DEF Step, Begin, Find, members
    <3> QED
      BY <3>1, <3>2, WaitingKeeps
  <2>2. CASE q = r /\ Begin(r)
    BY <2>2, BeginKeeps
  <2>3. CASE q = r /\ Find(r)
    BY <2>3, FindKeeps
  <2>4. CASE q = r /\ (Refuse(r) \/ Create(r) \/ Update(r) \/ Remove(r) \/ Fail(r))
    BY <1>1, <2>4, WriteEffect, FinishEffect DEF RequestOK
  <2> QED
    BY <1>2, <2>1, <2>2, <2>3, <2>4 DEF Step
<1>3. CASE ChangeMembers
  BY <1>1, <1>3, WaitingKeeps DEF RequestsTypeOK, ChangeMembers
<1>4. CASE RemoveTasks
  BY <1>1, <1>4, WaitingKeeps DEF RequestsTypeOK, RemoveTasks
<1> QED
  BY <1>2, <1>3, <1>4 DEF Next

-----------------------------------------------------------------------------
(* The theorems.                                                           *)

LEMMA InitInvariant == Init => IInv
<1> SUFFICES ASSUME Init
             PROVE  IInv
  OBVIOUS
<1>1. Table!ATypeOK
  BY DEF Init, Table!AInit, Table!ATypeOK
<1>2. editors \subseteq Org \X User
  BY DEF Init, Editors
<1>3. TypeOK
  BY <1>1, <1>2, CommentsAssumption DEF Init, TypeOK
<1>4. CommentsHaveTasks /\ AuthorsWereEditors
  BY DEF Init, CommentsHaveTasks, AuthorsWereEditors, OrgOfComment
<1>5. \A r \in Request : RequestOK(r)
  BY CommentsAssumption DEF Init, RequestOK, Comment
<1> QED
  BY <1>3, <1>4, <1>5 DEF IInv, Init

LEMMA NextInvariant == IInv /\ [Next]_vars => IInv'
<1> SUFFICES ASSUME IInv, [Next]_vars
             PROVE  IInv'
  OBVIOUS
<1>1. CASE Next
  <2>1. TablesOK /\ RequestsTypeOK' /\ \A r \in Request : RequestOK(r)'
    BY <1>1, TablesKept, RequestsTyped, RequestsKept
  <2>2. CommentsOK
    BY <1>1, CommentsKept
  <2>3. TypeOK'
    BY <2>1, <2>2 DEF TypeOK, TablesOK, RequestsTypeOK, CommentsOK, Tables
  <2>4. CommentsHaveTasks'
    BY <2>1, <2>2 DEF CommentsHaveTasks, CommentsOK, CommentsFrom, TablesOK, Exists, OrgOfComment
  <2>5. AuthorsWereEditors'
    BY <2>1, <2>2 DEF IInv, AuthorsWereEditors, CommentsOK, CommentsFrom, TablesOK, Exists, OrgOfComment
  <2> QED
    BY <2>1, <2>3, <2>4, <2>5 DEF IInv, TablesOK, Editors
<1>2. CASE UNCHANGED vars
  <2> USE <1>2 DEF vars, members
  <2>1. TypeOK'
    BY DEF IInv, TypeOK, Table!ATypeOK
  <2>2. CommentsHaveTasks' /\ AuthorsWereEditors'
    BY DEF IInv, CommentsHaveTasks, AuthorsWereEditors, Exists, OrgOfComment
  <2>3. ASSUME NEW r \in Request
        PROVE  RequestOK(r)'
    <3>1. RequestOK(r)
      BY DEF IInv
    <3>2. /\ Had(past[r], OrgOfComment(args[r].on), args[r].user, held[r])' <=>
               Had(past[r], OrgOfComment(args[r].on), args[r].user, held[r])
          /\ LET author == comments[args[r].on].authorId IN
             Allowed(past[r], OrgOfComment(args[r].on), args[r].user, author)' <=>
               Allowed(past[r], OrgOfComment(args[r].on), args[r].user, author)
      BY DEF Had, Allowed, OrgOfComment
    <3> QED
      BY <3>1, <3>2 DEF RequestOK, Exists
  <2> QED
    BY <2>1, <2>2, <2>3 DEF IInv, Editors
<1> QED
  BY <1>1, <1>2

LEMMA Invariance == Spec => []IInv
BY InitInvariant, NextInvariant, PTL DEF Spec

\* The tables and the requests are always what the code can make them.
THEOREM TypeCorrect == Spec => []TypeOK
<1>1. IInv => TypeOK
  BY DEF IInv
<1> QED
  BY <1>1, Invariance, PTL

\* Whatever is removed while a comment is written, none is left without its
\* task.
THEOREM HaveTasks == Spec => []CommentsHaveTasks
<1>1. IInv => CommentsHaveTasks
  BY DEF IInv
<1> QED
  BY <1>1, Invariance, PTL

\* Every comment is by someone who could once write where it is, and says what
\* he wrote, though authors leave and roles change meanwhile.
THEOREM AuthorsWere == Spec => []AuthorsWereEditors
<1>1. IInv => AuthorsWereEditors
  BY DEF IInv
<1> QED
  BY <1>1, Invariance, PTL

\* A deletion rests on two roles read at two moments before it, with no lock in
\* between; both were held while the request ran, the caller's no later than the
\* author's.
THEOREM RemovalsOnTwoReads == Spec => RemovalsAuthorized
<1> DEFINE A == \A r \in Request :
       pc[r] = "commit" /\ args[r].op = "Remove" /\ comments' # comments /\ pc'[r] = "done"
         => Allowed(past[r], OrgOfComment(args[r].on), args[r].user,
                    comments[args[r].on].authorId)
<1>1. ASSUME IInv, Next, NEW r \in Request,
             pc[r] = "commit", args[r].op = "Remove", comments' # comments, pc'[r] = "done"
      PROVE  Allowed(past[r], OrgOfComment(args[r].on), args[r].user,
                     comments[args[r].on].authorId)
  <2>1. Step(r)
    <3>1. pc'[r] # pc[r]
      BY <1>1
    <3>2. PICK q \in Request : Step(q)
      BY <1>1, <3>1 DEF Next, ChangeMembers, RemoveTasks
    <3>3. RequestsTypeOK
      BY <1>1, TypedRequests DEF IInv
    <3>4. q # r => pc'[r] = pc[r]
      BY <1>1, <3>2, <3>3, BeginEffect, FindEffect, WriteEffect, FinishEffect DEF Step
    <3> QED
      BY <3>1, <3>2, <3>4
  <2>2. Remove(r)
    BY <1>1, <2>1 DEF Step, Begin, Find, Refuse, Create, Update, Fail, Ready
  <2>3. Exists(args[r].on) /\ RequestOK(r)
    BY <1>1, <2>2, OfRequest DEF Remove
  <2> QED
    BY <1>1, <2>3 DEF RequestOK
<1>2. IInv /\ [Next]_vars => [A]_vars
  BY <1>1
<1> QED
  BY <1>2, Invariance, PTL DEF Spec, RemovalsAuthorized
=============================================================================
