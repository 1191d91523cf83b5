----------------------------- MODULE LabelsProofs -----------------------------
(***************************************************************************)
(* Labels implements the book of labels, and the book is in order, for any *)
(* organizations, names, tasks and requests; and what a client sees who    *)
(* reads the tasks with a label page after page, for any pages and column. *)
(***************************************************************************)
EXTENDS Listing, FiniteSetTheorems, SequenceTheorems, TLAPS

\* The rows, without the requests.
BookTypeOK ==
  /\ orgs \subseteq Org
  /\ tasks \subseteq Task
  /\ labels \in [Label -> Row \cup {NoLabel}]
  /\ taskLabels \subseteq Task \X Label

\* A label is created by a request that is still on its way then, and only once.
\* What is about to be put on a task was of the task's organization when it was
\* found; it may have gone since, but it cannot come back as another's.
RequestOK(r) ==
  /\ Exists(r) => pc[r] = "done"
  /\ pc[r] \in {"find", "check", "commit"} => args[r] \in Args
  /\ pc[r] = "find" => args[r].op \in {"Update", "Remove", "Assign"}
  /\ pc[r] \in {"check", "commit"} /\ args[r].op = "Assign" =>
       /\ args[r].label \in Request => pc[args[r].label] = "done"
       /\ Exists(args[r].label) => labels[args[r].label].org = OrgOf[args[r].on]

IInv ==
  /\ TypeOK
  /\ LabelsInOrder
  /\ \A r \in Request : RequestOK(r)

-----------------------------------------------------------------------------
(* Rows and parameters.                                                    *)

LEMMA NoLabelIsNoRow == NoLabel \notin Row /\ NoLabel.org \notin Org
BY LabelsAssumption DEF NoLabel, Row

LEMMA ArgsFields ==
  ASSUME NEW a \in Args
  PROVE  /\ a.op = "Create" => a.on \in Org /\ a.name \in Name /\ a.label = Null
         /\ a.op = "Update" => a.label \in Label /\ a.name \in Name \cup {Null}
         /\ a.op = "Remove" => a.label \in Label
         /\ a.op \in {"Assign", "Unassign"} => a.on \in Task /\ a.label \in Label
BY DEF Args

LEMMA RowFields ==
  ASSUME BookTypeOK, NEW l \in Label, Exists(l)
  PROVE  labels[l] \in Row /\ labels[l].org \in Org /\ labels[l].name \in Name
BY DEF BookTypeOK, Exists, Row

LEMMA TypeOfBook == TypeOK => BookTypeOK
BY DEF TypeOK, BookTypeOK

-----------------------------------------------------------------------------
(* The book stays in order.                                                *)

LEMMA EnterKeeps ==
  ASSUME BookTypeOK, LabelsInOrder,
         NEW l \in Label, NEW o \in Org, NEW n \in Name, Book!Enter(l, o, n)
  PROVE  BookTypeOK' /\ LabelsInOrder'
<1> DEFINE row == [org |-> o, name |-> n]
<1>1. row \in Row /\ row # NoLabel /\ row.org = o
  BY LabelsAssumption DEF Row, NoLabel
<1>2. /\ labels' \in [Label -> Row \cup {NoLabel}]
      /\ labels'[l] = row
      /\ \A k \in Label \ {l} : labels'[k] = labels[k]
      /\ labels[l] = NoLabel
      /\ \A k \in Label : labels[k] # row
      /\ o \in orgs
      /\ UNCHANGED <<orgs, tasks, taskLabels>>
  BY <1>1 DEF BookTypeOK, Book!Enter, Book!Exists, Book!Taken, Book!NoLabel, NoLabel
<1>3. BookTypeOK'
  BY <1>2 DEF BookTypeOK
<1>4. Book!BNamesUnique'
  BY <1>1, <1>2 DEF LabelsInOrder, Book!BNamesUnique, Book!Exists, Book!NoLabel, NoLabel
<1>5. \A k \in Label : labels'[k] # NoLabel => labels'[k].org \in orgs'
  BY <1>1, <1>2 DEF LabelsInOrder, Book!BAtHome, Book!Exists, Book!NoLabel, NoLabel
<1>6. \A p \in taskLabels :
        /\ p[1] \in tasks /\ p[2] \in Label
        /\ labels[p[2]] # NoLabel /\ labels[p[2]].org = OrgOf[p[1]]
  BY DEF BookTypeOK, LabelsInOrder, Book!BAtHome, Book!Exists, Book!NoLabel, NoLabel
<1>7. Book!BAtHome'
  BY <1>2, <1>5, <1>6 DEF Book!BAtHome, Book!Exists, Book!NoLabel, NoLabel
<1> QED
  BY <1>3, <1>4, <1>7 DEF LabelsInOrder

LEMMA RenameKeeps ==
  ASSUME BookTypeOK, LabelsInOrder,
         NEW l \in Label, NEW n \in Name, Book!Rename(l, n)
  PROVE  BookTypeOK' /\ LabelsInOrder'
<1> DEFINE row == [org |-> labels[l].org, name |-> n]
<1>1. Exists(l)
  BY DEF Book!Rename, Book!Exists, Exists, Book!NoLabel, NoLabel
<1>2. labels[l] \in Row /\ labels[l].org \in Org
  BY <1>1, RowFields
<1>3. row \in Row /\ row # NoLabel /\ row.org = labels[l].org
  BY <1>2, LabelsAssumption DEF Row, NoLabel
<1>4. [labels[l] EXCEPT !.name = n] = row
  BY <1>2 DEF Row
<1>5. /\ labels' \in [Label -> Row \cup {NoLabel}]
      /\ labels'[l] = row
      /\ \A k \in Label \ {l} : labels'[k] = labels[k]
      /\ UNCHANGED <<orgs, tasks, taskLabels>>
  BY <1>3, <1>4 DEF BookTypeOK, Book!Rename
<1>6. \A k \in Label : labels[k] # row
  BY DEF Book!Rename, Book!Taken
<1>7. BookTypeOK'
  BY <1>5 DEF BookTypeOK
<1>8. Book!BNamesUnique'
  BY <1>3, <1>5, <1>6 DEF LabelsInOrder, Book!BNamesUnique, Book!Exists, Book!NoLabel, NoLabel
<1>9. \A k \in Label : labels'[k] # NoLabel <=> labels[k] # NoLabel
  BY <1>1, <1>3, <1>5 DEF Exists
<1>10. \A k \in Label : labels'[k].org = labels[k].org
  BY <1>3, <1>5
<1>11. \A p \in taskLabels : p[2] \in Label
  BY DEF BookTypeOK
<1>12. Book!BAtHome'
  BY <1>5, <1>9, <1>10, <1>11 DEF LabelsInOrder, Book!BAtHome, Book!Exists, Book!NoLabel, NoLabel
<1> QED
  BY <1>7, <1>8, <1>12 DEF LabelsInOrder

\* Labels and tasks go: what is left is as it was, and nothing is left of them.
LEMMA LossKeeps ==
  ASSUME BookTypeOK, LabelsInOrder, NEW ls \in SUBSET Label,
         labels' = [l \in Label |-> IF l \in ls THEN NoLabel ELSE labels[l]],
         taskLabels' \subseteq taskLabels,
         \A p \in taskLabels' : p[1] \in tasks' /\ p[2] \notin ls,
         orgs' \subseteq orgs, tasks' \subseteq tasks,
         \A l \in Label \ ls : Exists(l) => labels[l].org \in orgs'
  PROVE  BookTypeOK' /\ LabelsInOrder'
<1>1. BookTypeOK'
  BY DEF BookTypeOK
<1>2. \A l \in Label : /\ labels'[l] # NoLabel => l \notin ls /\ labels[l] # NoLabel
                       /\ l \notin ls => labels'[l] = labels[l]
  OBVIOUS
<1>3. Book!BNamesUnique'
  BY <1>2 DEF LabelsInOrder, Book!BNamesUnique, Book!Exists, Book!NoLabel, NoLabel
<1>4. \A p \in taskLabels : p[2] \in Label
  BY DEF BookTypeOK
<1>5. Book!BAtHome'
  BY <1>2, <1>4 DEF LabelsInOrder, Book!BAtHome, Book!Exists, Exists, Book!NoLabel, NoLabel
<1> QED
  BY <1>1, <1>3, <1>5 DEF LabelsInOrder

LEMMA StrikeKeeps ==
  ASSUME BookTypeOK, LabelsInOrder, NEW l \in Label, Book!Strike(l)
  PROVE  BookTypeOK' /\ LabelsInOrder'
<1>1. labels' = [k \in Label |-> IF k \in {l} THEN NoLabel ELSE labels[k]]
  BY DEF BookTypeOK, Book!Strike, Book!NoLabel, NoLabel
<1>2. /\ taskLabels' \subseteq taskLabels
      /\ \A p \in taskLabels' : p[1] \in tasks' /\ p[2] \notin {l}
      /\ UNCHANGED <<orgs, tasks>>
  BY DEF Book!Strike, LabelsInOrder, Book!BAtHome
<1>3. \A k \in Label \ {l} : Exists(k) => labels[k].org \in orgs'
  BY <1>2 DEF LabelsInOrder, Book!BAtHome, Book!Exists, Exists, Book!NoLabel, NoLabel
<1> QED
  BY <1>1, <1>2, <1>3, LossKeeps

LEMMA LoseTasksKeeps ==
  ASSUME BookTypeOK, LabelsInOrder, NEW gone \in SUBSET Task, Book!LoseTasks(gone)
  PROVE  BookTypeOK' /\ LabelsInOrder'
<1>1. labels' = [k \in Label |-> IF k \in {} THEN NoLabel ELSE labels[k]]
  BY DEF BookTypeOK, Book!LoseTasks
<1>2. /\ taskLabels' \subseteq taskLabels
      /\ \A p \in taskLabels' : p[1] \in tasks'
      /\ orgs' = orgs /\ tasks' \subseteq tasks
  BY DEF Book!LoseTasks, LabelsInOrder, Book!BAtHome
<1>3. \A k \in Label : Exists(k) => labels[k].org \in orgs'
  BY <1>2 DEF LabelsInOrder, Book!BAtHome, Book!Exists, Exists, Book!NoLabel, NoLabel
<1>4. {} \in SUBSET Label /\ Label \ {} = Label /\ \A p \in taskLabels' : p[2] \notin {}
  OBVIOUS
<1> QED
  BY <1>1, <1>2, <1>3, <1>4, LossKeeps

LEMMA DissolveKeeps ==
  ASSUME BookTypeOK, LabelsInOrder, NEW o \in Org, Book!Dissolve(o)
  PROVE  BookTypeOK' /\ LabelsInOrder'
<1> DEFINE ls == {l \in Label : labels[l].org = o}
<1>1. labels' = [l \in Label |-> IF l \in ls THEN NoLabel ELSE labels[l]]
  BY DEF Book!Dissolve, Book!NoLabel, NoLabel
<1>2. \A p \in taskLabels : p[1] \in tasks /\ p[2] \in Label /\ labels[p[2]].org = OrgOf[p[1]]
  BY DEF BookTypeOK, LabelsInOrder, Book!BAtHome
<1>3. /\ taskLabels' \subseteq taskLabels
      /\ \A p \in taskLabels' : p[1] \in tasks' /\ p[2] \notin ls
      /\ orgs' = orgs \ {o} /\ tasks' \subseteq tasks
  BY <1>2 DEF Book!Dissolve
<1>4. \A k \in Label \ ls : Exists(k) => labels[k].org \in orgs'
  BY <1>3 DEF LabelsInOrder, Book!BAtHome, Book!Exists, Exists, Book!NoLabel, NoLabel
<1> QED
  BY <1>1, <1>3, <1>4, LossKeeps

LEMMA PutOnKeeps ==
  ASSUME BookTypeOK, LabelsInOrder, NEW t \in Task, NEW l \in Label, Book!PutOn(t, l)
  PROVE  BookTypeOK' /\ LabelsInOrder'
<1>1. BookTypeOK'
  BY DEF BookTypeOK, Book!PutOn
<1>2. Book!BNamesUnique'
  BY DEF LabelsInOrder, Book!BNamesUnique, Book!PutOn, Book!Exists
<1>3. Book!BAtHome'
  BY DEF LabelsInOrder, Book!BAtHome, Book!PutOn, Book!Exists
<1> QED
  BY <1>1, <1>2, <1>3 DEF LabelsInOrder

LEMMA TakeOffKeeps ==
  ASSUME BookTypeOK, LabelsInOrder, NEW t \in Task, NEW l \in Label, Book!TakeOff(t, l)
  PROVE  BookTypeOK' /\ LabelsInOrder'
<1>1. BookTypeOK'
  BY DEF BookTypeOK, Book!TakeOff
<1>2. Book!BNamesUnique'
  BY DEF LabelsInOrder, Book!BNamesUnique, Book!TakeOff, Book!Exists
<1>3. Book!BAtHome'
  BY DEF LabelsInOrder, Book!BAtHome, Book!TakeOff, Book!Exists
<1> QED
  BY <1>1, <1>2, <1>3 DEF LabelsInOrder

LEMMA BookKeeps ==
  ASSUME BookTypeOK, LabelsInOrder, Book!BNext
  PROVE  BookTypeOK' /\ LabelsInOrder'
BY EnterKeeps, RenameKeeps, StrikeKeeps, LoseTasksKeeps, DissolveKeeps, PutOnKeeps, TakeOffKeeps
   DEF Book!BNext

-----------------------------------------------------------------------------
(* What a request writes is a step of the book.                            *)

\* What IInv says of one request.
LEMMA OfRequest ==
  ASSUME IInv, NEW r \in Request
  PROVE  /\ RequestOK(r)
         /\ r \in Label
         /\ pc[r] \in {"new", "find", "check", "commit", "done"}
         /\ args[r] \in Args \cup {NoArgs}
         /\ pc[r] \in {"find", "check", "commit"} => args[r] \in Args
BY DEF IInv, TypeOK, RequestOK, Label

LEMMA CreateIsEnter ==
  ASSUME IInv, NEW r \in Request, Create(r)
  PROVE  Book!Enter(r, args[r].on, args[r].name) /\ args[r].on \in Org /\ args[r].name \in Name
<1>1. args[r].on \in Org /\ args[r].name \in Name
  BY OfRequest, ArgsFields DEF Create, Ready
<1>2. labels[r] = NoLabel /\ r \in Label
  BY OfRequest DEF Create, Ready, RequestOK, Exists
<1>3. [org |-> args[r].on, name |-> args[r].name] # NoLabel
  BY <1>1, LabelsAssumption DEF NoLabel
<1>4. ~Book!Taken(args[r].on, args[r].name)
  BY <1>2, <1>3 DEF Create, NameIsFree, NameIsAvailable, Book!Taken
<1> QED
  BY <1>1, <1>2, <1>4 DEF Create, Book!Enter, Book!Exists, Book!NoLabel, NoLabel

\* Renaming a label to the name it has is no change.
LEMMA UpdateIsRename ==
  ASSUME IInv, NEW r \in Request, Update(r)
  PROVE  UNCHANGED db \/ \E l \in Label, n \in Name : Book!Rename(l, n)
<1> DEFINE l == args[r].label
           n == args[r].name
<1>1. l \in Label /\ n \in Name \cup {Null} /\ Exists(l)
  BY OfRequest, ArgsFields DEF Update, Ready
<1>2. labels[l] \in Row /\ labels \in [Label -> Row \cup {NoLabel}]
  BY <1>1, TypeOfBook, RowFields DEF IInv, BookTypeOK
<1>3. CASE n = Null \/ labels[l].name = n
  <2>1. labels' = labels
    BY <1>1, <1>2, <1>3 DEF Update, Row
  <2> QED
    BY <2>1 DEF Update, db
<1>4. CASE n # Null /\ labels[l].name # n
  <2>1. ~Book!Taken(labels[l].org, n)
    BY <1>1, <1>2, <1>4 DEF Update, NameIsFree, NameIsAvailable, Book!Taken
  <2>2. Book!Rename(l, n)
    BY <1>1, <1>4, <2>1 DEF Update, Book!Rename, Book!Exists, Exists, Book!NoLabel, NoLabel
  <2> QED
    BY <1>1, <1>4, <2>2
<1> QED
  BY <1>3, <1>4

LEMMA RemoveIsStrike ==
  ASSUME IInv, NEW r \in Request, Remove(r)
  PROVE  \E l \in Label : Book!Strike(l)
<1>1. args[r].label \in Label
  BY OfRequest, ArgsFields DEF Remove, Ready
<1>2. taskLabels' = {p \in taskLabels : p[2] # args[r].label}
  BY DEF Remove, Without
<1>3. Book!Strike(args[r].label)
  BY <1>2 DEF Remove, Book!Strike, Book!Exists, Exists, Book!NoLabel, NoLabel
<1> QED
  BY <1>1, <1>3

\* The label is still of the task's organization if it is there at all.
LEMMA AssignIsPutOn ==
  ASSUME IInv, NEW r \in Request, Assign(r)
  PROVE  \E t \in Task, l \in Label : Book!PutOn(t, l)
<1>1. args[r].on \in Task /\ args[r].label \in Label
  BY OfRequest, ArgsFields DEF Assign, Ready
<1>2. labels[args[r].label].org = OrgOf[args[r].on]
  BY OfRequest DEF Assign, Ready, RequestOK
<1>3. Book!PutOn(args[r].on, args[r].label)
  BY <1>2 DEF Assign, Book!PutOn, Book!Exists, Exists, Book!NoLabel, NoLabel
<1> QED
  BY <1>1, <1>3

LEMMA UnassignIsTakeOff ==
  ASSUME IInv, NEW r \in Request, Unassign(r)
  PROVE  \E t \in Task, l \in Label : Book!TakeOff(t, l)
<1>1. args[r].on \in Task /\ args[r].label \in Label
  BY OfRequest, ArgsFields DEF Unassign, Ready
<1>2. Book!TakeOff(args[r].on, args[r].label)
  BY DEF Unassign, Book!TakeOff
<1> QED
  BY <1>1, <1>2

LEMMA RemoveTasksIsLoss ==
  ASSUME IInv, RemoveTasks
  PROVE  \E gone \in SUBSET Task : Book!LoseTasks(gone)
<1>1. PICK gone \in SUBSET tasks : /\ tasks' = tasks \ gone
                                  /\ taskLabels' = Without(gone, {})
  BY DEF RemoveTasks
<1>2. taskLabels' = {p \in taskLabels : p[1] \notin gone}
  BY <1>1 DEF Without
<1>3. Book!LoseTasks(gone)
  BY <1>1, <1>2 DEF RemoveTasks, Book!LoseTasks
<1>4. gone \in SUBSET Task
  BY <1>1 DEF IInv, TypeOK
<1> QED
  BY <1>3, <1>4

\* A label of the organization may only be on tasks of the organization, so
\* what the tasks take with them is all there is to take.
LEMMA RemoveOrganizationIsDissolution ==
  ASSUME IInv, RemoveOrganization
  PROVE  \E o \in Org : Book!Dissolve(o)
<1>1. PICK o \in orgs :
        LET ts == {t \in tasks : OrgOf[t] = o}
            ls == {l \in Label : labels[l].org = o}
        IN
        /\ orgs' = orgs \ {o}
        /\ tasks' = tasks \ ts
        /\ labels' = [l \in Label |-> IF l \in ls THEN NoLabel ELSE labels[l]]
        /\ taskLabels' = Without(ts, ls)
  BY DEF RemoveOrganization
<1>2. o \in Org
  BY <1>1 DEF IInv, TypeOK
<1>3. \A p \in taskLabels : /\ p[1] \in tasks /\ p[2] \in Label
                            /\ labels[p[2]].org = OrgOf[p[1]]
  BY DEF IInv, TypeOK, LabelsInOrder, Book!BAtHome
<1>4. taskLabels' = {p \in taskLabels : OrgOf[p[1]] # o}
  BY <1>1, <1>3 DEF Without
<1>5. tasks' = {t \in tasks : OrgOf[t] # o}
  BY <1>1
<1>6. labels' = [l \in Label |-> IF labels[l].org = o THEN Book!NoLabel ELSE labels[l]]
  BY <1>1 DEF Book!NoLabel, NoLabel
<1>7. Book!Dissolve(o)
  BY <1>1, <1>4, <1>5, <1>6 DEF Book!Dissolve
<1> QED
  BY <1>2, <1>7

LEMMA NextIsBook ==
  ASSUME IInv, Next
  PROVE  Book!BNext \/ UNCHANGED db
<1>1. ASSUME NEW r \in Request, Step(r)
      PROVE  Book!BNext \/ UNCHANGED db
  <2>1. r \in Label
    BY DEF Label
  <2>2. CASE Begin(r) \/ Find(r) \/ Check(r) \/ Refuse(r) \/ Fail(r)
    BY <2>2 DEF Begin, Find, Check, Refuse, Fail
  <2>3. CASE Create(r)
    BY <2>1, <2>3, CreateIsEnter DEF Book!BNext
  <2>4. CASE Update(r)
    BY <2>4, UpdateIsRename DEF Book!BNext
  <2>5. CASE Remove(r)
    BY <2>5, RemoveIsStrike DEF Book!BNext
  <2>6. CASE Assign(r)
    BY <2>6, AssignIsPutOn DEF Book!BNext
  <2>7. CASE Unassign(r)
    BY <2>7, UnassignIsTakeOff DEF Book!BNext
  <2> QED
    BY <1>1, <2>2, <2>3, <2>4, <2>5, <2>6, <2>7 DEF Step
<1>2. CASE RemoveTasks
  BY <1>2, RemoveTasksIsLoss DEF Book!BNext
<1>3. CASE RemoveOrganization
  BY <1>3, RemoveOrganizationIsDissolution DEF Book!BNext
<1> QED
  BY <1>1, <1>2, <1>3 DEF Next

LEMMA BookInOrder ==
  ASSUME IInv, Next
  PROVE  BookTypeOK' /\ LabelsInOrder'
<1>1. BookTypeOK /\ LabelsInOrder
  BY TypeOfBook DEF IInv
<1>2. CASE UNCHANGED db
  BY <1>1, <1>2 DEF db, BookTypeOK, LabelsInOrder, Book!BNamesUnique, Book!BAtHome, Book!Exists
<1> QED
  BY <1>1, <1>2, NextIsBook, BookKeeps

-----------------------------------------------------------------------------
(* The requests.                                                           *)

RequestsTypeOK ==
  /\ pc \in [Request -> {"new", "find", "check", "commit", "done"}]
  /\ args \in [Request -> Args \cup {NoArgs}]
  /\ org \in [Request -> Org \cup {Null}]

\* A request that is answered leaves no trace of itself.
LEMMA FinishEffect ==
  ASSUME RequestsTypeOK, NEW r \in Request, Finish(r)
  PROVE  RequestsTypeOK' /\ pc'[r] = "done"
<1>1. Null \in Org \cup {Null} /\ NoArgs \in Args \cup {NoArgs}
  OBVIOUS
<1> QED
  BY <1>1 DEF RequestsTypeOK, Finish, Goto

LEMMA RequestsTyped ==
  ASSUME IInv, Next
  PROVE  RequestsTypeOK'
<1>1. RequestsTypeOK
  BY DEF IInv, TypeOK, RequestsTypeOK
<1>2. ASSUME NEW r \in Request, Begin(r)
      PROVE  RequestsTypeOK'
  <2>1. PICK a \in Args :
          /\ args' = [args EXCEPT ![r] = a]
          /\ org' = [org EXCEPT ![r] = IF a.op = "Create" THEN a.on ELSE Null]
          /\ pc' = [pc EXCEPT ![r] = FirstLookup(a.op)]
    BY <1>2 DEF Begin, Goto
  <2>2. (IF a.op = "Create" THEN a.on ELSE Null) \in Org \cup {Null}
    BY ArgsFields
  <2>3. FirstLookup(a.op) \in {"find", "check"}
    BY DEF FirstLookup
  <2> QED
    BY <1>1, <2>1, <2>2, <2>3 DEF RequestsTypeOK
<1>3. ASSUME NEW r \in Request, Find(r)
      PROVE  RequestsTypeOK'
  <2>1. args[r].label \in Label
    BY <1>3, OfRequest, ArgsFields DEF Find, RequestOK
  <2>2. labels[args[r].label].org \in Org
    BY <1>3, <2>1, TypeOfBook, RowFields DEF Find, Found, IInv
  <2> QED
    BY <1>1, <1>3, <2>2 DEF Find, Goto, RequestsTypeOK
<1>4. ASSUME NEW r \in Request, Check(r)
      PROVE  RequestsTypeOK'
  BY <1>1, <1>4 DEF Check, Goto, RequestsTypeOK
<1>5. ASSUME NEW r \in Request,
             \/ Refuse(r) \/ Fail(r) \/ Create(r) \/ Update(r) \/ Remove(r)
             \/ Assign(r) \/ Unassign(r)
      PROVE  RequestsTypeOK'
  BY <1>1, <1>5, FinishEffect DEF Refuse, Fail, Create, Update, Remove, Assign, Unassign
<1>6. CASE RemoveTasks \/ RemoveOrganization
  BY <1>1, <1>6 DEF RemoveTasks, RemoveOrganization, RequestsTypeOK
<1> QED
  BY <1>2, <1>3, <1>4, <1>5, <1>6 DEF Next, Step

\* An answered request stays answered.
LEMMA DoneStaysDone ==
  ASSUME IInv, Next, NEW q \in Request, pc[q] = "done"
  PROVE  pc'[q] = "done"
<1>1. pc \in [Request -> {"new", "find", "check", "commit", "done"}]
  BY DEF IInv, TypeOK
<1> QED
  BY <1>1 DEF Next, Step, Begin, Find, Check, Refuse, Create, Update, Remove, Assign, Unassign,
              Fail, Finish, Goto, Ready, RemoveTasks, RemoveOrganization

\* A label keeps its organization as long as it is there, and only the request
\* that is answered with it makes one.
LEMMA LabelsOnlyFrom ==
  ASSUME IInv, Next, NEW l \in Label, labels'[l] # NoLabel
  PROVE  \/ labels[l] # NoLabel /\ labels'[l].org = labels[l].org
         \/ l \in Request /\ pc[l] = "commit" /\ pc'[l] = "done"
<1>1. labels \in [Label -> Row \cup {NoLabel}]
  BY DEF IInv, TypeOK
<1>2. ASSUME NEW r \in Request, Create(r)
      PROVE  l # r => labels'[l] = labels[l]
  BY <1>1, <1>2 DEF Create
<1>3. ASSUME NEW r \in Request, Create(r)
      PROVE  r \in Request /\ pc[r] = "commit" /\ pc'[r] = "done"
  BY <1>3 DEF Create, Ready, Finish, Goto, IInv, TypeOK
<1>4. ASSUME NEW r \in Request, Update(r)
      PROVE  labels[l] # NoLabel /\ labels'[l].org = labels[l].org
  <2>1. args[r].label \in Label /\ Exists(args[r].label)
    BY <1>4, OfRequest, ArgsFields DEF Update, Ready
  <2>2. labels[args[r].label] \in Row
    BY <2>1, TypeOfBook, RowFields DEF IInv
  <2>3. \/ labels' = labels
        \/ labels' = [labels EXCEPT ![args[r].label].name = args[r].name]
    BY <1>4 DEF Update
  <2>4. CASE l = args[r].label
    BY <1>1, <2>1, <2>2, <2>3, <2>4 DEF Exists, Row
  <2>5. CASE l # args[r].label
    BY <1>1, <2>3, <2>5
  <2> QED
    BY <2>4, <2>5
<1>5. ASSUME NEW r \in Request, Remove(r)
      PROVE  labels'[l] = labels[l]
  BY <1>1, <1>5 DEF Remove
<1>6. CASE RemoveOrganization
  BY <1>1, <1>6 DEF RemoveOrganization
<1>7. CASE RemoveTasks
  BY <1>7 DEF RemoveTasks
<1>8. ASSUME NEW r \in Request,
             \/ Begin(r) \/ Find(r) \/ Check(r) \/ Refuse(r) \/ Fail(r)
             \/ Assign(r) \/ Unassign(r)
      PROVE  labels' = labels
  BY <1>8 DEF Begin, Find, Check, Refuse, Fail, Assign, Unassign, db
<1> QED
  BY <1>2, <1>3, <1>4, <1>5, <1>6, <1>7, <1>8 DEF Next, Step

\* Of a request that takes no step, or only passes its check.
LEMMA ArgsKept ==
  ASSUME IInv, Next, NEW q \in Request, args'[q] = args[q],
         \/ pc'[q] = pc[q]
         \/ pc[q] = "check" /\ pc'[q] = "commit"
  PROVE  RequestOK(q)'
<1>1. RequestOK(q) /\ q \in Label
  BY OfRequest
<1>2. labels'[q] # NoLabel => pc'[q] = "done"
  BY <1>1, LabelsOnlyFrom, DoneStaysDone DEF RequestOK, Exists
<1>3. ASSUME pc'[q] \in {"check", "commit"}, args[q].op = "Assign"
      PROVE  /\ args[q].label \in Request => pc'[args[q].label] = "done"
             /\ labels'[args[q].label] # NoLabel =>
                  labels'[args[q].label].org = OrgOf[args[q].on]
  <2>1. /\ pc[q] \in {"check", "commit"}
        /\ args[q].label \in Request => pc[args[q].label] = "done"
        /\ labels[args[q].label] # NoLabel => labels[args[q].label].org = OrgOf[args[q].on]
    BY <1>1, <1>3 DEF RequestOK, Exists
  <2>2. args[q].label \in Label
    BY <1>3, <2>1, OfRequest, ArgsFields
  <2> QED
    BY <2>1, <2>2, LabelsOnlyFrom, DoneStaysDone
<1>4. /\ pc'[q] \in {"find", "check", "commit"} => args[q] \in Args
      /\ pc'[q] = "find" => args[q].op \in {"Update", "Remove", "Assign"}
  BY <1>1 DEF RequestOK
<1> QED
  BY <1>2, <1>3, <1>4 DEF RequestOK, Exists

LEMMA BeginKeeps ==
  ASSUME IInv, Next, NEW r \in Request, Begin(r)
  PROVE  RequestOK(r)'
<1>1. PICK a \in Args : pc'[r] = FirstLookup(a.op) /\ args'[r] = a
  BY DEF Begin, Goto, IInv, TypeOK
<1>2. labels'[r] = NoLabel
  BY OfRequest DEF Begin, RequestOK, Exists, db
<1>3. a.op \in {"Create", "Update", "Remove", "Assign", "Unassign"}
  BY DEF Args
<1> QED
  BY <1>1, <1>2, <1>3 DEF RequestOK, Exists, FirstLookup

LEMMA FindKeeps ==
  ASSUME IInv, Next, NEW r \in Request, Find(r)
  PROVE  RequestOK(r)'
<1>1. /\ labels' = labels
      /\ args' = args
      /\ pc[r] = "find" /\ pc'[r] \in {"check", "commit"}
      /\ \A q \in Request \ {r} : pc'[q] = pc[q]
      /\ Found(args[r])
  BY DEF Find, Goto, db, IInv, TypeOK
<1>2. /\ labels[r] = NoLabel
      /\ args[r] \in Args
  BY <1>1, OfRequest DEF RequestOK, Exists
<1>3. args[r].label # r
  BY <1>1, <1>2 DEF Found, Exists
<1>4. args[r].label \in Request => pc[args[r].label] = "done"
  BY <1>1, OfRequest DEF Found, RequestOK
<1> QED
  BY <1>1, <1>2, <1>3, <1>4 DEF RequestOK, Exists, Found

LEMMA RequestsKept ==
  ASSUME IInv, Next, NEW q \in Request
  PROVE  RequestOK(q)'
<1>1. RequestsTypeOK
  BY DEF IInv, TypeOK, RequestsTypeOK
<1>2. ASSUME pc'[q] = "done"
      PROVE  RequestOK(q)'
  BY <1>2 DEF RequestOK
<1>3. ASSUME NEW r \in Request, Step(r)
      PROVE  RequestOK(q)'
  <2>1. CASE q # r
    <3>1. pc'[q] = pc[q] /\ args'[q] = args[q]
      BY <1>1, <1>3, <2>1 DEF RequestsTypeOK, Step, Begin, Find, Check, Refuse, Create, Update,
                              Remove, Assign, Unassign, Fail, Finish, Goto
    <3> QED
      BY <3>1, ArgsKept
  <2>2. CASE q = r /\ Begin(r)
    BY <2>2, BeginKeeps
  <2>3. CASE q = r /\ Find(r)
    BY <2>3, FindKeeps
  <2>4. CASE q = r /\ Check(r)
    <3>1. pc[q] = "check" /\ pc'[q] = "commit" /\ args'[q] = args[q]
      BY <1>1, <2>4 DEF RequestsTypeOK, Check, Goto
    <3> QED
      BY <3>1, ArgsKept
  <2>5. CASE q = r /\ (\/ Refuse(r) \/ Fail(r) \/ Create(r) \/ Update(r) \/ Remove(r)
                      \/ Assign(r) \/ Unassign(r))
    <3>1. Finish(r)
      BY <2>5 DEF Refuse, Fail, Create, Update, Remove, Assign, Unassign
    <3> QED
      BY <1>1, <1>2, <2>5, <3>1, FinishEffect
  <2> QED
    BY <1>3, <2>1, <2>2, <2>3, <2>4, <2>5 DEF Step
<1>4. CASE RemoveTasks \/ RemoveOrganization
  <2>1. pc'[q] = pc[q] /\ args'[q] = args[q]
    BY <1>4 DEF RemoveTasks, RemoveOrganization
  <2> QED
    BY <2>1, ArgsKept
<1> QED
  BY <1>3, <1>4 DEF Next

-----------------------------------------------------------------------------
(* The theorems.                                                           *)

LEMMA InitInvariant == Init => IInv
<1> SUFFICES ASSUME Init
             PROVE  IInv
  OBVIOUS
<1>1. TypeOK
  BY DEF Init, TypeOK, Book!BInit, Book!Row, Book!NoLabel, Row, NoLabel
<1>2. LabelsInOrder
  BY DEF Init, Book!BInit, LabelsInOrder
<1>3. \A r \in Request : RequestOK(r)
  BY DEF Init, RequestOK, Exists
<1> QED
  BY <1>1, <1>2, <1>3 DEF IInv

LEMMA NextInvariant == IInv /\ [Next]_vars => IInv'
<1> SUFFICES ASSUME IInv, [Next]_vars
             PROVE  IInv'
  OBVIOUS
<1>1. CASE Next
  <2>1. TypeOK'
    BY <1>1, BookInOrder, RequestsTyped DEF TypeOK, BookTypeOK, RequestsTypeOK
  <2>2. \A r \in Request : RequestOK(r)'
    BY <1>1, RequestsKept
  <2> QED
    BY <1>1, <2>1, <2>2, BookInOrder DEF IInv
<1>2. CASE UNCHANGED vars
  <2>1. TypeOK'
    BY <1>2 DEF IInv, vars, TypeOK
  <2>2. LabelsInOrder'
    BY <1>2 DEF IInv, vars, LabelsInOrder, Book!BNamesUnique, Book!BAtHome, Book!Exists
  <2>3. \A r \in Request : RequestOK(r)'
    BY <1>2 DEF IInv, vars, RequestOK, Exists
  <2> QED
    BY <2>1, <2>2, <2>3 DEF IInv
<1> QED
  BY <1>1, <1>2

LEMMA Invariance == Spec => []IInv
BY InitInvariant, NextInvariant, PTL DEF Spec

\* The tables and the requests are always what the code can make them.
THEOREM TypeCorrect == Spec => []TypeOK
<1>1. IInv => TypeOK
  BY DEF IInv
<1> QED
  BY <1>1, Invariance, PTL

\* However creations, renamings and assignments overlap with one another and
\* with removals, names stay unique and labels on tasks of their organization.
THEOREM InOrder == Spec => []LabelsInOrder
<1>1. IInv => LabelsInOrder
  BY DEF IInv
<1> QED
  BY <1>1, Invariance, PTL

\* LabelsService, a lookup at a time and with no transaction, implements the
\* book of labels: every write is a step the book allows at that moment.
THEOREM Implements == Spec => ImplementsBook
<1>1. Init => Book!BInit
  BY DEF Init
<1>2. IInv /\ [Next]_vars => [Book!book' # Book!book /\ Book!BNext]_(Book!book)
  BY NextIsBook DEF vars, db, Book!book
<1> QED
  BY <1>1, <1>2, Invariance, PTL DEF Spec, ImplementsBook, Book!BSpec

-----------------------------------------------------------------------------
(* The pages of the listing.  Task is finite, as a table is.               *)

Least(m, n) == IF m <= n THEN m ELSE n

\* How many of the tasks in M come no later than t.
PlaceIn(M, t) == Cardinality({u \in M : column[u] <= column[t]})
Place(t) == PlaceIn(Matching, t)

\* How far the pages whose rows have been answered go.
Reach == (IF "rows" \in todo THEN page - 1 ELSE page) * limit

WalkTypeOK ==
  /\ page \in Nat /\ todo \subseteq Queries /\ total \in Nat
  /\ shown \in Seq(Task) /\ always \subseteq Task
  /\ lost \in BOOLEAN /\ gained \in BOOLEAN /\ torn \in BOOLEAN
  /\ page > 0 => limit \in Limits /\ column \in Columns
  /\ page = 0 => todo = {} /\ shown = <<>> /\ ~lost /\ ~gained /\ ~torn

Walking == page > 0 /\ ~Ended

\* What is watched during a walk, and what a count says until the rows come.
WatchedOK ==
  Walking => /\ lost \/ always \subseteq Matching
             /\ gained \/ Matching \subseteq always
             /\ todo = {"rows"} => torn \/ Cardinality(Matching) <= total

\* If nothing began or stopped to match, rows are as many as pages have room for.
QuietOK ==
  page > 0 /\ ~lost /\ ~gained =>
    /\ Len(shown) = Least(Cardinality(always), Reach)
    /\ "count" \notin todo => total = Cardinality(always)

\* If nothing began to match, no task has moved down: what has been shown is
\* where the pages have been.
OnceOK ==
  page > 0 /\ ~Tied /\ ~gained =>
    /\ Seqs!IsInjective(shown)
    /\ Walking => \A t \in Seqs!ToSet(shown) : Place(t) <= Reach

\* If nothing stopped to match, no task has moved up: what is where the pages
\* have been has been shown.
NoneMissedOK ==
  page > 0 /\ ~Tied /\ ~lost =>
    /\ Walking => \A t \in always : Place(t) <= Reach => t \in Seqs!ToSet(shown)
    /\ Ended => torn \/ always \subseteq Seqs!ToSet(shown)

WalkInv == WalkTypeOK /\ WatchedOK /\ QuietOK /\ OnceOK /\ NoneMissedOK

-----------------------------------------------------------------------------
(* Pages and places.                                                       *)

LEMMA NextOffset ==
  ASSUME NEW p \in Nat \ {0}, NEW n \in Nat
  PROVE  Skip(p, n) \in Nat /\ (p - 1) * n = Skip(p, n) /\ p * n = Skip(p, n) + n
BY DEF Skip

LEMMA Product ==
  ASSUME NEW m \in Nat, NEW n \in Nat
  PROVE  m * n \in Nat
OBVIOUS

\* The last page that totalPages gives reaches the last row.
LEMMA LastPage ==
  ASSUME NEW n \in Nat, NEW size \in Nat \ {0}, NEW p \in Nat, p >= TotalPages(n, size)
  PROVE  n <= p * size
<1>1. PICK q \in Int : q = TotalPages(n, size) /\ n + size - 1 < q * size + size
  BY DEF TotalPages
<1>2. PICK d \in Nat : d = p - q
  BY <1>1
<1>3. d * size \in Nat
  BY <1>2, Product
<1>4. p * size = q * size + d * size
  BY <1>2
<1>5. q * size \in Int /\ p * size \in Int
  OBVIOUS
<1> QED
  BY <1>1, <1>3, <1>4, <1>5

LEMMA SameCardinality == ASSUME NEW S PROVE Seqs!Cardinality(S) = Cardinality(S)
BY Zenon DEF Seqs!Cardinality, Cardinality

LEMMA Injective ==
  ASSUME NEW s
  PROVE  Seqs!IsInjective(s) <=> \A i, j \in DOMAIN s : s[i] = s[j] => i = j
BY DEF Seqs!IsInjective

LEMMA InToSet ==
  ASSUME NEW S, NEW s \in Seq(S), NEW t
  PROVE  t \in Seqs!ToSet(s) <=> \E i \in 1 .. Len(s) : s[i] = t
BY DEF Seqs!ToSet

LEMMA FiniteMatching ==
  ASSUME tasks \subseteq Task
  PROVE  Matching \subseteq Task /\ IsFiniteSet(Matching) /\ Cardinality(Matching) \in Nat
<1>1. Matching \in SUBSET Task
  BY DEF Matching
<1> QED
  BY <1>1, ListingAssumption, FS_Subset, FS_CardinalityType

\* Places among fewer tasks are earlier, and no place is past the last.
LEMMA PlaceGrows ==
  ASSUME NEW M, NEW N, M \subseteq N, IsFiniteSet(N), NEW t
  PROVE  /\ PlaceIn(M, t) \in Nat
         /\ PlaceIn(M, t) <= PlaceIn(N, t)
         /\ PlaceIn(M, t) <= Cardinality(M)
<1> DEFINE in == {u \in M : column[u] <= column[t]}
           out == {u \in N : column[u] <= column[t]}
<1>1. IsFiniteSet(M) /\ IsFiniteSet(out)
  <2>1. M \in SUBSET N /\ out \in SUBSET N
    OBVIOUS
  <2> QED
    BY <2>1, FS_Subset
<1>2. in \in SUBSET out /\ in \in SUBSET M
  OBVIOUS
<1>3. IsFiniteSet(in) /\ Cardinality(in) <= Cardinality(out) /\ Cardinality(in) <= Cardinality(M)
  BY <1>1, <1>2, FS_Subset
<1>4. Cardinality(in) \in Nat
  BY <1>3, FS_CardinalityType
<1> QED
  BY <1>3, <1>4 DEF PlaceIn

-----------------------------------------------------------------------------
(* What a page shows.                                                      *)

LEMMA OrderedRows ==
  ASSUME tasks \subseteq Task, NEW s \in Orders(Matching)
  PROVE  /\ s \in Seq(Task)
         /\ Len(s) = Cardinality(Matching)
         /\ \A i \in 1 .. Len(s) : s[i] \in Matching
         /\ \A i, j \in 1 .. Len(s) : s[i] = s[j] => i = j
         /\ \A i, j \in 1 .. Len(s) : i < j => column[s[i]] <= column[s[j]]
         /\ \A t \in Matching : \E i \in 1 .. Len(s) : s[i] = t
<1> DEFINE n == Cardinality(Matching)
<1>1. n \in Nat /\ IsFiniteSet(Matching) /\ Matching \subseteq Task
  BY FiniteMatching
<1>2. /\ s \in [1 .. n -> Matching]
      /\ \A i, j \in 1 .. n : i # j => s[i] # s[j]
      /\ \A i, j \in DOMAIN s : i < j => column[s[i]] <= column[s[j]]
  BY SameCardinality DEF Orders, Seqs!SetToSeqs
<1> HIDE DEF n
<1>3. s \in Seq(Task) /\ Len(s) = n /\ DOMAIN s = 1 .. n
  BY <1>1, <1>2
<1>4. s \in Injection(1 .. n, Matching)
  BY <1>2 DEF Injection, IsInjective
<1>5. Cardinality(1 .. n) = n
  BY <1>1, FS_Interval
<1>6. s \in Surjection(1 .. n, Matching)
  BY <1>1, <1>4, <1>5, FS_Injection DEF n
<1>7. \A t \in Matching : \E i \in 1 .. n : s[i] = t
  BY <1>6 DEF Surjection
<1> QED
  BY <1>2, <1>3, <1>7 DEF n

\* If the column tells tasks apart, a row's place is its number.
LEMMA RowsInPlace ==
  ASSUME tasks \subseteq Task, NEW s \in Orders(Matching),
         page > 0, ~Tied, column \in [Task -> Int], NEW i \in 1 .. Len(s)
  PROVE  Place(s[i]) = i
<1> DEFINE in == {u \in Matching : column[u] <= column[s[i]]}
<1>1. /\ s \in Seq(Task) /\ Len(s) \in Nat /\ Matching \subseteq Task
      /\ \A j \in 1 .. Len(s) : s[j] \in Matching
      /\ \A j, k \in 1 .. Len(s) : s[j] = s[k] => j = k
      /\ \A j, k \in 1 .. Len(s) : j < k => column[s[j]] <= column[s[k]]
      /\ \A t \in Matching : \E j \in 1 .. Len(s) : s[j] = t
  BY OrderedRows, FiniteMatching
<1>2. ASSUME NEW j \in 1 .. Len(s), NEW k \in 1 .. Len(s), j < k
      PROVE  column[s[j]] < column[s[k]]
  <2>1. s[j] \in Task /\ s[k] \in Task /\ s[j] # s[k]
    BY <1>1, <1>2
  <2>2. column[s[j]] # column[s[k]]
    BY <2>1 DEF Tied
  <2>3. column[s[j]] <= column[s[k]]
    BY <1>1, <1>2
  <2> QED
    BY <2>1, <2>2, <2>3
<1>3. \A j \in 1 .. Len(s) : s[j] \in in <=> j <= i
  <2> TAKE j \in 1 .. Len(s)
  <2>1. s[j] \in Matching /\ s[j] \in Task /\ s[i] \in Task
    BY <1>1
  <2>2. column[s[j]] \in Int /\ column[s[i]] \in Int
    BY <2>1
  <2>3. CASE j < i
    <3>1. column[s[j]] < column[s[i]]
      BY <1>2, <2>3
    <3> QED
      BY <2>1, <2>2, <2>3, <3>1
  <2>4. CASE j = i
    BY <2>1, <2>2, <2>4
  <2>5. CASE i < j
    <3>1. column[s[i]] < column[s[j]]
      BY <1>2, <2>5
    <3> QED
      BY <2>1, <2>2, <2>5, <3>1
  <2> QED
    BY <2>3, <2>4, <2>5
<1> HIDE DEF in
<1>4. \A u \in in : \E j \in 1 .. i : s[j] = u
  <2> TAKE u \in in
  <2>1. PICK j \in 1 .. Len(s) : s[j] = u
    BY <1>1 DEF in
  <2>2. j \in 1 .. i
    BY <1>3, <2>1
  <2> QED
    BY <2>1, <2>2
<1> DEFINE f == [j \in 1 .. i |-> s[j]]
<1>5. f \in [1 .. i -> in]
  BY <1>1, <1>3
<1>6. f \in Bijection(1 .. i, in)
  <2>1. f \in Injection(1 .. i, in)
    <3>1. \A j, k \in 1 .. i : f[j] = f[k] => j = k
      BY <1>1
    <3>2. DOMAIN f = 1 .. i
      OBVIOUS
    <3> HIDE DEF f
    <3> QED
      BY <1>5, <3>1, <3>2 DEF Injection, IsInjective
  <2>2. f \in Surjection(1 .. i, in)
    BY <1>4, <1>5 DEF Surjection
  <2> QED
    BY <2>1, <2>2 DEF Bijection
<1>7. IsFiniteSet(1 .. i) /\ Cardinality(1 .. i) = i
  BY FS_Interval
<1>8. ExistsBijection(1 .. i, in)
  BY <1>6 DEF ExistsBijection
<1>9. Cardinality(in) = i
  BY <1>7, <1>8, FS_Bijection
<1> QED
  BY <1>9 DEF in, Place, PlaceIn

\* z is q with the rows of s from a place on, n at most.
Extends(z, q, s, from, n) ==
  /\ z \in Seq(Task)
  /\ Len(z) = Len(q) + (IF Len(s) <= from THEN 0 ELSE Least(Len(s), from + n) - from)
  /\ \A i \in 1 .. Len(q) : z[i] = q[i]
  /\ \A i \in 1 .. Len(z) : i > Len(q) =>
       /\ from + i - Len(q) \in from + 1 .. from + n
       /\ from + i - Len(q) \in 1 .. Len(s)
       /\ z[i] = s[from + i - Len(q)]

LEMMA SliceShows ==
  ASSUME NEW s \in Seq(Task), NEW q \in Seq(Task), NEW from \in Nat, NEW n \in Nat
  PROVE  Extends(q \o Slice(s, from, n), q, s, from, n)
<1> DEFINE z == q \o Slice(s, from, n)
<1> HIDE DEF z
<1> DEFINE to == Least(Len(s), from + n)
           y == SubSeq(s, from + 1, to)
<1>1. Len(s) \in Nat /\ Len(q) \in Nat /\ to \in Nat /\ to <= Len(s) /\ to <= from + n
  BY DEF Least
<1>2. Slice(s, from, n) = y
  <2>1. (IF Len(s) < from + n THEN Len(s) ELSE from + n) = to
    BY <1>1 DEF Least
  <2> QED
    BY <2>1 DEF Slice
<1>3. Len(s) <= from => to <= from
  BY <1>1
<1>3a. Len(s) > from => to >= from
  BY <1>1 DEF Least
<1> HIDE DEF to
<1>4. /\ y \in Seq(Task)
      /\ Len(y) = IF from + 1 <= to THEN to - (from + 1) + 1 ELSE 0
      /\ \A i \in 1 .. to - (from + 1) + 1 : y[i] = s[from + 1 + i - 1]
  <2>1. \A i \in from + 1 .. to : s[i] \in Task
    BY <1>1
  <2>2. from + 1 \in Int /\ to \in Int
    BY <1>1
  <2> QED
    BY <2>1, <2>2, SubSeqProperties
<1> HIDE DEF y
<1>5. /\ z \in Seq(Task) /\ Len(z) = Len(q) + Len(y)
      /\ \A i \in 1 .. Len(q) + Len(y) : z[i] = IF i <= Len(q) THEN q[i] ELSE y[i - Len(q)]
  BY <1>2, <1>4, ConcatProperties DEF z
<1>6. Len(y) = IF Len(s) <= from THEN 0 ELSE to - from
  BY <1>1, <1>3, <1>3a, <1>4
<1>7. \A i \in 1 .. Len(q) : z[i] = q[i]
  BY <1>1, <1>5, <1>6
<1>8. ASSUME NEW i \in 1 .. Len(z), i > Len(q)
      PROVE  /\ from + i - Len(q) \in from + 1 .. from + n
             /\ from + i - Len(q) \in 1 .. Len(s)
             /\ z[i] = s[from + i - Len(q)]
  <2>1. z[i] = y[i - Len(q)]
    BY <1>1, <1>5, <1>8
  <2>2. /\ i - Len(q) \in 1 .. Len(y)
        /\ Len(y) = to - from
    BY <1>1, <1>5, <1>6, <1>8
  <2>3. i - Len(q) \in 1 .. to - (from + 1) + 1
    BY <1>1, <2>2
  <2>4. y[i - Len(q)] = s[from + 1 + (i - Len(q)) - 1]
    BY <1>4, <2>3
  <2>5. from + 1 + (i - Len(q)) - 1 = from + i - Len(q)
    BY <1>1
  <2> QED
    BY <1>1, <2>1, <2>2, <2>4, <2>5
<1> QED
  BY <1>5, <1>6, <1>7, <1>8 DEF to, z, Extends


-----------------------------------------------------------------------------
(* WalkInv is inductive.                                                   *)

LEMMA ColumnsAndLimits ==
  ASSUME NEW c \in Columns, NEW n \in Limits
  PROVE  c \in [Task -> Int] /\ n \in Nat \ {0}
<1>1. Columns \subseteq [Task -> Int] /\ Limits \subseteq 1 .. 100
  BY ListingAssumption
<1>2. c \in [Task -> Int]
  BY <1>1
<1>3. n \in 1 .. 100
  BY <1>1
<1> QED
  BY <1>2, <1>3

\* How far a walk has come.
LEMMA WalkFacts ==
  ASSUME WalkTypeOK, page > 0
  PROVE  /\ column \in [Task -> Int] /\ limit \in Nat \ {0}
         /\ page \in Nat \ {0} /\ Reach \in Nat
         /\ "rows" \in todo => Reach = Skip(page, limit)
         /\ "rows" \notin todo => Reach = page * limit
         /\ page * limit = Skip(page, limit) + limit /\ Skip(page, limit) \in Nat
<1>1. column \in [Task -> Int] /\ limit \in Nat \ {0} /\ page \in Nat \ {0}
  <2>1. column \in Columns /\ limit \in Limits /\ page \in Nat
    BY DEF WalkTypeOK
  <2> QED
    BY <2>1, ColumnsAndLimits
<1>2. /\ Skip(page, limit) \in Nat
      /\ (page - 1) * limit = Skip(page, limit)
      /\ page * limit = Skip(page, limit) + limit
  BY <1>1, NextOffset
<1>3. page * limit \in Nat
  BY <1>1, <1>2
<1> QED
  BY <1>1, <1>2, <1>3 DEF Reach

LEMMA OpenKeeps ==
  ASSUME WalkInv, tasks \subseteq Task, Open
  PROVE  WalkInv'
<1>1. /\ page = 0 /\ page' = 1 /\ todo' = Queries /\ shown' = <<>>
      /\ limit' \in Limits /\ column' \in Columns
      /\ ~lost' /\ ~gained' /\ ~torn' /\ total' = total
      /\ lost' = lost /\ gained' = gained /\ torn' = torn /\ shown' = shown
      /\ always' = Matching' /\ tasks' = tasks
  BY DEF Open, WalkInv, WalkTypeOK, vars
<1>2. tasks' \subseteq Task
  BY <1>1
<1>3. Matching' \subseteq Task /\ IsFiniteSet(Matching')
  <2>1. PICK M \in SUBSET Task : M = Matching'
    BY <1>2 DEF Matching
  <2>2. IsFiniteSet(M)
    BY ListingAssumption, FS_Subset
  <2> QED
    BY <2>1, <2>2
<1>4. WalkTypeOK'
  BY <1>1, <1>3 DEF WalkInv, WalkTypeOK
<1>5. limit' \in Nat \ {0} /\ column' \in [Task -> Int]
  BY <1>1, ColumnsAndLimits
<1>6. Reach' = 0
  <2>1. \A n \in Nat : (1 - 1) * n = 0
    OBVIOUS
  <2>2. (page' - 1) * limit' = 0
    BY <1>1, <1>5, <2>1
  <2> QED
    BY <1>1, <2>2 DEF Reach, Queries
<1>7. WatchedOK'
  BY <1>1 DEF WatchedOK, Queries
<1>8. Len(shown') = 0
  BY <1>1
<1>9. QuietOK'
  <2>1. Cardinality(always') \in Nat
    BY <1>1, <1>3, FS_CardinalityType
  <2> QED
    BY <1>1, <1>6, <1>8, <2>1 DEF QuietOK, Least, Queries
<1>10. Seqs!ToSet(shown') = {} /\ Seqs!IsInjective(shown')
  BY <1>1 DEF Seqs!ToSet, Seqs!IsInjective
<1>11. OnceOK'
  BY <1>10 DEF OnceOK
<1>12. \A t \in always' : Place(t)' >= 1 /\ Place(t)' \in Nat
  <2> TAKE t \in always'
  <2> DEFINE in == {u \in Matching' : column'[u] <= column'[t]}
  <2>1. t \in in
    BY <1>1, <1>3, <1>5
  <2>2. IsFiniteSet(in)
    <3>1. in \in SUBSET Matching'
      OBVIOUS
    <3> QED
      BY <1>3, <3>1, FS_Subset
  <2>3. Cardinality(in) \in Nat /\ Cardinality(in) # 0
    BY <2>1, <2>2, FS_CardinalityType, FS_EmptySet
  <2> QED
    BY <2>3 DEF Place, PlaceIn
<1>13. ~Ended'
  BY <1>1 DEF Ended, Queries
<1>14. NoneMissedOK'
  <2>1. \A t \in always' : ~(Place(t)' <= 0)
    BY <1>12
  <2> QED
    BY <1>6, <1>13, <2>1 DEF NoneMissedOK
<1> QED
  BY <1>4, <1>7, <1>9, <1>11, <1>14 DEF WalkInv

\* A step of the client that leaves the tables as they are.
LEMMA SameTables ==
  ASSUME UNCHANGED <<vars, query, history>>, NEW t
  PROVE  Matching' = Matching /\ Place(t)' = Place(t)
BY DEF vars, query, Matching, Place, PlaceIn

LEMMA FindManyKeeps ==
  ASSUME WalkInv, tasks \subseteq Task, FindMany, UNCHANGED <<vars, query, history>>
  PROVE  WalkInv'
<1>1. /\ "rows" \in todo /\ todo' = todo \ {"rows"} /\ page' = page /\ total' = total
      /\ limit' = limit /\ column' = column /\ always' = always
      /\ lost' = lost /\ gained' = gained /\ torn' = torn
  BY DEF FindMany, query, history
<1>2. page > 0 /\ WalkTypeOK /\ todo \subseteq Queries
  BY <1>1 DEF WalkInv, WalkTypeOK
<1>3. Walking /\ ~Ended
  BY <1>1, <1>2 DEF Walking, Ended
<1> DEFINE from == Skip(page, limit)
<1>4. /\ column \in [Task -> Int] /\ limit \in Nat \ {0} /\ page \in Nat \ {0}
      /\ from \in Nat /\ Reach = from /\ page * limit = from + limit
  BY <1>1, <1>2, WalkFacts
<1>5. Reach' = from + limit
  <2>1. "rows" \notin todo'
    BY <1>1
  <2> QED
    BY <1>1, <1>4, <2>1 DEF Reach
<1>6. PICK s \in Orders(Matching) : shown' = shown \o Slice(s, from, limit)
  BY DEF FindMany
<1> HIDE DEF from
<1>7. /\ s \in Seq(Task) /\ Len(s) \in Nat /\ Len(s) = Cardinality(Matching)
      /\ \A i \in 1 .. Len(s) : s[i] \in Matching
      /\ \A i, j \in 1 .. Len(s) : s[i] = s[j] => i = j
      /\ \A t \in Matching : \E i \in 1 .. Len(s) : s[i] = t
  BY OrderedRows, FiniteMatching
<1>8. shown \in Seq(Task) /\ Len(shown) \in Nat
  BY <1>2 DEF WalkTypeOK
<1>9. /\ shown' \in Seq(Task)
      /\ Len(shown') = Len(shown)
                       + (IF Len(s) <= from THEN 0 ELSE Least(Len(s), from + limit) - from)
      /\ \A i \in 1 .. Len(shown) : shown'[i] = shown[i]
      /\ \A i \in 1 .. Len(shown') : i > Len(shown) =>
           /\ from + i - Len(shown) \in from + 1 .. from + limit
           /\ from + i - Len(shown) \in 1 .. Len(s)
           /\ shown'[i] = s[from + i - Len(shown)]
  <2>1. limit \in Nat
    BY <1>4
  <2>2. Extends(shown \o Slice(s, from, limit), shown, s, from, limit)
    BY <1>4, <1>7, <1>8, <2>1, SliceShows
  <2>3. Extends(shown', shown, s, from, limit)
    BY <1>6, <2>2, Zenon
  <2> QED
    BY <2>3 DEF Extends
<1>9a. Len(shown') \in Nat /\ Len(shown') >= Len(shown)
  BY <1>4, <1>7, <1>8, <1>9 DEF Least
<1>10. Matching' = Matching /\ \A t : Place(t)' = Place(t)
  BY SameTables
<1>11. WalkTypeOK'
  BY <1>1, <1>2, <1>9 DEF WalkTypeOK
<1>12. WatchedOK'
  <2>1. WatchedOK /\ todo' # {"rows"}
    BY <1>1 DEF WalkInv
  <2> QED
    BY <1>1, <1>3, <1>10, <2>1 DEF WatchedOK
<1>13. QuietOK'
  <2> SUFFICES ASSUME ~lost, ~gained
               PROVE  /\ Len(shown') = Least(Cardinality(always), from + limit)
                      /\ "count" \notin todo => total = Cardinality(always)
    BY <1>1, <1>5 DEF QuietOK
  <2>1. /\ Len(shown) = Least(Cardinality(always), from)
        /\ "count" \notin todo => total = Cardinality(always)
    BY <1>2, <1>4 DEF WalkInv, QuietOK
  <2>2. always = Matching
    BY <1>3 DEF WalkInv, WatchedOK
  <2> QED
    BY <1>4, <1>7, <1>9, <2>1, <2>2 DEF Least
\* Without ties a row's number is its place.
<1>14. ASSUME ~Tied
       PROVE  \A i \in 1 .. Len(s) : Place(s[i]) = i
  BY <1>2, <1>4, <1>14, RowsInPlace
<1>15. Tied' <=> Tied
  BY <1>1 DEF Tied
<1>16. OnceOK'
  <2> SUFFICES ASSUME ~Tied, ~gained
               PROVE  /\ \A i, j \in 1 .. Len(shown') : shown'[i] = shown'[j] => i = j
                      /\ \A i \in 1 .. Len(shown') : Place(shown'[i]) <= from + limit
    <3>1. DOMAIN shown' = 1 .. Len(shown')
      BY <1>9
    <3> QED
      BY <1>1, <1>5, <1>9, <1>10, <1>15, <3>1, Injective, InToSet DEF OnceOK
  <2>1. /\ \A i, j \in 1 .. Len(shown) : shown[i] = shown[j] => i = j
        /\ \A i \in 1 .. Len(shown) : Place(shown[i]) <= from
    <3>1. Seqs!IsInjective(shown) /\ \A t \in Seqs!ToSet(shown) : Place(t) <= from
      BY <1>2, <1>3, <1>4 DEF WalkInv, OnceOK
    <3>2. DOMAIN shown = 1 .. Len(shown)
      BY <1>8
    <3> QED
      BY <1>8, <3>1, <3>2, Injective, InToSet
  <2>2. ASSUME NEW i \in 1 .. Len(shown'), i > Len(shown)
        PROVE  /\ Place(shown'[i]) = from + i - Len(shown)
               /\ Place(shown'[i]) \in from + 1 .. from + limit
    BY <1>9, <1>14, <2>2
  <2>3. ASSUME NEW i \in 1 .. Len(shown'), i <= Len(shown)
        PROVE  i \in 1 .. Len(shown) /\ shown'[i] = shown[i] /\ Place(shown'[i]) <= from
    <3>1. i \in 1 .. Len(shown)
      BY <1>8, <1>9a, <2>3
    <3> QED
      BY <1>9, <2>1, <3>1
  <2>3a. \A i \in 1 .. Len(shown') : Place(shown'[i]) \in Nat
    <3>1. \A t : Place(t) \in Nat
      BY FiniteMatching, PlaceGrows DEF Place
    <3> QED
      BY <3>1
  <2>4. ASSUME NEW i \in 1 .. Len(shown'), NEW j \in 1 .. Len(shown'), shown'[i] = shown'[j]
        PROVE  i = j
    <3>1. CASE i <= Len(shown) /\ j <= Len(shown)
      BY <2>1, <2>3, <2>4, <3>1
    <3>2. CASE i > Len(shown) /\ j > Len(shown)
      <4>1. from + i - Len(shown) = from + j - Len(shown)
        BY <2>2, <2>4, <3>2
      <4> QED
        BY <1>4, <1>8, <4>1
    <3>3. CASE i <= Len(shown) /\ j > Len(shown)
      BY <1>4, <2>2, <2>3, <2>3a, <2>4, <3>3
    <3>4. CASE i > Len(shown) /\ j <= Len(shown)
      BY <1>4, <2>2, <2>3, <2>3a, <2>4, <3>4
    <3> QED
      BY <1>8, <3>1, <3>2, <3>3, <3>4
  <2>5. ASSUME NEW i \in 1 .. Len(shown')
        PROVE  Place(shown'[i]) <= from + limit
    <3>1. CASE i <= Len(shown)
      BY <1>4, <2>3, <2>3a, <3>1
    <3>2. CASE i > Len(shown)
      BY <1>4, <2>2, <3>2
    <3> QED
      BY <1>8, <3>1, <3>2
  <2> QED
    BY <2>4, <2>5
<1>17. ASSUME ~Tied, ~lost, NEW t \in always, Place(t) <= from + limit
       PROVE  \E i \in 1 .. Len(shown') : shown'[i] = t
  <2>1. t \in Matching
    BY <1>3, <1>17 DEF WalkInv, WatchedOK
  <2>2. PICK k \in 1 .. Len(s) : s[k] = t
    BY <1>7, <2>1
  <2>3. Place(t) = k
    BY <1>14, <1>17, <2>2
  <2>4. CASE k <= from
    <3>1. t \in Seqs!ToSet(shown)
      BY <1>2, <1>3, <1>4, <1>17, <2>3, <2>4 DEF WalkInv, NoneMissedOK
    <3>2. PICK i \in 1 .. Len(shown) : shown[i] = t
      BY <1>8, <3>1, InToSet
    <3>3. i \in 1 .. Len(shown') /\ shown'[i] = t
      BY <1>8, <1>9, <1>9a, <3>2
    <3> QED
      BY <3>3
  <2>5. CASE k > from
    <3>1. Len(shown') = Len(shown) + Least(Len(s), from + limit) - from
      BY <1>4, <1>7, <1>8, <1>9, <2>5 DEF Least
    <3>2. k <= Least(Len(s), from + limit)
      BY <1>4, <1>7, <1>17, <2>3 DEF Least
    <3>3. Len(shown) + k - from \in 1 .. Len(shown') /\ Len(shown) + k - from > Len(shown)
      BY <1>4, <1>7, <1>8, <1>9a, <2>5, <3>1, <3>2 DEF Least
    <3>4. from + (Len(shown) + k - from) - Len(shown) = k
      BY <1>4, <1>8
    <3>5. shown'[Len(shown) + k - from] = t
      BY <1>9, <2>2, <3>3, <3>4
    <3> QED
      BY <3>3, <3>5
  <2> QED
    BY <1>4, <2>4, <2>5
<1>18. NoneMissedOK'
  <2> SUFFICES ASSUME ~Tied, ~lost
               PROVE  /\ \A t \in always : Place(t) <= from + limit => t \in Seqs!ToSet(shown')
                      /\ Ended' => torn \/ always \subseteq Seqs!ToSet(shown')
    BY <1>1, <1>5, <1>10, <1>15 DEF NoneMissedOK
  <2>1. ASSUME NEW t \in always, Place(t) <= from + limit
        PROVE  t \in Seqs!ToSet(shown')
    <3>1. \E i \in 1 .. Len(shown') : shown'[i] = t
      BY <1>17, <2>1
    <3> QED
      BY <1>9, <3>1, InToSet
  <2>2. ASSUME Ended', ~torn
        PROVE  always \subseteq Seqs!ToSet(shown')
    <3>1. todo = {"rows"}
      BY <1>1, <2>2 DEF Ended
    <3>2. Cardinality(Matching) <= total /\ total \in Nat
      BY <1>2, <1>3, <2>2, <3>1 DEF WalkInv, WatchedOK, WalkTypeOK
    <3>3. page >= TotalPages(total, limit)
      BY <1>1, <2>2 DEF Ended
    <3>4. total <= from + limit
      BY <1>4, <3>2, <3>3, LastPage
    <3>5. ASSUME NEW t \in always
          PROVE  Place(t) <= from + limit
      <4>1. Place(t) \in Nat /\ Place(t) <= Cardinality(Matching) /\ Cardinality(Matching) \in Nat
        BY FiniteMatching, PlaceGrows DEF Place
      <4> QED
        BY <1>4, <3>2, <3>4, <4>1
    <3> QED
      BY <2>1, <3>5
  <2> QED
    BY <2>1, <2>2
<1> QED
  BY <1>11, <1>12, <1>13, <1>16, <1>18 DEF WalkInv

LEMMA CountKeeps ==
  ASSUME WalkInv, tasks \subseteq Task, Count, UNCHANGED <<vars, query, history>>
  PROVE  WalkInv'
<1>1. /\ "count" \in todo /\ todo' = todo \ {"count"} /\ page' = page /\ shown' = shown
      /\ total' = Cardinality(Matching)
      /\ limit' = limit /\ column' = column /\ always' = always
      /\ lost' = lost /\ gained' = gained /\ torn' = torn
  BY DEF Count, query, history
<1>2. page > 0 /\ WalkTypeOK /\ todo \subseteq Queries
  BY <1>1 DEF WalkInv, WalkTypeOK
<1>3. Walking /\ ~Ended
  BY <1>1, <1>2 DEF Walking, Ended
<1>4. /\ limit \in Nat \ {0} /\ page \in Nat \ {0} /\ Reach \in Nat
      /\ "rows" \notin todo => Reach = page * limit
  BY <1>2, WalkFacts
<1>5. Reach' = Reach /\ ("rows" \in todo' <=> "rows" \in todo)
  BY <1>1 DEF Reach
<1>6. Matching' = Matching /\ \A t : Place(t)' = Place(t)
  BY SameTables
<1>7. Cardinality(Matching) \in Nat /\ IsFiniteSet(Matching)
  BY FiniteMatching
<1>8. WalkTypeOK'
  BY <1>1, <1>2, <1>7 DEF WalkTypeOK
<1>9. WatchedOK'
  <2>1. (lost \/ always \subseteq Matching) /\ (gained \/ Matching \subseteq always)
    BY <1>3 DEF WalkInv, WatchedOK
  <2>2. Cardinality(Matching) <= Cardinality(Matching)
    BY <1>7
  <2> QED
    BY <1>1, <1>6, <2>1, <2>2 DEF WatchedOK
<1>10. QuietOK'
  <2>1. ~lost /\ ~gained => always = Matching
    BY <1>3 DEF WalkInv, WatchedOK
  <2> QED
    BY <1>1, <1>2, <1>5, <2>1 DEF QuietOK, WalkInv
<1>11. Tied' <=> Tied
  BY <1>1 DEF Tied
<1>12. OnceOK'
  BY <1>1, <1>2, <1>3, <1>5, <1>6, <1>11 DEF OnceOK, WalkInv
<1>13. NoneMissedOK'
  <2> SUFFICES ASSUME ~Tied, ~lost
               PROVE  /\ \A t \in always : Place(t) <= Reach => t \in Seqs!ToSet(shown)
                      /\ Ended' => torn \/ always \subseteq Seqs!ToSet(shown)
    BY <1>1, <1>5, <1>6, <1>11 DEF NoneMissedOK
  <2>1. \A t \in always : Place(t) <= Reach => t \in Seqs!ToSet(shown)
    BY <1>2, <1>3 DEF WalkInv, NoneMissedOK
  <2>2. ASSUME Ended'
        PROVE  always \subseteq Seqs!ToSet(shown)
    <3>1. page >= TotalPages(Cardinality(Matching), limit) /\ "rows" \notin todo
      BY <1>1, <2>2 DEF Ended
    <3>2. Cardinality(Matching) <= Reach
      BY <1>4, <1>7, <3>1, LastPage
    <3>3. ASSUME NEW t \in always
          PROVE  Place(t) <= Reach
      <4>1. Place(t) \in Nat /\ Place(t) <= Cardinality(Matching)
        BY <1>7, PlaceGrows DEF Place
      <4> QED
        BY <1>4, <1>7, <3>2, <4>1
    <3> QED
      BY <2>1, <3>3
  <2> QED
    BY <2>1, <2>2
<1> QED
  BY <1>8, <1>9, <1>10, <1>12, <1>13 DEF WalkInv

LEMMA TurnKeeps ==
  ASSUME WalkInv, tasks \subseteq Task, Turn, UNCHANGED <<vars, query, history>>
  PROVE  WalkInv'
<1>1. /\ page > 0 /\ todo = {} /\ page < TotalPages(total, limit)
      /\ page' = page + 1 /\ todo' = Queries /\ total' = total /\ shown' = shown
      /\ limit' = limit /\ column' = column /\ always' = always
      /\ lost' = lost /\ gained' = gained /\ torn' = torn
  BY DEF Turn, query, history
<1>2. WalkTypeOK /\ limit \in Nat \ {0} /\ page \in Nat \ {0}
  BY <1>1, WalkFacts DEF WalkInv
<1>3. Walking /\ ~Ended
  <2>1. TotalPages(total, limit) \in Int
    BY <1>2 DEF TotalPages, WalkTypeOK
  <2> QED
    BY <1>1, <1>2, <2>1 DEF Walking, Ended
<1>4. ~Ended' /\ page' > 0
  BY <1>1, <1>2 DEF Ended, Queries
<1>5. Reach' = Reach
  <2>1. page' - 1 = page
    BY <1>1, <1>2
  <2> QED
    BY <1>1, <2>1 DEF Reach, Queries
<1>6. Matching' = Matching /\ \A t : Place(t)' = Place(t)
  BY SameTables
<1>7. WalkTypeOK'
  BY <1>1, <1>2, <1>4 DEF WalkTypeOK
<1>8. WatchedOK'
  <2>1. (lost \/ always \subseteq Matching) /\ (gained \/ Matching \subseteq always)
    BY <1>3 DEF WalkInv, WatchedOK
  <2> QED
    BY <1>1, <1>6, <2>1 DEF WatchedOK, Queries
<1>9. QuietOK'
  BY <1>1, <1>5 DEF QuietOK, WalkInv, Queries
<1>10. Tied' <=> Tied
  BY <1>1, <1>4 DEF Tied
<1>11. OnceOK'
  BY <1>1, <1>3, <1>5, <1>6, <1>10 DEF OnceOK, WalkInv
<1>12. NoneMissedOK'
  BY <1>1, <1>3, <1>4, <1>5, <1>6, <1>10 DEF NoneMissedOK, WalkInv
<1> QED
  BY <1>7, <1>8, <1>9, <1>11, <1>12 DEF WalkInv

\* Another request changes the tables: places move up as tasks stop to match,
\* and down as tasks begin to.
LEMMA OthersKeep ==
  ASSUME WalkInv, tasks \subseteq Task, tasks' \subseteq Task, UNCHANGED <<query, walk>>, Watch
  PROVE  WalkInv'
<1>1. UNCHANGED <<by, column, limit, page, todo, total, shown>>
  BY DEF query, walk
<1>2. /\ Ended' <=> Ended
      /\ Walking' <=> Walking
      /\ Reach' = Reach
      /\ Tied' <=> Tied
  BY <1>1 DEF Ended, Walking, Reach, Tied
<1>3. CASE ~Walking
  <2>1. UNCHANGED <<always, lost, gained, torn>>
    BY <1>3 DEF Watch, history, Walking, WalkInv, WalkTypeOK
  <2>2. WalkTypeOK' /\ WatchedOK' /\ QuietOK'
    BY <1>1, <1>2, <1>3, <2>1 DEF WalkInv, WalkTypeOK, WatchedOK, QuietOK
  <2>3. OnceOK' /\ NoneMissedOK'
    BY <1>1, <1>2, <1>3, <2>1 DEF WalkInv, OnceOK, NoneMissedOK
  <2> QED
    BY <2>2, <2>3 DEF WalkInv
<1>4. CASE Walking
  <2>1. /\ page > 0 /\ ~Ended
        /\ always' = always \cap Matching'
        /\ lost' = (lost \/ Matching \ Matching' # {})
        /\ gained' = (gained \/ Matching' \ Matching # {})
        /\ torn' = (torn \/ (Matching' \ Matching # {} /\ todo = {"rows"}))
    BY <1>4 DEF Watch, Walking, WalkInv, WalkTypeOK
  <2>2. /\ Matching' \subseteq Task /\ IsFiniteSet(Matching') /\ Cardinality(Matching') \in Nat
        /\ Matching \subseteq Task /\ IsFiniteSet(Matching) /\ Cardinality(Matching) \in Nat
    <3>1. Matching' \in SUBSET Task
      BY DEF Matching
    <3>2. IsFiniteSet(Matching') /\ Cardinality(Matching') \in Nat
      BY <3>1, ListingAssumption, FS_Subset, FS_CardinalityType
    <3> QED
      BY <3>1, <3>2, FiniteMatching
  <2>3. (lost \/ always \subseteq Matching) /\ (gained \/ Matching \subseteq always)
    BY <1>4 DEF WalkInv, WatchedOK
  <2>4. /\ ~lost' => ~lost /\ Matching \subseteq Matching' /\ always' = always
        /\ ~gained' => ~gained /\ Matching' \subseteq Matching
    BY <2>1, <2>3
  <2>5. WalkTypeOK'
    BY <1>1, <2>1 DEF WalkInv, WalkTypeOK
  <2>6. WatchedOK'
    <3>1. lost' \/ always' \subseteq Matching'
      BY <2>1
    <3>2. gained' \/ Matching' \subseteq always'
      BY <2>1, <2>3, <2>4
    <3>3. ASSUME todo = {"rows"}, ~torn'
          PROVE  Cardinality(Matching') <= total
      <4>1. Matching' \in SUBSET Matching /\ ~torn
        BY <2>1, <3>3
      <4>2. Cardinality(Matching') <= Cardinality(Matching)
        BY <2>2, <4>1, FS_Subset
      <4>3. Cardinality(Matching) <= total /\ total \in Nat
        BY <1>4, <3>3, <4>1 DEF WalkInv, WatchedOK, WalkTypeOK
      <4> QED
        BY <2>2, <4>2, <4>3
    <3> QED
      BY <1>1, <3>1, <3>2, <3>3 DEF WatchedOK
  <2>7. QuietOK'
    BY <1>1, <1>2, <2>4 DEF WalkInv, QuietOK
  <2>8. \A t : Place(t)' = PlaceIn(Matching', t)
    BY <1>1 DEF Place, PlaceIn
  <2>9. \A t : Place(t) \in Nat /\ PlaceIn(Matching', t) \in Nat
    BY <2>2, PlaceGrows DEF Place
  <2>10. Reach \in Nat
    BY <2>1, WalkFacts DEF WalkInv
  <2>11. OnceOK'
    <3> SUFFICES ASSUME ~Tied, ~gained'
                 PROVE  /\ Seqs!IsInjective(shown)
                        /\ \A t \in Seqs!ToSet(shown) : PlaceIn(Matching', t) <= Reach
      BY <1>1, <1>2, <2>8 DEF OnceOK
    <3>1. /\ Seqs!IsInjective(shown)
          /\ \A t \in Seqs!ToSet(shown) : Place(t) <= Reach
      BY <1>4, <2>1, <2>4 DEF WalkInv, OnceOK
    <3>2. \A t : PlaceIn(Matching', t) <= Place(t)
      BY <2>2, <2>4, PlaceGrows DEF Place
    <3>3. ASSUME NEW t \in Seqs!ToSet(shown)
          PROVE  PlaceIn(Matching', t) <= Reach
      <4>1. Place(t) <= Reach /\ PlaceIn(Matching', t) <= Place(t)
        BY <3>1, <3>2
      <4>2. Place(t) \in Nat /\ PlaceIn(Matching', t) \in Nat
        BY <2>9
      <4> QED
        BY <2>10, <4>1, <4>2
    <3> QED
      BY <3>1, <3>3
  <2>12. NoneMissedOK'
    <3> SUFFICES ASSUME ~Tied, ~lost', NEW t \in always', PlaceIn(Matching', t) <= Reach
                 PROVE  t \in Seqs!ToSet(shown)
      BY <1>1, <1>2, <2>1, <2>8 DEF NoneMissedOK
    <3>1. t \in always /\ ~lost
      BY <2>4
    <3>2. Place(t) <= PlaceIn(Matching', t)
      BY <2>2, <2>4, PlaceGrows DEF Place
    <3>3. Place(t) <= Reach
      <4>1. Place(t) \in Nat /\ PlaceIn(Matching', t) \in Nat
        BY <2>9
      <4> QED
        BY <2>10, <3>2, <4>1
    <3> QED
      BY <1>4, <2>1, <3>1, <3>3 DEF WalkInv, NoneMissedOK
  <2> QED
    BY <2>5, <2>6, <2>7, <2>11, <2>12 DEF WalkInv
<1> QED
  BY <1>3, <1>4

ListInv == IInv /\ WalkInv

LEMMA InitListInv == ListInit => ListInv
<1> SUFFICES ASSUME ListInit
             PROVE  WalkInv
  BY InitInvariant DEF ListInit, ListInv
<1>1. page = 0 /\ todo = {} /\ shown = <<>> /\ ~lost /\ ~gained /\ ~torn
  BY DEF ListInit
<1>2. <<>> \in Seq(Task)
  BY EmptySeq
<1>3. WalkTypeOK
  <2>1. total \in Nat /\ always \subseteq Task /\ page \in Nat
        /\ lost \in BOOLEAN /\ gained \in BOOLEAN /\ torn \in BOOLEAN
    BY DEF ListInit
  <2> QED
    BY <1>1, <1>2, <2>1 DEF WalkTypeOK
<1> QED
  BY <1>1, <1>3 DEF WalkInv, WatchedOK, QuietOK, OnceOK, NoneMissedOK, Walking

LEMMA NextListInv == ListInv /\ [ListNext]_<<vars, query, walk, history>> => ListInv'
<1> SUFFICES ASSUME ListInv, [ListNext]_<<vars, query, walk, history>>
             PROVE  ListInv'
  OBVIOUS
<1>1. [Next]_vars
  BY DEF ListNext, Open
<1>2. IInv' /\ tasks \subseteq Task /\ tasks' \subseteq Task
  BY <1>1, NextInvariant DEF ListInv, IInv, TypeOK
<1>3. CASE Open
  BY <1>2, <1>3, OpenKeeps DEF ListInv
<1>4. CASE (FindMany \/ Count \/ Turn) /\ UNCHANGED <<vars, query, history>>
  BY <1>2, <1>4, FindManyKeeps, CountKeeps, TurnKeeps DEF ListInv
<1>5. CASE Next /\ UNCHANGED <<query, walk>> /\ Watch
  BY <1>2, <1>5, OthersKeep DEF ListInv
<1>6. CASE UNCHANGED <<vars, query, walk, history>>
  <2>1. UNCHANGED <<query, walk>> /\ UNCHANGED <<always, lost, gained, torn>>
    BY <1>6 DEF history
  <2>2. Matching' = Matching
    BY <1>6 DEF vars, query, Matching
  <2>3. UNCHANGED <<by, column, limit, page, todo, total, shown>>
    BY <2>1 DEF query, walk
  <2>4. WalkTypeOK' /\ WatchedOK' /\ QuietOK'
    BY <2>1, <2>2, <2>3 DEF ListInv, WalkInv, WalkTypeOK, WatchedOK, QuietOK, Walking, Ended, Reach
  <2>5. OnceOK' /\ NoneMissedOK'
    BY <2>1, <2>2, <2>3
       DEF ListInv, WalkInv, OnceOK, NoneMissedOK, Walking, Ended, Reach, Tied, Place, PlaceIn
  <2> QED
    BY <1>2, <2>4, <2>5 DEF ListInv, WalkInv
<1> QED
  BY <1>3, <1>4, <1>5, <1>6 DEF ListNext

\* A client that turns the pages misses or repeats a task for no other reason
\* than the ones SlipsExplained names, whatever the sizes of pages, the column
\* and the tasks, and whatever comes between the two queries of a page.
THEOREM SlipsAreExplained == ListSpec => []SlipsExplained
<1>1. ListInv => SlipsExplained
  <2> SUFFICES ASSUME ListInv, ~Tied
               PROVE  /\ Ended => lost \/ torn \/ always \subseteq Seqs!ToSet(shown)
                      /\ gained \/ Seqs!IsInjective(shown)
    BY DEF SlipsExplained
  <2>1. CASE page = 0
    <3>1. shown = <<>> /\ ~Ended
      BY <2>1 DEF ListInv, WalkInv, WalkTypeOK, Ended
    <3>2. Seqs!IsInjective(shown)
      BY <3>1 DEF Seqs!IsInjective
    <3> QED
      BY <3>1, <3>2
  <2>2. CASE page > 0
    BY <2>2 DEF ListInv, WalkInv, OnceOK, NoneMissedOK
  <2> QED
    BY <2>1, <2>2 DEF ListInv, WalkInv, WalkTypeOK
<1> QED
  BY <1>1, InitListInv, NextListInv, PTL DEF ListSpec

\* If nothing changes what matches, the pages have as many rows as tasks match:
\* TotalPages and Skip agree, for every number of tasks and size of a page.
THEOREM QuietWalksAreExact == ListSpec => []QuietWalkIsExact
<1>1. ListInv => QuietWalkIsExact
  <2> SUFFICES ASSUME ListInv, Ended, ~lost, ~gained
               PROVE  Len(shown) = Cardinality(always)
    BY DEF QuietWalkIsExact
  <2>1. /\ page > 0 /\ todo = {} /\ page >= TotalPages(total, limit)
        /\ WalkTypeOK /\ QuietOK
    BY DEF ListInv, WalkInv, Ended
  <2>2. limit \in Nat \ {0} /\ page \in Nat \ {0} /\ Reach = page * limit /\ Reach \in Nat
    BY <2>1, WalkFacts
  <2>3. Len(shown) = Least(Cardinality(always), Reach) /\ total = Cardinality(always)
    BY <2>1 DEF QuietOK
  <2>4. total <= Reach
    BY <2>1, <2>2, LastPage DEF WalkTypeOK
  <2> QED
    BY <2>3, <2>4 DEF Least
<1> QED
  BY <1>1, InitListInv, NextListInv, PTL DEF ListSpec
=============================================================================
