------------------------------ MODULE LabelBook ------------------------------
(***************************************************************************)
(* What the label endpoints promise: each organization keeps a book of     *)
(* labels by name, and a label is put on tasks of its own organization.    *)
(* There are no requests here; an entry is made, renamed, put on a task,   *)
(* taken off and removed in one step, under the conditions the endpoints   *)
(* mean to ensure.                                                         *)
(***************************************************************************)
CONSTANTS Org, Name, Task, Label,
          OrgOf, \* the organization of each task
          Null

VARIABLES orgs,      \* the organizations there are
          tasks,     \* the tasks there are
          labels,    \* the organization and the name of each label
          taskLabels \* which label is on which task

book == <<orgs, tasks, labels, taskLabels>>

Row == [org : Org, name : Name]
NoLabel == [org |-> Null, name |-> Null]

Exists(l) == labels[l] # NoLabel
Taken(o, n) == \E l \in Label : labels[l] = [org |-> o, name |-> n]

\* No two labels of an organization have one name.
BNamesUnique ==
  \A l, k \in Label : Exists(l) /\ labels[l] = labels[k] => l = k

\* Labels are on tasks of their own organization, which is there with both.
BAtHome ==
  /\ \A l \in Label : Exists(l) => labels[l].org \in orgs
  /\ \A p \in taskLabels :
       p[1] \in tasks /\ Exists(p[2]) /\ labels[p[2]].org = OrgOf[p[1]]

BInit ==
  /\ orgs \in SUBSET Org
  /\ tasks \in SUBSET {t \in Task : OrgOf[t] \in orgs}
  /\ labels \in [Label -> Row \cup {NoLabel}]
  /\ taskLabels \in SUBSET (Task \X Label)
  /\ BNamesUnique
  /\ BAtHome

Enter(l, o, n) ==
  /\ o \in orgs
  /\ ~Exists(l)
  /\ ~Taken(o, n)
  /\ labels' = [labels EXCEPT ![l] = [org |-> o, name |-> n]]
  /\ UNCHANGED <<orgs, tasks, taskLabels>>

Rename(l, n) ==
  /\ Exists(l)
  /\ ~Taken(labels[l].org, n)
  /\ labels' = [labels EXCEPT ![l].name = n]
  /\ UNCHANGED <<orgs, tasks, taskLabels>>

Strike(l) ==
  /\ Exists(l)
  /\ labels' = [labels EXCEPT ![l] = NoLabel]
  /\ taskLabels' = {p \in taskLabels : p[2] # l}
  /\ UNCHANGED <<orgs, tasks>>

PutOn(t, l) ==
  /\ t \in tasks
  /\ Exists(l) /\ labels[l].org = OrgOf[t]
  /\ <<t, l>> \notin taskLabels
  /\ taskLabels' = taskLabels \cup {<<t, l>>}
  /\ UNCHANGED <<orgs, tasks, labels>>

TakeOff(t, l) ==
  /\ <<t, l>> \in taskLabels
  /\ taskLabels' = taskLabels \ {<<t, l>>}
  /\ UNCHANGED <<orgs, tasks, labels>>

LoseTasks(gone) ==
  /\ gone \subseteq tasks
  /\ tasks' = tasks \ gone
  /\ taskLabels' = {p \in taskLabels : p[1] \notin gone}
  /\ UNCHANGED <<orgs, labels>>

Dissolve(o) ==
  /\ o \in orgs
  /\ orgs' = orgs \ {o}
  /\ tasks' = {t \in tasks : OrgOf[t] # o}
  /\ labels' = [l \in Label |-> IF labels[l].org = o THEN NoLabel ELSE labels[l]]
  /\ taskLabels' = {p \in taskLabels : OrgOf[p[1]] # o}

BNext ==
  \/ \E o \in Org : Dissolve(o)
  \/ \E gone \in SUBSET Task : LoseTasks(gone)
  \/ \E l \in Label :
       \/ Strike(l)
       \/ \E n \in Name : Rename(l, n) \/ \E o \in Org : Enter(l, o, n)
       \/ \E t \in Task : PutOn(t, l) \/ TakeOff(t, l)

\* The conjunct below the subscript says nothing new; it spares TLC the search
\* for an action when a step leaves the book alone.
BSpec == BInit /\ [][book' # book /\ BNext]_book
=============================================================================
