------------------------------ MODULE MCListing ------------------------------
EXTENDS Listing, TLC

CONSTANTS o1, o2

\* All tasks are of one organization; the other has labels only.
Homes == [t \in Task |-> o1]

\* Pages of one row, and of two: with three tasks the last is full or not.
Pages == {1, 2}

\* Columns that tell all tasks apart, and columns with two tasks in front.
Sorts ==
  {c \in [Task -> 1 .. 3] : LET values == {c[t] : t \in Task} IN
     \/ Cardinality(values) = Cardinality(Task)
     \/ values = {1, 2} /\ Cardinality({t \in Task : c[t] = 1}) = 2}

\* All organizations and tasks are there in the beginning.
MCInit == ListInit /\ orgs = Org /\ tasks = Task

\* Of what goes on during a walk only tasks that begin or stop to match matter:
\* labels are created, renamed and removed, and organizations removed, only where
\* no walk begins.  The run stops where the walk ends.
OnlyTasksMatter ==
  /\ orgs = Org
  /\ \A r \in Request : ~Exists(r) /\ args[r].op \in {"none", "Assign", "Unassign"}
MCNext == ~Ended /\ ListNext /\ (page' = 0 \/ OnlyTasksMatter')
MCSpec == MCInit /\ [][MCNext]_<<vars, query, walk, history>>

Interchangeable == Permutations(Request) \cup Permutations(Name) \cup Permutations(Task)
=============================================================================
