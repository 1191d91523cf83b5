------------------------------- MODULE MCTasks -------------------------------
(* Small instances of Tasks for TLC. *)
EXTENDS Tasks, TLC

\* Every board is one of the first organization's.
OneHome == [b \in Board |-> CHOOSE o \in Org : TRUE]

\* Users and requests are interchangeable.
Interchangeable == Permutations(User) \cup Permutations(Request)
=============================================================================
