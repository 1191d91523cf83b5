----------------------------- MODULE MCComments ------------------------------
EXTENDS Comments, TLC

CONSTANTS o1, o2

\* Tasks are of one organization; the other has members only, whose roles there
\* must not matter.
Homes == [t \in Task |-> o1]

Interchangeable == Permutations(User) \cup Permutations(Request)
=============================================================================
