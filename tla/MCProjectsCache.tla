---------------------------- MODULE MCProjectsCache ----------------------------
(* Small instances of ProjectsCache for TLC. *)
EXTENDS ProjectsCache, TLC

\* Organizations and requests are interchangeable; used by the safety run only.
Interchangeable == Permutations(Organization) \cup Permutations(Request)

FairSpec == Spec /\ Fairness
=============================================================================
