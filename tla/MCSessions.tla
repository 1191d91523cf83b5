------------------------------ MODULE MCSessions ------------------------------
(* Small instances of Sessions for TLC. *)
EXTENDS SessionsAlone, TLC

\* Users and requests are interchangeable; used by the safety runs only.
Interchangeable == Permutations(User) \cup Permutations(Request)
=============================================================================
