----------------------------- MODULE MCMembership -----------------------------
(* Small instances of Membership for TLC. *)
EXTENDS MembershipAlone, TLC

AllOps == Endpoint

\* The endpoints that change who is the OWNER, or who is a member at all.
MemberOps ==
  {"CreateMember", "UpdateMemberRole", "TransferOwnership", "RemoveMember",
   "LeaveOrganization"}

\* The endpoints whose effects on the rows can meet.
ContendedOps == MemberOps \cup {"RemoveOrganization"}

\* Users and requests are interchangeable.
Interchangeable == Permutations(Account) \cup Permutations(Request)

\* Requests to the other endpoints meet no others.
ContendedNext ==
  /\ AloneNext
  /\ alone' \/ \A r \in Request :
                 pc'[r] \in Running => args'[r].op \in ContendedOps

ContendedSpec == AloneInit /\ [][ContendedNext]_<<vars, alone>>
=============================================================================
