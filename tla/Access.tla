-------------------------------- MODULE Access --------------------------------
(***************************************************************************)
(* Who may call an organization endpoint.  The controller declares the     *)
(* roles of each route with @Roles; RolesGuard compares them with the role *)
(* of the membership row that OrganizationGuard read earlier in the same   *)
(* request.                                                                *)
(***************************************************************************)

Role == {"OWNER", "ADMIN", "MEMBER", "VIEWER"}

\* The role of a user who has no membership row.
NoRole == "NONE"

OwnerEndpoint == {"RemoveOrganization", "TransferOwnership"}

AdminEndpoint ==
  {"UpdateOrganization", "CreateMember", "UpdateMemberRole", "RemoveMember"}

\* The routes that declare no role; the first does not use the
\* OrganizationGuard either.
OpenEndpoint == {"CreateOrganization", "LeaveOrganization"}

Endpoint == OwnerEndpoint \cup AdminEndpoint \cup OpenEndpoint

\* What @Roles says of a route; {} when the decorator is absent.
RequiredRoles(op) ==
  CASE op \in OwnerEndpoint -> {"OWNER"}
    [] op \in AdminEndpoint -> {"OWNER", "ADMIN"}
    [] OTHER -> {}

\* Mutant: any member passes.
RolesGuardAdmitsAll(op, held) == held \in Role

\* RolesGuard.canActivate on a membership row with the role held.
RolesGuard(op, held) == RequiredRoles(op) = {} \/ held \in RequiredRoles(op)
=============================================================================
