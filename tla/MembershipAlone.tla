---------------------------- MODULE MembershipAlone ----------------------------
(***************************************************************************)
(* Membership with a history of whether requests have overlapped, to say   *)
(* what the endpoints keep as long as requests come one at a time.         *)
(***************************************************************************)
EXTENDS Membership

VARIABLE alone \* history: no request has taken a step while another was running

AloneInit == Init /\ alone = TRUE

AloneNext ==
  /\ Next
  /\ alone' = (alone /\ \A q, r \in Request :
                 pc[q] \in Running /\ pc'[r] # pc[r] => q = r)

AloneSpec == AloneInit /\ [][AloneNext]_<<vars, alone>>

\* As long as requests come one at a time, the log accounts for every departure.
DeparturesRecordedAlone == alone => DeparturesRecorded

StrictTable == INSTANCE Ownership
                 WITH state <- orgState,
                      role <- [o \in Org |-> [u \in User |-> RoleOf(o, u)]],
                      Strict <- TRUE

\* docs/business-rules.md:15-17.  As long as requests come one at a time, each
\* change is the one its service means to make: no OWNER is touched but by a
\* handover, which is his own, so that there is always exactly one.
StrictTableAlone ==
  [][alone' /\ StrictTable!table' # StrictTable!table => StrictTable!ANext]_<<vars, alone>>

\* docs/business-rules.md:15-17.  As long as requests come one at a time, every
\* organization has exactly one OWNER.
ExactlyOneOwnerAlone == alone => ExactlyOneOwner
=============================================================================
