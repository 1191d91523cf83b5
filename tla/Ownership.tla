------------------------------ MODULE Ownership ------------------------------
(***************************************************************************)
(* What the organization endpoints promise about roles, without requests,  *)
(* guards, rows or the audit log.                                          *)
(*                                                                         *)
(* With Strict, each change is the one the service means to make: it never *)
(* touches an OWNER except by a handover, and a handover comes from the    *)
(* OWNER.  That is what requests do one at a time.  Without Strict, roles  *)
(* may be changed by decisions that are out of date; that is all that is   *)
(* promised of requests that overlap.                                      *)
(***************************************************************************)
EXTENDS Access

CONSTANTS User, Org, Strict

VARIABLES state, \* whether an organization is yet to be founded, live or deleted
          role   \* the role of each user in each organization, or NoRole

table == <<state, role>>

ATypeOK ==
  /\ state \in [Org -> {"unborn", "live", "deleted"}]
  /\ role \in [Org -> [User -> Role \cup {NoRole}]]

\* Exactly one OWNER.
AOneOwner(o) == \E u \in User : \A v \in User : role[o][v] = "OWNER" <=> v = u

AInit ==
  /\ state \in [Org -> {"unborn", "live"}]
  /\ role \in [Org -> [User -> Role \cup {NoRole}]]
  /\ \A o \in Org :
       IF state[o] = "live" THEN AOneOwner(o)
                            ELSE \A u \in User : role[o][u] = NoRole

MayTouch(o, u) == Strict => role[o][u] # "OWNER"

Found(o, u) ==
  /\ state[o] = "unborn"
  /\ state' = [state EXCEPT ![o] = "live"]
  /\ role' = [role EXCEPT ![o][u] = "OWNER"]

Enroll(o, u) ==
  /\ state[o] = "live"
  /\ role[o][u] = NoRole
  /\ role' = [role EXCEPT ![o][u] = "VIEWER"]
  /\ UNCHANGED state

Regrade(o, u, to) ==
  /\ role[o][u] # NoRole
  /\ MayTouch(o, u)
  /\ to # "OWNER"
  /\ role' = [role EXCEPT ![o][u] = to]
  /\ UNCHANGED state

Handover(o, from, to) ==
  /\ from # to
  /\ role[o][from] # NoRole
  /\ role[o][to] # NoRole
  /\ Strict => role[o][from] = "OWNER"
  /\ role' = [role EXCEPT ![o][from] = "ADMIN", ![o][to] = "OWNER"]
  /\ UNCHANGED state

Strike(o, u) ==
  /\ role[o][u] # NoRole
  /\ MayTouch(o, u)
  /\ role' = [role EXCEPT ![o][u] = NoRole]
  /\ UNCHANGED state

Dissolve(o) ==
  /\ state[o] = "live"
  /\ state' = [state EXCEPT ![o] = "deleted"]
  /\ role' = [role EXCEPT ![o] = [u \in User |-> NoRole]]

ANext ==
  \E o \in Org :
    \/ Dissolve(o)
    \/ \E u \in User :
         \/ Found(o, u)
         \/ Enroll(o, u)
         \/ Strike(o, u)
         \/ \E to \in Role : Regrade(o, u, to)
         \/ \E to \in User : Handover(o, u, to)

\* table' # table says nothing new below the subscript; it spares TLC the
\* search for an action when a step leaves the table alone.
ASpec == AInit /\ [][table' # table /\ ANext]_table

\* What Strict is for: a live organization has exactly one OWNER.
AExactlyOneOwner == \A o \in Org : state[o] = "live" => AOneOwner(o)
=============================================================================
