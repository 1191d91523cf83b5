--------------------------- MODULE OwnershipProofs ---------------------------
(***************************************************************************)
(* With Strict, the table of roles never leaves a live organization        *)
(* without its one OWNER, whatever users and organizations there are.      *)
(***************************************************************************)
EXTENDS Ownership, TLAPS

\* An organization that is not live has no members; that is why the one who
\* founds it is its only OWNER.
Settled(o) ==
  IF state[o] = "live" THEN AOneOwner(o) ELSE \A u \in User : role[o][u] = NoRole

IInv == ATypeOK /\ \A o \in Org : Settled(o)

\* Only the organization a change is about can become unsettled.
LEMMA OthersSettled ==
  ASSUME IInv, NEW o \in Org, NEW p \in Org \ {o},
         state'[p] = state[p], role'[p] = role[p]
  PROVE  Settled(p)'
BY DEF IInv, Settled, AOneOwner

LEMMA FoundSettles ==
  ASSUME IInv, NEW o \in Org, NEW u \in User, Found(o, u)
  PROVE  IInv'
<1>1. ATypeOK'
  BY DEF IInv, ATypeOK, Found, Role
<1>2. Settled(o)'
  BY DEF IInv, ATypeOK, Found, Settled, AOneOwner, NoRole
<1>3. \A p \in Org \ {o} : state'[p] = state[p] /\ role'[p] = role[p]
  BY DEF IInv, ATypeOK, Found
<1> QED
  BY <1>1, <1>2, <1>3, OthersSettled DEF IInv

LEMMA DissolveSettles ==
  ASSUME IInv, NEW o \in Org, Dissolve(o)
  PROVE  IInv'
<1>1. ATypeOK'
  BY DEF IInv, ATypeOK, Dissolve
<1>2. Settled(o)'
  BY DEF IInv, ATypeOK, Dissolve, Settled
<1>3. \A p \in Org \ {o} : state'[p] = state[p] /\ role'[p] = role[p]
  BY DEF IInv, ATypeOK, Dissolve
<1> QED
  BY <1>1, <1>2, <1>3, OthersSettled DEF IInv

\* A member who is no OWNER comes, goes or gets another role, but not OWNER.
LEMMA CommonerSettles ==
  ASSUME IInv, NEW o \in Org, NEW u \in User,
         NEW to \in (Role \cup {NoRole}) \ {"OWNER"},
         state[o] = "live", role[o][u] # "OWNER",
         role' = [role EXCEPT ![o][u] = to], UNCHANGED state
  PROVE  IInv'
<1>1. ATypeOK'
  BY DEF IInv, ATypeOK
<1>2. \A v \in User : role'[o][v] = "OWNER" <=> role[o][v] = "OWNER"
  BY DEF IInv, ATypeOK
<1>3. Settled(o)'
  BY <1>2 DEF IInv, Settled, AOneOwner
<1>4. \A p \in Org \ {o} : state'[p] = state[p] /\ role'[p] = role[p]
  BY DEF IInv, ATypeOK
<1> QED
  BY <1>1, <1>3, <1>4, OthersSettled DEF IInv

LEMMA HandoverSettles ==
  ASSUME IInv, Strict, NEW o \in Org, NEW from \in User, NEW to \in User,
         Handover(o, from, to)
  PROVE  IInv'
<1>1. ATypeOK'
  BY DEF IInv, ATypeOK, Handover, Role
<1>2. \A v \in User : role[o][v] = "OWNER" <=> v = from
  BY DEF IInv, Handover, Settled, AOneOwner
<1>3. \A v \in User : role'[o][v] = "OWNER" <=> v = to
  BY <1>2 DEF IInv, ATypeOK, Handover
<1>4. Settled(o)'
  BY <1>3 DEF IInv, Handover, Settled, AOneOwner
<1>5. \A p \in Org \ {o} : state'[p] = state[p] /\ role'[p] = role[p]
  BY DEF IInv, ATypeOK, Handover
<1> QED
  BY <1>1, <1>4, <1>5, OthersSettled DEF IInv

LEMMA NextSettles ==
  ASSUME IInv, Strict, ANext
  PROVE  IInv'
<1>1. PICK o \in Org :
        \/ Dissolve(o)
        \/ \E u \in User :
             \/ Found(o, u) \/ Enroll(o, u) \/ Strike(o, u)
             \/ \E to \in Role : Regrade(o, u, to)
             \/ \E to \in User : Handover(o, u, to)
  BY DEF ANext
<1>2. CASE Dissolve(o)
  BY <1>2, DissolveSettles
<1>3. ASSUME NEW u \in User, Found(o, u)
      PROVE  IInv'
  BY <1>3, FoundSettles
<1>4. ASSUME NEW u \in User, Enroll(o, u)
      PROVE  IInv'
  BY <1>4, CommonerSettles DEF Enroll, Role, NoRole
<1>5. ASSUME NEW u \in User, role[o][u] # NoRole
      PROVE  state[o] = "live"
  BY <1>5 DEF IInv, Settled
<1>6. ASSUME NEW u \in User, Strike(o, u)
      PROVE  IInv'
  BY <1>5, <1>6, CommonerSettles DEF Strike, MayTouch, NoRole
<1>7. ASSUME NEW u \in User, NEW to \in Role, Regrade(o, u, to)
      PROVE  IInv'
  BY <1>5, <1>7, CommonerSettles DEF Regrade, MayTouch
<1>8. ASSUME NEW u \in User, NEW to \in User, Handover(o, u, to)
      PROVE  IInv'
  BY <1>8, HandoverSettles
<1> QED
  BY <1>1, <1>2, <1>3, <1>4, <1>6, <1>7, <1>8

\* docs/business-rules.md:15-17.  Where every change is the one its endpoint means
\* to make, a live organization always has exactly one OWNER: the rule is a
\* consequence of what the endpoints check, as long as nothing intervenes.
THEOREM StrictKeepsOneOwner ==
  ASSUME Strict
  PROVE  ASpec => []AExactlyOneOwner
<1>1. AInit => IInv
  BY DEF AInit, IInv, ATypeOK, Settled
<1>2. IInv /\ [table' # table /\ ANext]_table => IInv'
  <2>1. ASSUME IInv, UNCHANGED table
        PROVE  IInv'
    BY <2>1 DEF IInv, table, ATypeOK, Settled, AOneOwner
  <2> QED
    BY <2>1, NextSettles
<1>3. IInv => AExactlyOneOwner
  BY DEF IInv, Settled, AExactlyOneOwner
<1> QED
  BY <1>1, <1>2, <1>3, PTL DEF ASpec
=============================================================================
