---------------------------- MODULE SessionsProofs ----------------------------
(***************************************************************************)
(* What holds of Sessions for any users, requests and length of time.      *)
(***************************************************************************)
EXTENDS SessionsAlone, FiniteSetTheorems, WellFoundedInduction, TLAPS

\* A request that has not started has created no session, and the one that
\* is about to rotate has none of its own yet; the session a request works
\* on is there.
RequestOK(r) ==
  /\ pc[r] \in {"new", "rotate", "sweep", "revoke"} => sessions[r] = NoRow
  /\ pc[r] \in {"rotate", "sweep", "revoke"} =>
       token[r] \in Request /\ Exists(token[r])
  /\ pc[r] = "stamp" => Exists(r)

\* RotationConsumesParent, session by session; a rotation stays with its user.
ConsumedParent(c) ==
  Exists(c) /\ sessions[c].parent # Null =>
    /\ Exists(sessions[c].parent)
    /\ Revoked(sessions[c].parent)
    /\ sessions[sessions[c].parent].user = sessions[c].user

\* What is left of a sweep: what it revoked, and what was on its way then.
SweptOK(u) ==
  /\ \A s \in swept[u] : Exists(s) /\ sessions[s].user = u /\ Revoked(s)
  /\ \A q \in Request : pc[q] = "rotate" /\ token[q] \in swept[u] => q \in inFlight[u]
  /\ \A s \in Request :
       Exists(s) /\ s \notin swept[u] /\ sessions[s].parent \in swept[u]
         => s \in inFlight[u]

IInv ==
  /\ TypeOK
  /\ \A r \in Request : RequestOK(r)
  /\ \A c \in Request : ConsumedParent(c)
  /\ \A u \in User : SweptOK(u)

-----------------------------------------------------------------------------

LEMMA NoRowIsNoSession == NoRow \notin Session
BY SessionsAssumption DEF NoRow, Session

LEMMA NewSessionType ==
  ASSUME now \in Nat, NEW u \in User, NEW p \in Request \cup {Null}
  PROVE  /\ NewSession(u, p) \in Session
         /\ NewSession(u, p).parent = p
         /\ NewSession(u, p).user = u
BY SessionsAssumption DEF NewSession, Session, NotRevoked

\* Revoking changes when a session was revoked, and nothing else.
LEMMA RevokeEffect ==
  ASSUME TypeOK, NEW ids, ids \subseteq Request, \A s \in ids : Exists(s)
  PROVE  /\ Revoke(ids) \in [Request -> Session \cup {NoRow}]
         /\ \A s \in Request :
              /\ Revoke(ids)[s] = NoRow <=> sessions[s] = NoRow
              /\ Revoke(ids)[s].parent = sessions[s].parent
              /\ Revoke(ids)[s].user = sessions[s].user
              /\ sessions[s].revokedAt # NotRevoked =>
                   Revoke(ids)[s].revokedAt # NotRevoked
              /\ s \in ids => Revoke(ids)[s].revokedAt # NotRevoked
<1>1. now \in Nat /\ now # NotRevoked
  BY SessionsAssumption DEF TypeOK, NotRevoked
<1>2. ASSUME NEW s \in Request, s \in ids
      PROVE  [sessions[s] EXCEPT !.revokedAt = now] \in Session
  <2>1. sessions[s] \in Session
    BY <1>2 DEF TypeOK, Exists
  <2> QED
    BY <1>1, <2>1 DEF Session
<1>3. ASSUME NEW s \in Request, s \in ids
      PROVE  /\ [sessions[s] EXCEPT !.revokedAt = now].parent = sessions[s].parent
             /\ [sessions[s] EXCEPT !.revokedAt = now].user = sessions[s].user
             /\ [sessions[s] EXCEPT !.revokedAt = now].revokedAt = now
  <2>1. sessions[s] \in Session
    BY <1>3 DEF TypeOK, Exists
  <2> QED
    BY <2>1 DEF Session
<1>4. \A s \in Request : Revoke(ids)[s] =
        IF s \in ids THEN [sessions[s] EXCEPT !.revokedAt = now] ELSE sessions[s]
  BY DEF Revoke
<1>5. Revoke(ids) \in [Request -> Session \cup {NoRow}]
  BY <1>2 DEF Revoke, TypeOK
<1>6. \A s \in ids : sessions[s] # NoRow
  BY DEF Exists
<1> QED
  BY <1>1, <1>2, <1>3, <1>4, <1>5, <1>6, NoRowIsNoSession

LEMMA FinishEffect ==
  ASSUME TypeOK, NEW r \in Request, NEW outcome \in {"done", "rejected", "failed"} \cup Running,
         Finish(r, outcome)
  PROVE  /\ pc' \in [Request -> {"new", "done", "rejected", "failed"} \cup Running]
         /\ token' \in [Request -> Request \cup {Null}]
         /\ pc'[r] = outcome
         /\ \A q \in Request \ {r} : pc'[q] = pc[q] /\ token'[q] = token[q]
BY DEF TypeOK, Finish, Goto

LEMMA RememberType ==
  ASSUME TypeOK, NEW u \in User, Remember(u)
  PROVE  /\ swept' \in [User -> SUBSET Request]
         /\ inFlight' \in [User -> SUBSET Request]
BY DEF TypeOK, Remember, SessionsOf

-----------------------------------------------------------------------------
(* IInv is inductive.                                                      *)

LEMMA InitIInv == Init => IInv
BY SessionsAssumption
   DEF Init, IInv, TypeOK, RequestOK, ConsumedParent, SweptOK, Exists, Running

\* Steps that write no session, and start no rotation of a swept one.
LEMMA QuietStep ==
  ASSUME IInv, UNCHANGED <<sessions, swept, inFlight>>, TypeOK',
         \A r \in Request : RequestOK(r)',
         \A q \in Request : pc'[q] = "rotate" =>
            \/ pc[q] = "rotate" /\ token'[q] = token[q]
            \/ ~Revoked(token'[q])
  PROVE  IInv'
<1>1. \A c \in Request : ConsumedParent(c)'
  BY DEF IInv, ConsumedParent, Exists, Revoked
<1>2. ASSUME NEW u \in User
      PROVE  SweptOK(u)'
  <2>1. SweptOK(u)
    BY DEF IInv
  <2> QED
    BY <2>1 DEF SweptOK, Exists, Revoked
<1> QED
  BY <1>1, <1>2 DEF IInv

\* Requests that go on, end or begin without writing a session.
LEMMA LoginStampKeeps ==
  ASSUME IInv, NEW r \in Request, LoginStamp(r)
  PROVE  IInv'
<1>1. sessions[r] \in Session
  BY DEF IInv, RequestOK, LoginStamp, Exists, TypeOK
<1>2. TypeOK'
  BY <1>1 DEF IInv, TypeOK, LoginStamp, Goto, Running, Session
<1>3. \A q \in Request : RequestOK(q)'
  BY DEF IInv, TypeOK, RequestOK, LoginStamp, Goto, Exists
<1>4. \A q \in Request : pc'[q] = "rotate" => pc[q] = "rotate" /\ token'[q] = token[q]
  BY DEF IInv, TypeOK, LoginStamp, Goto
<1> QED
  BY <1>2, <1>3, <1>4, QuietStep DEF LoginStamp

LEMMA EndKeeps ==
  ASSUME IInv, NEW r \in Request, NEW outcome \in {"done", "rejected", "failed"},
         Finish(r, outcome), UNCHANGED <<now, sessions, lastLogin, swept, inFlight>>
  PROVE  IInv'
<1>1. /\ pc'[r] = outcome
      /\ \A q \in Request \ {r} : pc'[q] = pc[q] /\ token'[q] = token[q]
  BY FinishEffect DEF IInv
<1>2. TypeOK'
  BY FinishEffect DEF IInv, TypeOK
<1>3. \A q \in Request : RequestOK(q)'
  BY <1>1 DEF IInv, RequestOK, Exists
<1> QED
  BY <1>1, <1>2, <1>3, QuietStep

LEMMA RefreshFindKeeps ==
  ASSUME IInv, NEW r \in Request, RefreshFind(r)
  PROVE  IInv'
<1>1. PICK s \in Delivered :
        /\ Goto(r, NextOfRefresh(s))
        /\ token' = [token EXCEPT ![r] =
                       IF NextOfRefresh(s) = "rejected" THEN Null ELSE s]
  BY DEF RefreshFind
<1>2. s \in Request /\ Exists(s)
  BY DEF Delivered
<1>3. NextOfRefresh(s) \in {"sweep", "rejected", "rotate"}
  BY DEF NextOfRefresh
<1>4. NextOfRefresh(s) = "rotate" => ~Revoked(s)
  BY DEF NextOfRefresh
<1>5. /\ pc'[r] = NextOfRefresh(s)
      /\ token'[r] = IF NextOfRefresh(s) = "rejected" THEN Null ELSE s
      /\ \A q \in Request \ {r} : pc'[q] = pc[q] /\ token'[q] = token[q]
  BY <1>1 DEF Goto, IInv, TypeOK
<1>6. TypeOK'
  BY <1>1, <1>2, <1>3 DEF IInv, TypeOK, RefreshFind, Goto, Running
<1>7. sessions[r] = NoRow
  BY DEF IInv, RequestOK, RefreshFind, MayStart
<1>8. \A q \in Request : RequestOK(q)'
  BY <1>2, <1>3, <1>5, <1>7 DEF IInv, RequestOK, Exists, RefreshFind
<1> QED
  BY <1>4, <1>5, <1>6, <1>8, QuietStep DEF RefreshFind

LEMMA LogoutFindKeeps ==
  ASSUME IInv, NEW r \in Request, LogoutFind(r)
  PROVE  IInv'
<1>1. PICK s \in Delivered : token' = [token EXCEPT ![r] = s]
  BY DEF LogoutFind
<1>2. s \in Request /\ Exists(s)
  BY DEF Delivered
<1>3. /\ pc'[r] = "revoke" /\ token'[r] = s
      /\ \A q \in Request \ {r} : pc'[q] = pc[q] /\ token'[q] = token[q]
  BY <1>1, <1>2 DEF Goto, IInv, TypeOK, LogoutFind
<1>4. TypeOK'
  BY <1>1, <1>2 DEF IInv, TypeOK, LogoutFind, Goto, Running
<1>5. sessions[r] = NoRow
  BY DEF IInv, RequestOK, LogoutFind, MayStart
<1>6. \A q \in Request : RequestOK(q)'
  BY <1>2, <1>3, <1>5 DEF IInv, RequestOK, Exists, LogoutFind
<1> QED
  BY <1>3, <1>4, <1>6, QuietStep DEF LogoutFind

LEMMA TickKeeps ==
  ASSUME IInv, Tick
  PROVE  IInv'
<1>1. TypeOK'
  BY SessionsAssumption DEF IInv, TypeOK, Tick
<1>2. \A q \in Request : RequestOK(q)'
  BY DEF IInv, RequestOK, Exists, Tick
<1> QED
  BY <1>1, <1>2, QuietStep DEF Tick

LEMMA LoginCreateKeeps ==
  ASSUME IInv, NEW r \in Request, LoginCreate(r)
  PROVE  IInv'
<1>1. PICK u \in User : sessions' = [sessions EXCEPT ![r] = NewSession(u, Null)]
  BY DEF LoginCreate
<1>2. now \in Nat
  BY SessionsAssumption DEF IInv, TypeOK
<1>3. /\ sessions'[r] \in Session /\ sessions'[r].parent = Null
      /\ \A q \in Request \ {r} : sessions'[q] = sessions[q]
  BY <1>1, <1>2, NewSessionType DEF IInv, TypeOK
<1>4. sessions[r] = NoRow /\ sessions'[r] # NoRow
  BY <1>3, NoRowIsNoSession DEF IInv, RequestOK, LoginCreate, MayStart
<1>5. /\ pc'[r] = "stamp" /\ token' = token
      /\ \A q \in Request \ {r} : pc'[q] = pc[q]
  BY DEF LoginCreate, Goto, IInv, TypeOK
<1>6. TypeOK'
  BY <1>1, <1>2, NewSessionType DEF IInv, TypeOK, LoginCreate, Goto, Running
<1>7. \A q \in Request : RequestOK(q)'
  BY <1>3, <1>4, <1>5 DEF IInv, RequestOK, Exists
<1>8. ASSUME NEW c \in Request
      PROVE  ConsumedParent(c)'
  <2>1. ConsumedParent(c)
    BY DEF IInv
  <2>2. sessions[c] # NoRow => sessions[c].parent \in Request \cup {Null}
    BY DEF IInv, TypeOK, Session
  <2> QED
    BY <1>3, <1>4, <2>1, <2>2 DEF ConsumedParent, Exists, Revoked
<1>9. ASSUME NEW v \in User
      PROVE  SweptOK(v)'
  <2>1. SweptOK(v) /\ swept[v] \subseteq Request
    BY DEF IInv, TypeOK
  <2>2. r \notin swept[v] /\ Null \notin swept[v]
    BY <1>4, <2>1, SessionsAssumption DEF SweptOK, Exists
  <2>3. swept' = swept /\ inFlight' = inFlight
    BY DEF LoginCreate
  <2>4. \A s \in swept[v] : sessions'[s] = sessions[s]
    BY <1>3, <2>1, <2>2
  <2> QED
    BY <1>3, <1>5, <2>1, <2>2, <2>3, <2>4 DEF SweptOK, Exists, Revoked
<1> QED
  BY <1>6, <1>7, <1>8, <1>9 DEF IInv

LEMMA RefreshRotateKeeps ==
  ASSUME IInv, NEW r \in Request, RefreshRotate(r)
  PROVE  IInv'
<1> DEFINE s == token[r]
           u == sessions[s].user
<1>1. s \in Request /\ Exists(s) /\ sessions[r] = NoRow
  BY DEF IInv, RequestOK, RefreshRotate
<1>2. s # r
  BY <1>1 DEF Exists
<1>3. u \in User
  BY <1>1 DEF IInv, TypeOK, Exists, Session
<1>4. sessions' = [Revoke({s}) EXCEPT ![r] = NewSession(u, s)]
  BY DEF RefreshRotate
<1>5. /\ Revoke({s}) \in [Request -> Session \cup {NoRow}]
      /\ \A x \in Request :
           /\ Revoke({s})[x] = NoRow <=> sessions[x] = NoRow
           /\ Revoke({s})[x].parent = sessions[x].parent
           /\ Revoke({s})[x].user = sessions[x].user
           /\ sessions[x].revokedAt # NotRevoked => Revoke({s})[x].revokedAt # NotRevoked
           /\ x = s => Revoke({s})[x].revokedAt # NotRevoked
  BY <1>1, RevokeEffect DEF IInv
<1>6. /\ NewSession(u, s) \in Session
      /\ NewSession(u, s).parent = s
      /\ NewSession(u, s).user = u
  BY <1>1, <1>3, NewSessionType, SessionsAssumption DEF IInv, TypeOK
<1>7. PICK old \in Request : old = s
  BY <1>1
<1>8. sessions' \in [Request -> Session \cup {NoRow}]
  BY <1>4, <1>5, <1>6
<1>9. u = sessions[old].user
  BY <1>7
<1> HIDE DEF s, u
<1>10. /\ sessions'[r] \in Session /\ sessions'[r].parent = old
      /\ sessions'[r].user = sessions[old].user
      /\ \A x \in Request \ {r} :
           /\ sessions'[x] = NoRow <=> sessions[x] = NoRow
           /\ sessions'[x].parent = sessions[x].parent
           /\ sessions'[x].user = sessions[x].user
           /\ sessions[x].revokedAt # NotRevoked => sessions'[x].revokedAt # NotRevoked
           /\ x = old => sessions'[x].revokedAt # NotRevoked
  BY <1>4, <1>5, <1>6, <1>7, <1>9
<1>11. sessions'[r] # NoRow
  BY <1>10, NoRowIsNoSession
<1>12. Finish(r, "answer") /\ pc[r] = "rotate"
  BY DEF RefreshRotate
<1>13. /\ pc'[r] = "answer"
       /\ \A q \in Request \ {r} : pc'[q] = pc[q] /\ token'[q] = token[q]
  BY <1>12, FinishEffect DEF IInv, Running
<1>14. TypeOK'
  <2>1. /\ pc' \in [Request -> {"new", "done", "rejected", "failed"} \cup Running]
        /\ token' \in [Request -> Request \cup {Null}]
    BY <1>12, FinishEffect DEF IInv, Running
  <2>2. UNCHANGED <<now, lastLogin, swept, inFlight>>
    BY DEF RefreshRotate
  <2> QED
    BY <1>8, <2>1, <2>2 DEF IInv, TypeOK
<1>15. \A q \in Request : RequestOK(q)'
  BY <1>10, <1>11, <1>13 DEF IInv, RequestOK, Exists
<1>16. ASSUME NEW c \in Request
       PROVE  ConsumedParent(c)'
  <2>1. ConsumedParent(c)
    BY DEF IInv
  <2>2. sessions[c] # NoRow => sessions[c].parent \in Request \cup {Null}
    BY DEF IInv, TypeOK, Session
  <2>3. CASE c = r
    BY <1>1, <1>2, <1>7, <1>10, <2>3 DEF ConsumedParent, Exists, Revoked
  <2>4. CASE c # r
    BY <1>1, <1>10, <1>11, <2>1, <2>2, <2>4 DEF ConsumedParent, Exists, Revoked
  <2> QED
    BY <2>3, <2>4
<1>17. ASSUME NEW v \in User
       PROVE  SweptOK(v)'
  <2>1. SweptOK(v) /\ swept[v] \subseteq Request
    BY DEF IInv, TypeOK
  <2>2. r \notin swept[v]
    BY <1>1, <2>1 DEF SweptOK, Exists
  <2>3. swept' = swept /\ inFlight' = inFlight
    BY DEF RefreshRotate
  <2>4. \A x \in swept[v] : Exists(x)' /\ sessions'[x].user = v /\ Revoked(x)'
    BY <1>10, <2>1, <2>2 DEF SweptOK, Exists, Revoked
  <2>5. \A q \in Request :
          pc'[q] = "rotate" /\ token'[q] \in swept[v] => q \in inFlight[v]
    BY <1>13, <2>1 DEF SweptOK
  <2>6. old \in swept[v] => r \in inFlight[v]
    BY <1>7, <1>12, <2>1 DEF SweptOK, s
  <2>7. \A x \in Request :
          Exists(x)' /\ x \notin swept[v] /\ sessions'[x].parent \in swept[v]
            => x \in inFlight[v]
    BY <1>10, <2>1, <2>6 DEF SweptOK, Exists
  <2> QED
    BY <2>3, <2>4, <2>5, <2>7 DEF SweptOK
<1> QED
  BY <1>14, <1>15, <1>16, <1>17 DEF IInv

LEMMA LogoutRevokeKeeps ==
  ASSUME IInv, NEW r \in Request, LogoutRevoke(r)
  PROVE  IInv'
<1>1. PICK s \in Request : s = token[r]
  BY DEF IInv, RequestOK, LogoutRevoke
<1>2. Exists(s) /\ sessions' = Revoke({s})
  BY <1>1 DEF IInv, RequestOK, LogoutRevoke
<1>3. /\ sessions' \in [Request -> Session \cup {NoRow}]
      /\ \A x \in Request :
           /\ sessions'[x] = NoRow <=> sessions[x] = NoRow
           /\ sessions'[x].parent = sessions[x].parent
           /\ sessions'[x].user = sessions[x].user
           /\ sessions[x].revokedAt # NotRevoked => sessions'[x].revokedAt # NotRevoked
  BY <1>2, RevokeEffect DEF IInv
<1>4. Finish(r, "done") /\ UNCHANGED <<now, lastLogin, swept, inFlight>>
  BY DEF LogoutRevoke
<1>5. /\ pc' \in [Request -> {"new", "done", "rejected", "failed"} \cup Running]
      /\ token' \in [Request -> Request \cup {Null}]
      /\ pc'[r] = "done"
      /\ \A q \in Request \ {r} : pc'[q] = pc[q] /\ token'[q] = token[q]
  BY <1>4, FinishEffect DEF IInv
<1>6. TypeOK'
  BY <1>3, <1>4, <1>5 DEF IInv, TypeOK
<1>7. \A q \in Request : RequestOK(q)'
  BY <1>3, <1>5 DEF IInv, RequestOK, Exists
<1>8. ASSUME NEW c \in Request
      PROVE  ConsumedParent(c)'
  <2>1. ConsumedParent(c)
    BY DEF IInv
  <2>2. sessions[c] # NoRow => sessions[c].parent \in Request \cup {Null}
    BY DEF IInv, TypeOK, Session
  <2> QED
    BY <1>3, <2>1, <2>2 DEF ConsumedParent, Exists, Revoked
<1>9. ASSUME NEW v \in User
      PROVE  SweptOK(v)'
  <2>1. SweptOK(v) /\ swept[v] \subseteq Request
    BY DEF IInv, TypeOK
  <2> QED
    BY <1>3, <1>4, <1>5, <2>1 DEF SweptOK, Exists, Revoked
<1> QED
  BY <1>6, <1>7, <1>8, <1>9 DEF IInv

\* A sweep, by a replayed token or by logout-all: every session of u that was
\* not yet revoked is revoked, and possibly others of u once more.
LEMMA SweepKeeps ==
  ASSUME IInv, NEW r \in Request, NEW u \in User, NEW ids \in SUBSET SessionsOf(u),
         NEW outcome \in {"done", "rejected", "failed"},
         \A s \in SessionsOf(u) \ ids : Revoked(s),
         sessions' = Revoke(ids), Remember(u), Finish(r, outcome),
         UNCHANGED <<now, lastLogin>>
  PROVE  IInv'
<1>1. ids \subseteq Request /\ \A s \in ids : Exists(s)
  BY DEF SessionsOf
<1>2. /\ sessions' \in [Request -> Session \cup {NoRow}]
      /\ \A x \in Request :
           /\ sessions'[x] = NoRow <=> sessions[x] = NoRow
           /\ sessions'[x].parent = sessions[x].parent
           /\ sessions'[x].user = sessions[x].user
           /\ sessions[x].revokedAt # NotRevoked => sessions'[x].revokedAt # NotRevoked
           /\ x \in ids => sessions'[x].revokedAt # NotRevoked
  BY <1>1, RevokeEffect DEF IInv
<1>3. /\ pc' \in [Request -> {"new", "done", "rejected", "failed"} \cup Running]
      /\ token' \in [Request -> Request \cup {Null}]
      /\ pc'[r] = outcome
      /\ \A q \in Request \ {r} : pc'[q] = pc[q] /\ token'[q] = token[q]
  BY FinishEffect DEF IInv
<1>4. TypeOK'
  BY <1>2, <1>3, RememberType DEF IInv, TypeOK
<1>5. \A q \in Request : RequestOK(q)'
  BY <1>2, <1>3 DEF IInv, RequestOK, Exists
<1>6. \A c \in Request : sessions[c] # NoRow => sessions[c].parent \in Request \cup {Null}
  BY DEF IInv, TypeOK, Session
<1>7. ASSUME NEW c \in Request
      PROVE  ConsumedParent(c)'
  <2>1. ConsumedParent(c)
    BY DEF IInv
  <2> QED
    BY <1>2, <1>6, <2>1 DEF ConsumedParent, Exists, Revoked
<1>8. SweptOK(u)'
  <2>1. /\ swept'[u] = SessionsOf(u)
        /\ inFlight'[u] =
             {q \in Request : pc[q] = "rotate" /\ sessions[token[q]].user = u}
    BY DEF Remember, IInv, TypeOK
  <2>2. \A s \in swept'[u] : Exists(s)' /\ sessions'[s].user = u /\ Revoked(s)'
    BY <1>2, <2>1 DEF SessionsOf, Exists, Revoked
  <2>3. \A q \in Request :
          pc'[q] = "rotate" /\ token'[q] \in swept'[u] => q \in inFlight'[u]
    BY <1>3, <2>1 DEF SessionsOf
  <2>4. ASSUME NEW s \in Request, Exists(s)', sessions'[s].parent \in swept'[u]
        PROVE  s \in swept'[u]
    <3>1. Exists(s) /\ sessions[s].parent \in SessionsOf(u)
      BY <1>2, <2>1, <2>4 DEF Exists
    <3>2. ConsumedParent(s) /\ sessions[s].parent # Null
      BY <3>1, SessionsAssumption DEF IInv, SessionsOf
    <3>3. sessions[s].user = u
      BY <3>1, <3>2 DEF ConsumedParent, SessionsOf
    <3> QED
      BY <2>1, <3>1, <3>3 DEF SessionsOf
  <2> QED
    BY <2>2, <2>3, <2>4 DEF SweptOK
<1>9. ASSUME NEW v \in User \ {u}
      PROVE  SweptOK(v)'
  <2>1. SweptOK(v) /\ swept[v] \subseteq Request
    BY DEF IInv, TypeOK
  <2>2. swept'[v] = swept[v] /\ inFlight'[v] = inFlight[v]
    BY DEF Remember, IInv, TypeOK
  <2> QED
    BY <1>2, <1>3, <2>1, <2>2 DEF SweptOK, Exists, Revoked
<1> QED
  BY <1>4, <1>5, <1>7, <1>8, <1>9 DEF IInv

LEMMA RefreshSweepKeeps ==
  ASSUME IInv, NEW r \in Request, RefreshSweep(r)
  PROVE  IInv'
<1> DEFINE u == sessions[token[r]].user
           ids == {s \in SessionsOf(u) : ~Revoked(s)}
<1>1. token[r] \in Request /\ Exists(token[r])
  BY DEF IInv, RequestOK, RefreshSweep
<1>2. u \in User
  BY <1>1 DEF IInv, TypeOK, Exists, Session
<1>3. /\ sessions' = Revoke(ids) /\ Remember(u) /\ Finish(r, "rejected")
      /\ UNCHANGED <<now, lastLogin>>
  BY DEF RefreshSweep
<1>4. ids \in SUBSET SessionsOf(u) /\ \A s \in SessionsOf(u) \ ids : Revoked(s)
  OBVIOUS
<1> HIDE DEF u, ids
<1> QED
  BY <1>2, <1>3, <1>4, SweepKeeps

LEMMA LogoutAllKeeps ==
  ASSUME IInv, NEW r \in Request, LogoutAll(r)
  PROVE  IInv'
<1>1. PICK u \in User : sessions' = Revoke(SessionsOf(u)) /\ Remember(u)
  BY DEF LogoutAll
<1>2. Finish(r, "done") /\ UNCHANGED <<now, lastLogin>>
  BY DEF LogoutAll
<1> QED
  BY <1>1, <1>2, SweepKeeps

LEMMA NextIInv == IInv /\ [Next]_vars => IInv'
<1> SUFFICES ASSUME IInv, [Next]_vars
             PROVE  IInv'
  OBVIOUS
<1>1. CASE UNCHANGED vars
  BY <1>1 DEF vars, IInv, TypeOK, RequestOK, ConsumedParent, SweptOK, Exists,
              SessionsOf, Revoked
<1>2. CASE Tick
  BY <1>2, TickKeeps
<1>3. ASSUME NEW r \in Request, Step(r)
      PROVE  IInv'
  <2>1. CASE LoginCreate(r)
    BY <2>1, LoginCreateKeeps
  <2>2. CASE RefreshFind(r)
    BY <2>2, RefreshFindKeeps
  <2>3. CASE LogoutFind(r)
    BY <2>3, LogoutFindKeeps
  <2>4. CASE LogoutAll(r)
    BY <2>4, LogoutAllKeeps
  <2>5. CASE Unauthorized(r)
    BY <2>5, EndKeeps DEF Unauthorized
  <2>6. CASE LoginStamp(r)
    BY <2>6, LoginStampKeeps
  <2>7. CASE RefreshRotate(r)
    BY <2>7, RefreshRotateKeeps
  <2>8. CASE RefreshSweep(r)
    BY <2>8, RefreshSweepKeeps
  <2>9. CASE LogoutRevoke(r)
    BY <2>9, LogoutRevokeKeeps
  <2>10. CASE Answer(r)
    BY <2>10, EndKeeps DEF Answer
  <2>11. CASE Fail(r)
    BY <2>11, EndKeeps DEF Fail
  <2> QED
    BY <1>3, <2>1, <2>2, <2>3, <2>4, <2>5, <2>6, <2>7, <2>8, <2>9, <2>10, <2>11
       DEF Step, Proceed
<1> QED
  BY <1>1, <1>2, <1>3 DEF Next

-----------------------------------------------------------------------------

\* Every step keeps the state in its types: the rows, and what the requests
\* of auth.service.ts have read.
THEOREM TypeCorrect == Spec => []TypeOK
<1>1. IInv => TypeOK
  BY DEF IInv
<1> QED
  BY <1>1, InitIInv, NextIInv, PTL DEF Spec

\* refreshToken revokes the token it exchanges together with making the new
\* one: whatever overlaps, crashes or gets lost, no exchanged token is live.
THEOREM ParentsConsumed == Spec => []RotationConsumesParent
<1>1. IInv => RotationConsumesParent
  <2> SUFFICES ASSUME IInv, NEW s \in Request, NEW r \in Children(s)
               PROVE  Exists(s) /\ Revoked(s)
    BY DEF RotationConsumesParent
  <2>1. ConsumedParent(r) /\ sessions[r].parent = s /\ Exists(r) /\ r \in Request
    BY DEF IInv, Children
  <2> QED
    BY <2>1, SessionsAssumption DEF ConsumedParent
<1> QED
  BY <1>1, InitIInv, NextIInv, PTL DEF Spec

\* What logout-all or a noticed replay revoked stays revoked, and a session
\* made from it later is the work of a rotation it overtook.
THEOREM SweepsHold == Spec => []SweepLeavesOnlyInFlight
<1>1. IInv => SweepLeavesOnlyInFlight
  BY DEF IInv, SweptOK, SweepLeavesOnlyInFlight, SessionsOf
<1> QED
  BY <1>1, InitIInv, NextIInv, PTL DEF Spec

\* The sessions a step writes, all of user u once it is done.
WritesOnlyOf(u) ==
  \A s \in Request : sessions'[s] # sessions[s] => sessions'[s].user = u

LEMMA RevokeWrites ==
  ASSUME TypeOK, NEW u \in User, NEW ids \in SUBSET SessionsOf(u), sessions' = Revoke(ids)
  PROVE  WritesOnlyOf(u)
<1>1. ids \subseteq Request /\ \A s \in ids : Exists(s) /\ sessions[s].user = u
  BY DEF SessionsOf
<1>2. \A s \in Request : sessions'[s].user = sessions[s].user
  BY <1>1, RevokeEffect
<1>3. \A s \in Request : s \notin ids => sessions'[s] = sessions[s]
  BY DEF Revoke
<1> QED
  BY <1>1, <1>2, <1>3 DEF WritesOnlyOf

LEMMA TokenUser ==
  ASSUME IInv, NEW r \in Request, pc[r] \in {"rotate", "sweep", "revoke"}
  PROVE  /\ token[r] \in Request
         /\ sessions[token[r]].user \in User
         /\ token[r] \in SessionsOf(sessions[token[r]].user)
BY DEF IInv, RequestOK, TypeOK, Exists, Session, SessionsOf

\* Refreshing, logging out or having a replay noticed never ends a session of
\* another user.
THEOREM UsersApart == Spec => OneUserPerStep
<1>1. ASSUME IInv, [Next]_vars, sessions' # sessions
      PROVE  \E u \in User : WritesOnlyOf(u)
  <2>1. PICK r \in Request : \/ LoginCreate(r) \/ RefreshRotate(r) \/ RefreshSweep(r)
                            \/ LogoutRevoke(r) \/ LogoutAll(r)
    BY <1>1 DEF Next, Step, Proceed, vars, LoginStamp, RefreshFind, LogoutFind,
                Unauthorized, Answer, Fail, Tick
  <2>2. TypeOK /\ now \in Nat
    BY <1>1, SessionsAssumption DEF IInv, TypeOK
  <2>3. CASE LoginCreate(r)
    <3>1. PICK u \in User : sessions' = [sessions EXCEPT ![r] = NewSession(u, Null)]
      BY <2>3 DEF LoginCreate
    <3>2. NewSession(u, Null).user = u
      BY <2>2, NewSessionType
    <3>3. WritesOnlyOf(u)
      BY <2>2, <3>1, <3>2 DEF TypeOK, WritesOnlyOf
    <3> QED
      BY <3>3
  <2>4. CASE RefreshRotate(r)
    <3> DEFINE s == token[r]
               u == sessions[s].user
    <3>1. s \in Request /\ u \in User /\ {s} \in SUBSET SessionsOf(u)
      BY <1>1, <2>4, TokenUser DEF RefreshRotate
    <3>2. /\ sessions' = [Revoke({s}) EXCEPT ![r] = NewSession(u, s)]
          /\ NewSession(u, s).user = u
      BY <2>2, <2>4, <3>1, NewSessionType DEF RefreshRotate
    <3>3. /\ Exists(s) /\ {s} \subseteq Request
          /\ Revoke({s})[s].user = u
      BY <2>2, <3>1, RevokeEffect DEF SessionsOf
    <3>4. \A x \in Request \ {s} : Revoke({s})[x] = sessions[x]
      BY DEF Revoke
    <3>5. DOMAIN Revoke({s}) = Request
      BY DEF Revoke
    <3> HIDE DEF s, u
    <3>6. WritesOnlyOf(u)
      BY <3>2, <3>3, <3>4, <3>5 DEF WritesOnlyOf
    <3> QED
      BY <3>1, <3>6
  <2>5. CASE RefreshSweep(r)
    <3> DEFINE u == sessions[token[r]].user
               ids == {s \in SessionsOf(u) : ~Revoked(s)}
    <3>1. u \in User
      BY <1>1, <2>5, TokenUser DEF RefreshSweep
    <3>2. sessions' = Revoke(ids) /\ ids \in SUBSET SessionsOf(u)
      BY <2>5 DEF RefreshSweep
    <3> HIDE DEF u, ids
    <3> QED
      BY <2>2, <3>1, <3>2, RevokeWrites
  <2>6. CASE LogoutRevoke(r)
    <3> DEFINE u == sessions[token[r]].user
    <3>1. u \in User /\ {token[r]} \in SUBSET SessionsOf(u)
      BY <1>1, <2>6, TokenUser DEF LogoutRevoke
    <3>2. sessions' = Revoke({token[r]})
      BY <2>6 DEF LogoutRevoke
    <3> HIDE DEF u
    <3> QED
      BY <2>2, <3>1, <3>2, RevokeWrites
  <2>7. CASE LogoutAll(r)
    <3>1. PICK u \in User : sessions' = Revoke(SessionsOf(u))
      BY <2>7 DEF LogoutAll
    <3> QED
      BY <2>2, <3>1, RevokeWrites
  <2> QED
    BY <2>1, <2>3, <2>4, <2>5, <2>6, <2>7
<1>2. IInv /\ [Next]_vars =>
        [\A s, t \in {x \in Request : sessions'[x] # sessions[x]} :
           sessions'[s].user = sessions'[t].user]_vars
  <2> SUFFICES ASSUME IInv, [Next]_vars
               PROVE  \A s, t \in {x \in Request : sessions'[x] # sessions[x]} :
                        sessions'[s].user = sessions'[t].user
    OBVIOUS
  <2>1. CASE sessions' = sessions
    BY <2>1
  <2>2. CASE sessions' # sessions
    BY <1>1, <2>2 DEF WritesOnlyOf
  <2> QED
    BY <2>1, <2>2
<1> QED
  BY <1>2, InitIInv, NextIInv, PTL DEF Spec, OneUserPerStep
-----------------------------------------------------------------------------
(* Requests that come one at a time.                                       *)

\* A session is rotated into one other.
OnlyChildren ==
  \A x, y \in Request :
    sessions[x].parent = sessions[y].parent /\ sessions[x].parent # Null => x = y

\* Of requests that come one at a time, at most one is running, and the session
\* it is about to exchange has not been exchanged since it was read.
SoloInv ==
  /\ alone \in BOOLEAN
  /\ alone => /\ \A q, r \in Request : pc[q] \in Running /\ pc[r] \in Running => q = r
              /\ \A r \in Request : pc[r] = "rotate" => ~Revoked(token[r])
              /\ OnlyChildren

LEMMA StepMoves ==
  ASSUME IInv, NEW r \in Request, Step(r)
  PROVE  /\ pc'[r] # pc[r]
         /\ \A q \in Request \ {r} : pc'[q] = pc[q] /\ token'[q] = token[q]
         /\ pc'[r] = "rotate" => UNCHANGED sessions /\ ~Revoked(token'[r])
<1>1. CASE RefreshFind(r)
  <2>1. PICK s \in Delivered :
          /\ Goto(r, NextOfRefresh(s))
          /\ token' = [token EXCEPT ![r] = IF NextOfRefresh(s) = "rejected" THEN Null ELSE s]
    BY <1>1 DEF RefreshFind
  <2>2. /\ NextOfRefresh(s) \in {"sweep", "rejected", "rotate"}
        /\ NextOfRefresh(s) = "rotate" => ~Revoked(s)
    BY DEF NextOfRefresh
  <2>3. /\ pc'[r] = NextOfRefresh(s)
        /\ pc'[r] = "rotate" => token'[r] = s
        /\ \A q \in Request \ {r} : pc'[q] = pc[q] /\ token'[q] = token[q]
        /\ pc[r] = "new" /\ UNCHANGED sessions
    BY <1>1, <2>1 DEF RefreshFind, Goto, MayStart, IInv, TypeOK
  <2> QED
    BY <2>2, <2>3
<1>2. CASE LoginCreate(r) \/ LogoutFind(r) \/ LogoutAll(r) \/ Unauthorized(r)
  BY <1>2 DEF LoginCreate, LogoutFind, LogoutAll, Unauthorized, MayStart, Finish, Goto, IInv,
              TypeOK
<1>3. CASE Proceed(r) \/ Fail(r)
  BY <1>3 DEF Proceed, LoginStamp, RefreshRotate, RefreshSweep, LogoutRevoke, Answer, Fail,
              Finish, Goto, IInv, TypeOK, Running
<1> QED
  BY <1>1, <1>2, <1>3 DEF Step

\* A step gives a parent only to the session it creates.
LEMMA StepParents ==
  ASSUME IInv, NEW r \in Request, Step(r)
  PROVE  /\ \A x \in Request \ {r} : sessions'[x].parent = sessions[x].parent
         /\ \/ sessions'[r].parent \in {sessions[r].parent, Null}
            \/ pc[r] = "rotate" /\ sessions'[r].parent = token[r]
<1>1. CASE LoginCreate(r)
  <2>1. PICK u \in User : sessions' = [sessions EXCEPT ![r] = NewSession(u, Null)]
    BY <1>1 DEF LoginCreate
  <2> QED
    BY <2>1 DEF IInv, TypeOK, NewSession
<1>2. CASE RefreshRotate(r)
  <2> DEFINE s == token[r]
             new == NewSession(sessions[s].user, s)
  <2>1. s \in Request /\ Exists(s) /\ pc[r] = "rotate"
    BY <1>2 DEF IInv, RequestOK, RefreshRotate
  <2>2. \A x \in Request : Revoke({s})[x].parent = sessions[x].parent
    BY <2>1, RevokeEffect DEF IInv
  <2>3. sessions' = [Revoke({s}) EXCEPT ![r] = new] /\ DOMAIN Revoke({s}) = Request
    BY <1>2 DEF RefreshRotate, Revoke
  <2>4. new.parent = s
    BY DEF NewSession
  <2> HIDE DEF s, new
  <2>5. sessions'[r].parent = s /\ \A x \in Request \ {r} : sessions'[x].parent = sessions[x].parent
    BY <2>2, <2>3, <2>4
  <2> QED
    BY <2>1, <2>5 DEF s
<1>3. ASSUME NEW u \in User, NEW ids \in SUBSET SessionsOf(u), sessions' = Revoke(ids)
      PROVE  \A x \in Request : sessions'[x].parent = sessions[x].parent
  <2>1. ids \subseteq Request /\ \A s \in ids : Exists(s)
    BY DEF SessionsOf
  <2> QED
    BY <1>3, <2>1, RevokeEffect DEF IInv
<1>4. CASE RefreshSweep(r)
  <2> DEFINE u == sessions[token[r]].user
  <2>1. u \in User
    BY <1>4, TokenUser DEF RefreshSweep
  <2>2. sessions' = Revoke({s \in SessionsOf(u) : ~Revoked(s)})
    BY <1>4 DEF RefreshSweep
  <2> HIDE DEF u
  <2> QED
    BY <1>3, <2>1, <2>2
<1>5. CASE LogoutRevoke(r)
  <2>1. /\ sessions[token[r]].user \in User
        /\ {token[r]} \in SUBSET SessionsOf(sessions[token[r]].user)
    BY <1>5, TokenUser DEF LogoutRevoke
  <2> QED
    BY <1>3, <1>5, <2>1 DEF LogoutRevoke
<1>6. CASE LogoutAll(r)
  <2>1. PICK u \in User : sessions' = Revoke(SessionsOf(u))
    BY <1>6 DEF LogoutAll
  <2> QED
    BY <1>3, <2>1
<1>7. UNCHANGED sessions \/ LoginCreate(r) \/ RefreshRotate(r) \/ RefreshSweep(r)
        \/ LogoutRevoke(r) \/ LogoutAll(r)
  BY DEF Step, Proceed, LoginStamp, RefreshFind, LogoutFind, Unauthorized, Answer, Fail
<1> QED
  BY <1>1, <1>2, <1>4, <1>5, <1>6, <1>7

\* A session that is not revoked has not been rotated into another.
LEMMA NoChildYet ==
  ASSUME IInv, NEW s \in Request, ~Revoked(s), NEW x \in Request
  PROVE  sessions[x].parent # s
BY SessionsAssumption DEF IInv, ConsumedParent, Exists, NoRow

LEMMA NextSolo == IInv /\ SoloInv /\ [AloneNext]_<<vars, alone>> => SoloInv'
<1> SUFFICES ASSUME IInv, SoloInv, [AloneNext]_<<vars, alone>>
             PROVE  SoloInv'
  OBVIOUS
<1>1. CASE UNCHANGED <<vars, alone>>
  BY <1>1 DEF vars, SoloInv, OnlyChildren, Revoked
<1>2. CASE AloneNext /\ ~alone'
  BY <1>2 DEF AloneNext, SoloInv
<1>3. CASE AloneNext /\ alone' /\ Tick
  BY <1>3 DEF AloneNext, Tick, SoloInv, OnlyChildren, Revoked
<1>4. ASSUME AloneNext, alone', NEW r \in Request, Step(r)
      PROVE  SoloInv'
  <2>1. alone /\ \A q \in Request \ {r} : pc[q] \notin Running
    BY <1>4, StepMoves DEF AloneNext, SoloInv
  <2>2. \A q \in Request \ {r} : pc'[q] \notin Running
    BY <1>4, <2>1, StepMoves
  <2>3. \A q \in Request : pc'[q] = "rotate" => ~Revoked(token'[q]) /\ UNCHANGED sessions
    BY <1>4, <2>2, StepMoves DEF Running
  <2>4. OnlyChildren
    BY <2>1 DEF SoloInv
  <2>5. sessions[r].parent # Null => sessions'[r].parent = sessions[r].parent
          \/ sessions'[r].parent = Null
    <3>1. pc[r] = "rotate" => sessions[r].parent = Null
      BY DEF IInv, RequestOK, NoRow
    <3> QED
      BY <1>4, <3>1, StepParents
  <2>6. CASE sessions'[r].parent \in {sessions[r].parent, Null}
    <3>1. OnlyChildren'
      BY <1>4, <2>4, <2>6, StepParents DEF OnlyChildren
    <3> QED
      BY <1>4, <2>2, <2>3, <3>1 DEF SoloInv, Revoked
  <2>7. CASE pc[r] = "rotate" /\ sessions'[r].parent = token[r]
    <3>1. ~Revoked(token[r]) /\ token[r] \in Request
      BY <2>1, <2>7 DEF SoloInv, IInv, RequestOK
    <3>2. \A x \in Request : sessions[x].parent # token[r]
      BY <3>1, NoChildYet
    <3>3. OnlyChildren'
      BY <1>4, <2>4, <2>7, <3>2, StepParents DEF OnlyChildren
    <3> QED
      BY <1>4, <2>2, <2>3, <3>3 DEF SoloInv, Revoked
  <2> QED
    BY <1>4, <2>6, <2>7, StepParents
<1> QED
  BY <1>1, <1>2, <1>3, <1>4 DEF AloneNext, Next

LEMMA SoloInvariance == AloneSpec => [](IInv /\ SoloInv)
<1>1. AloneInit => IInv /\ SoloInv
  <2>1. AloneInit => SoloInv
    BY DEF AloneInit, Init, SoloInv, OnlyChildren, NoRow, Running
  <2> QED
    BY <2>1, InitIInv DEF AloneInit
<1>2. [AloneNext]_<<vars, alone>> => [Next]_vars
  BY DEF AloneNext
<1>3. IInv /\ SoloInv /\ [AloneNext]_<<vars, alone>> => (IInv /\ SoloInv)'
  BY <1>2, NextIInv, NextSolo
<1> QED
  BY <1>1, <1>3, PTL DEF AloneSpec

\* README.md:16.  As long as requests come one at a time, a refresh token is
\* exchanged at most once, through crashes and lost answers.
THEOREM ExchangedOnceAlone == AloneSpec => []SingleUseAlone
<1>1. ASSUME OnlyChildren, NEW s \in Request
      PROVE  Cardinality(Children(s)) <= 1
  <2>1. \A x, y \in Children(s) : x = y
    BY <1>1, SessionsAssumption DEF OnlyChildren, Children
  <2>2. Children(s) = {} \/ \E x : Children(s) = {x}
    BY <2>1
  <2>3. Cardinality(Children(s)) \in {0, 1}
    BY <2>2, FS_EmptySet, FS_Singleton
  <2> QED
    BY <2>3
<1>2. SoloInv => SingleUseAlone
  BY <1>1 DEF SoloInv, SingleUseAlone, SingleUse
<1> QED
  BY <1>2, SoloInvariance, PTL

-----------------------------------------------------------------------------
(* Sessions and the login they go back to.                                 *)

\* Induction, with a set of numbers for the property.
LEMMA NatSets ==
  ASSUME NEW T \in SUBSET Nat, 0 \in T, \A n \in T : n + 1 \in T
  PROVE  T = Nat
<1> SUFFICES ASSUME T # Nat PROVE FALSE
  OBVIOUS
<1> DEFINE R == OpToRel(<, Nat)
           S == Nat \ T
<1>1. IsWellFoundedOn(R, Nat)
  BY NatLessThanWellFounded
<1>2. \A x, y \in Nat : x < y => <<x, y>> \in R
  BY DEF OpToRel
<1>3. S \subseteq Nat /\ S # {}
  OBVIOUS
<1> HIDE DEF R, S
<1>4. PICK x \in S : \A y \in S : ~(<<y, x>> \in R)
  BY <1>1, <1>3, WFMin
<1>5. x \in Nat /\ x \notin T /\ x # 0
  BY DEF S
<1>6. x - 1 \in Nat /\ x - 1 < x
  BY <1>5
<1>7. x - 1 \notin S
  BY <1>2, <1>4, <1>5, <1>6
<1>8. (x - 1) + 1 \in T
  BY <1>6, <1>7 DEF S
<1> QED
  BY <1>5, <1>8

\* What a step is repeated to is well defined.
Runs(V, a, step, n) ==
  {g \in [0..n -> V] : g[0] = a /\ \A i \in 1..n : g[i] = step[g[i - 1]]}

LEMMA RunsAgree ==
  ASSUME NEW V, NEW a \in V, NEW step \in [V -> V], NEW m \in Nat, NEW n \in Nat, m <= n,
         NEW g \in Runs(V, a, step, m), NEW h \in Runs(V, a, step, n)
  PROVE  \A i \in 0..m : g[i] = h[i]
<1> DEFINE T == {i \in Nat : i <= m => g[i] = h[i]}
<1>1. 0 \in T
  BY DEF Runs
<1>2. ASSUME NEW i \in T
      PROVE  i + 1 \in T
  <2>1. CASE i + 1 <= m
    <3>1. i + 1 \in 1..m /\ i + 1 \in 1..n /\ (i + 1) - 1 = i /\ i \in Nat /\ i <= m
      BY <2>1
    <3>2. g[i + 1] = step[g[i]] /\ h[i + 1] = step[h[i]]
      BY <3>1 DEF Runs
    <3> QED
      BY <3>1, <3>2
  <2> QED
    BY <2>1
<1> HIDE DEF T
<1>3. T \in SUBSET Nat
  BY DEF T
<1>4. T = Nat
  BY <1>1, <1>2, <1>3, NatSets
<1> QED
  BY <1>4 DEF T

LEMMA Iteration ==
  ASSUME NEW V, NEW a \in V, NEW step \in [V -> V]
  PROVE  \E f \in [Nat -> V] : f[0] = a /\ \A n \in Nat \ {0} : f[n] = step[f[n - 1]]
<1> DEFINE T == {n \in Nat : Runs(V, a, step, n) # {}}
<1>1. 0 \in T
  <2>1. [i \in 0..0 |-> a] \in Runs(V, a, step, 0)
    BY DEF Runs
  <2> QED
    BY <2>1
<1>2. ASSUME NEW n \in T
      PROVE  n + 1 \in T
  <2>1. PICK g \in Runs(V, a, step, n) : TRUE
    OBVIOUS
  <2> DEFINE h == [i \in 0..(n + 1) |-> IF i = n + 1 THEN step[g[n]] ELSE g[i]]
  <2>2. n \in Nat /\ g \in [0..n -> V]
    BY DEF Runs
  <2>3. h \in [0..(n + 1) -> V]
    BY <2>2
  <2>4. ASSUME NEW i \in 1..(n + 1)
        PROVE  h[i] = step[h[i - 1]]
    <3>1. CASE i = n + 1
      BY <2>2, <3>1
    <3>2. CASE i # n + 1
      <4>1. i \in 1..n /\ i - 1 \in 0..n /\ i \in 0..(n + 1) /\ i - 1 \in 0..(n + 1) /\ i - 1 # n + 1
        BY <2>2, <3>2
      <4> QED
        BY <3>2, <4>1 DEF Runs
    <3> QED
      BY <3>1, <3>2
  <2>5. h[0] = a
    BY <2>2 DEF Runs
  <2>6. h \in Runs(V, a, step, n + 1)
    BY <2>3, <2>4, <2>5 DEF Runs
  <2> QED
    BY <2>2, <2>6
<1> HIDE DEF T
<1>3. T \in SUBSET Nat
  BY DEF T
<1>4. T = Nat
  BY <1>1, <1>2, <1>3, NatSets
<1> DEFINE G(n) == CHOOSE g : g \in Runs(V, a, step, n)
           f == [n \in Nat |-> G(n)[n]]
<1>5. \A n \in Nat : G(n) \in Runs(V, a, step, n)
  BY <1>4 DEF T
<1> HIDE DEF G
<1>6. \A n \in Nat : G(n) \in [0..n -> V] /\ G(n)[0] = a /\ n \in 0..n
  BY <1>5 DEF Runs
<1>7. f \in [Nat -> V] /\ f[0] = a
  BY <1>6
<1>8. ASSUME NEW n \in Nat \ {0}
      PROVE  f[n] = step[f[n - 1]]
  <2>1. n - 1 \in Nat /\ n - 1 <= n /\ n - 1 \in 0..(n - 1) /\ n \in 1..n /\ n \in Nat
    OBVIOUS
  <2>2. G(n - 1)[n - 1] = G(n)[n - 1]
    BY <1>5, <2>1, RunsAgree
  <2>3. G(n)[n] = step[G(n)[n - 1]]
    BY <1>5, <2>1 DEF Runs
  <2> QED
    BY <2>1, <2>2, <2>3
<1> QED
  BY <1>7, <1>8

\* A set of sessions with the ones they were rotated from.
Closed(C) == \A x \in C : sessions[x].parent \in C \cup {Null}

\* The least such set with s in it.
Line(s) == {x \in Request : \A C \in SUBSET Request : s \in C /\ Closed(C) => x \in C}

LEMMA ParentType ==
  ASSUME TypeOK, NEW x \in Request
  PROVE  sessions[x].parent \in Request \cup {Null}
BY DEF TypeOK, Session, NoRow

LEMMA LineIsClosed ==
  ASSUME TypeOK, NEW s \in Request
  PROVE  Closed(Line(s)) /\ s \in Line(s)
<1>1. ASSUME NEW x \in Line(s), sessions[x].parent # Null
      PROVE  sessions[x].parent \in Line(s)
  <2>1. x \in Request /\ sessions[x].parent \in Request
    BY <1>1, ParentType DEF Line
  <2>2. \A C \in SUBSET Request : s \in C /\ Closed(C) => sessions[x].parent \in C
    BY <1>1 DEF Line, Closed
  <2> QED
    BY <2>1, <2>2 DEF Line
<1> QED
  BY <1>1 DEF Closed, Line

\* The ancestors of a session are in every such set that has it.
LEMMA AncestorsInside ==
  ASSUME IsFiniteSet(Request), NEW s \in Request, NEW C \in SUBSET Request, s \in C, Closed(C)
  PROVE  AncestorsOrSelf(s) \subseteq C
<1> DEFINE V == SUBSET (C \cup {Null})
           More(X) == X \cup {sessions[p].parent : p \in X \ {Null}}
           step == [X \in V |-> More(X)]
           IsChain(g) == g = [n \in Nat |-> IF n = 0 THEN {s} ELSE More(g[n - 1])]
           chain == CHOOSE g : IsChain(g)
<1>1. \A X \in V : More(X) \in V
  BY DEF Closed
<1> HIDE DEF More
<1>2. step \in [V -> V] /\ {s} \in V
  BY <1>1
<1>3. PICK f \in [Nat -> V] : f[0] = {s} /\ \A n \in Nat \ {0} : f[n] = step[f[n - 1]]
  <2> HIDE DEF V, step
  <2> QED
    BY <1>2, Iteration
<1>4. IsChain(f)
  <2>1. ASSUME NEW n \in Nat
        PROVE  f[n] = IF n = 0 THEN {s} ELSE More(f[n - 1])
    <3>1. CASE n = 0
      BY <1>3, <3>1
    <3>2. CASE n # 0
      <4>1. n - 1 \in Nat /\ f[n - 1] \in V
        BY <3>2
      <4> QED
        BY <1>3, <3>2, <4>1
    <3> QED
      BY <3>1, <3>2
  <2>2. f = [n \in Nat |-> f[n]]
    OBVIOUS
  <2> QED
    BY <2>1, <2>2
<1>5. IsChain(chain)
  <2> HIDE DEF IsChain
  <2> QED
    BY <1>4
<1>6. /\ chain[0] = {s}
      /\ \A n \in Nat : chain[n + 1] = More(chain[n])
  <2> HIDE DEF chain
  <2>1. chain[0] = {s}
    BY <1>5
  <2>2. ASSUME NEW n \in Nat
        PROVE  chain[n + 1] = More(chain[n])
    <3>1. n + 1 \in Nat /\ n + 1 # 0 /\ (n + 1) - 1 = n
      OBVIOUS
    <3>2. \A m \in Nat : chain[m] = IF m = 0 THEN {s} ELSE More(chain[m - 1])
      BY <1>5
    <3>3. chain[n + 1] = More(chain[(n + 1) - 1])
      BY <3>1, <3>2
    <3> QED
      BY <3>1, <3>3
  <2> QED
    BY <2>1, <2>2
<1> DEFINE T == {n \in Nat : chain[n] \in V}
<1>7. T = Nat
  <2> HIDE DEF V, chain
  <2>1. 0 \in T
    BY <1>2, <1>6
  <2>2. ASSUME NEW n \in T
        PROVE  n + 1 \in T
    <3>1. n \in Nat /\ n + 1 \in Nat /\ chain[n] \in V
      OBVIOUS
    <3>2. chain[n + 1] = More(chain[n]) /\ More(chain[n]) \in V
      BY <1>1, <1>6, <3>1
    <3> QED
      BY <3>1, <3>2
  <2>3. T \in SUBSET Nat
    OBVIOUS
  <2> HIDE DEF T
  <2> QED
    BY <2>1, <2>2, <2>3, NatSets
<1>8. Cardinality(Request) \in Nat
  BY FS_CardinalityType
<1>9. AncestorsOrSelf(s) = chain[Cardinality(Request)] \ {Null}
  BY DEF AncestorsOrSelf, More
<1> HIDE DEF chain
<1> QED
  BY <1>7, <1>8, <1>9

\* Two sessions that have not been rotated go back to different logins.
LEMMA LinesApart ==
  ASSUME TypeOK, OnlyChildren, NEW s \in Request, NEW t \in Request, s # t,
         \A x \in Request : sessions[x].parent # s /\ sessions[x].parent # t
  PROVE  Line(s) \cap Line(t) = {}
<1> DEFINE rest == Line(s) \ Line(t)
<1>1. /\ Closed(Line(s)) /\ Closed(Line(t)) /\ s \in Line(s) /\ t \in Line(t)
      /\ Line(s) \subseteq Request /\ Line(t) \subseteq Request
  BY LineIsClosed DEF Line
<1>2. s \notin Line(t)
  <2>1. Closed(Line(t) \ {s}) /\ t \in Line(t) \ {s}
    BY <1>1 DEF Closed
  <2>2. Line(t) \ {s} \in SUBSET Request
    BY <1>1
  <2> QED
    BY <2>1, <2>2 DEF Line
<1>3. ASSUME NEW x \in rest, sessions[x].parent # Null
      PROVE  sessions[x].parent \notin Line(t)
  <2> DEFINE p == sessions[x].parent
  <2>1. p \in Request /\ p # t /\ x \in Request
    BY <1>1, <1>3, ParentType
  <2>2. \A y \in Line(t) : sessions[y].parent # p
    BY <1>1, <1>3, <2>1 DEF OnlyChildren
  <2>3. Closed(Line(t) \ {p}) /\ t \in Line(t) \ {p}
    BY <1>1, <2>1, <2>2 DEF Closed
  <2>4. Line(t) \ {p} \in SUBSET Request
    BY <1>1
  <2>5. p \notin Line(t)
    BY <2>3, <2>4 DEF Line
  <2> QED
    BY <2>5
<1>4. Closed(rest) /\ s \in rest
  BY <1>1, <1>2, <1>3 DEF Closed
<1>5. rest \in SUBSET Request
  BY <1>1
<1> HIDE DEF rest
<1>6. Line(s) \subseteq rest
  BY <1>4, <1>5 DEF Line
<1> QED
  BY <1>6 DEF rest

\* As long as requests come one at a time, a login has at most one live token;
\* a request has finitely many predecessors.
THEOREM OneLiveAlone ==
  ASSUME IsFiniteSet(Request)
  PROVE  AloneSpec => []OneLivePerLoginAlone
<1>1. ASSUME IInv, OnlyChildren, NEW s \in Request, NEW t \in Request, Live(s), Live(t), s # t
      PROVE  AncestorsOrSelf(s) \cap AncestorsOrSelf(t) = {}
  <2>1. TypeOK /\ ~Revoked(s) /\ ~Revoked(t)
    BY <1>1 DEF IInv, Live
  <2>2. \A x \in Request : sessions[x].parent # s /\ sessions[x].parent # t
    BY <1>1, <2>1, NoChildYet
  <2>3. Line(s) \cap Line(t) = {}
    BY <1>1, <2>1, <2>2, LinesApart
  <2>4. /\ Line(s) \in SUBSET Request /\ s \in Line(s) /\ Closed(Line(s))
        /\ Line(t) \in SUBSET Request /\ t \in Line(t) /\ Closed(Line(t))
    BY <2>1, LineIsClosed DEF Line
  <2>5. AncestorsOrSelf(s) \subseteq Line(s) /\ AncestorsOrSelf(t) \subseteq Line(t)
    BY <2>4, AncestorsInside
  <2> QED
    BY <2>3, <2>5
<1>2. IInv /\ SoloInv => OneLivePerLoginAlone
  BY <1>1 DEF SoloInv, OneLivePerLoginAlone, OneLivePerLogin
<1> QED
  BY <1>2, SoloInvariance, PTL
=============================================================================
