------------------------------- MODULE Sessions -------------------------------
(***************************************************************************)
(* Refresh-token sessions, as AuthService creates, rotates and revokes     *)
(* them.                                                                   *)
(*                                                                         *)
(* Tokens are random and stored by their hash under a unique key, so a     *)
(* token names one session; a session is named here by the request that    *)
(* creates it.  A request reads a row and writes it after an await: other  *)
(* requests run in between, the process may die there, and the answer that *)
(* carries the new token may never arrive.  `new Date()' is taken to be    *)
(* the time of the statement it is part of.                                *)
(***************************************************************************)
EXTENDS Integers, FiniteSets

CONSTANTS User, Request,
          Lifetime,    \* refreshToken.expiresIn
          MaxTime,     \* bound on the clock
          Null         \* the id of no session and of no user

ASSUME SessionsAssumption ==
  /\ Lifetime \in Nat
  /\ MaxTime \in Nat
  /\ Null \notin User \cup Request

VARIABLES
  now,       \* the time
  sessions,  \* the Session row each request has created, or NoRow
  lastLogin, \* User.lastLogin
  pc,        \* what each request does next
  token,     \* the session whose token the request presented
  swept,     \* per user, the sessions there were when all were last revoked
  inFlight   \* and the rotations that were on their way (both history)

vars == <<now, sessions, lastLogin, pc, token, swept, inFlight>>

-----------------------------------------------------------------------------

\* revokedAt = null.
NotRevoked == -1

\* parent is history: the session a rotation consumed.
Session == [user : User, expiresAt : Nat, revokedAt : Nat \cup {NotRevoked},
            parent : Request \cup {Null}]

NoRow ==
  [user |-> Null, expiresAt |-> 0, revokedAt |-> NotRevoked, parent |-> Null]

Running == {"stamp", "rotate", "sweep", "revoke", "answer"}

TypeOK ==
  /\ now \in 0..MaxTime
  /\ sessions \in [Request -> Session \cup {NoRow}]
  /\ lastLogin \in [User -> 0..MaxTime]
  /\ pc \in [Request -> {"new", "done", "rejected", "failed"} \cup Running]
  /\ token \in [Request -> Request \cup {Null}]
  /\ swept \in [User -> SUBSET Request]
  /\ inFlight \in [User -> SUBSET Request]

Exists(s) == sessions[s] # NoRow
SessionsOf(u) == {s \in Request : Exists(s) /\ sessions[s].user = u}
Revoked(s) == sessions[s].revokedAt # NotRevoked
Expired(s) == sessions[s].expiresAt <= now
Live(s) == Exists(s) /\ ~Revoked(s) /\ ~Expired(s)

\* Sessions whose token a client has: the answer that carries it has arrived.
Delivered == {s \in Request : Exists(s) /\ pc[s] = "done"}

Init ==
  /\ now = 0
  /\ sessions = [r \in Request |-> NoRow]
  /\ lastLogin = [u \in User |-> 0]
  /\ pc = [r \in Request |-> "new"]
  /\ token = [r \in Request |-> Null]
  /\ swept = [u \in User |-> {}]
  /\ inFlight = [u \in User |-> {}]

MayStart(r) == pc[r] = "new"

Goto(r, label) == pc' = [pc EXCEPT ![r] = label]

Finish(r, outcome) ==
  Goto(r, outcome) /\ token' = [token EXCEPT ![r] = Null]

\* Mutant: the lifetime is taken off.
NewSessionExpired(u, parent) ==
  [user |-> u, expiresAt |-> now - Lifetime, revokedAt |-> NotRevoked,
   parent |-> parent]

\* generateTokenPair, and the row it makes.
NewSession(u, parent) ==
  [user |-> u, expiresAt |-> now + Lifetime, revokedAt |-> NotRevoked,
   parent |-> parent]

\* Mutant: every session, whoever's.
RevokeAllOfEveryone(ids) ==
  [s \in Request |-> IF Exists(s) THEN [sessions[s] EXCEPT !.revokedAt = now]
                                  ELSE sessions[s]]

\* revokedAt of the sessions ids becomes the time, revoked before or not.
Revoke(ids) ==
  [s \in Request |-> IF s \in ids THEN [sessions[s] EXCEPT !.revokedAt = now]
                                  ELSE sessions[s]]

\* History: all sessions of u have just been revoked.
Remember(u) ==
  /\ swept' = [swept EXCEPT ![u] = SessionsOf(u)]
  /\ inFlight' = [inFlight EXCEPT ![u] =
                    {q \in Request : pc[q] = "rotate" /\ sessions[token[q]].user = u}]

-----------------------------------------------------------------------------
(* POST /auth/login, with the right password.                              *)

LoginCreate(r) ==
  /\ MayStart(r)
  /\ \E u \in User : sessions' = [sessions EXCEPT ![r] = NewSession(u, Null)]
  /\ Goto(r, "stamp")
  /\ UNCHANGED <<now, lastLogin, token, swept, inFlight>>

LoginStamp(r) ==
  /\ pc[r] = "stamp"
  /\ lastLogin' = [lastLogin EXCEPT ![sessions[r].user] = now]
  /\ Goto(r, "answer")
  /\ UNCHANGED <<now, sessions, token, swept, inFlight>>

-----------------------------------------------------------------------------
(* POST /auth/refresh.                                                     *)

\* What a refresh does with the session it found.
NextOfRefresh(s) ==
  CASE Revoked(s) -> "sweep"
    [] ~Revoked(s) /\ Expired(s) -> "rejected"
    [] OTHER -> "rotate"

\* The session is found by the hash of the token.
RefreshFind(r) ==
  /\ MayStart(r)
  /\ \E s \in Delivered :
       /\ Goto(r, NextOfRefresh(s))
       /\ token' = [token EXCEPT ![r] =
                      IF NextOfRefresh(s) = "rejected" THEN Null ELSE s]
  /\ UNCHANGED <<now, sessions, lastLogin, swept, inFlight>>

\* Mutant: the old session is left alone.
RefreshRotateKeepsOld(r) ==
  LET s == token[r] IN
  /\ pc[r] = "rotate"
  /\ sessions' = [sessions EXCEPT ![r] = NewSession(sessions[s].user, s)]
  /\ Finish(r, "answer")
  /\ UNCHANGED <<now, lastLogin, swept, inFlight>>

\* One transaction: the old session is revoked by id, whatever has happened
\* to it, and the new one is created.
RefreshRotate(r) ==
  LET s == token[r] IN
  /\ pc[r] = "rotate"
  /\ sessions' = [Revoke({s}) EXCEPT ![r] = NewSession(sessions[s].user, s)]
  /\ Finish(r, "answer")
  /\ UNCHANGED <<now, lastLogin, swept, inFlight>>

\* Mutant: only the session of the token that was replayed.
RefreshSweepOnlyToken(r) ==
  LET u == sessions[token[r]].user IN
  /\ pc[r] = "sweep"
  /\ sessions' = Revoke({token[r]})
  /\ Remember(u)
  /\ Finish(r, "rejected")
  /\ UNCHANGED <<now, lastLogin>>

\* A revoked token was presented: everything of its user that is active is
\* revoked, and the request is refused.
RefreshSweep(r) ==
  LET u == sessions[token[r]].user IN
  /\ pc[r] = "sweep"
  /\ sessions' = Revoke({s \in SessionsOf(u) : ~Revoked(s)})
  /\ Remember(u)
  /\ Finish(r, "rejected")
  /\ UNCHANGED <<now, lastLogin>>

-----------------------------------------------------------------------------
(* POST /auth/logout and /auth/logout-all.                                 *)

LogoutFind(r) ==
  /\ MayStart(r)
  /\ \E s \in Delivered : Live(s) /\ token' = [token EXCEPT ![r] = s]
  /\ Goto(r, "revoke")
  /\ UNCHANGED <<now, sessions, lastLogin, swept, inFlight>>

LogoutRevoke(r) ==
  /\ pc[r] = "revoke"
  /\ sessions' = Revoke({token[r]})
  /\ Finish(r, "done")
  /\ UNCHANGED <<now, lastLogin, swept, inFlight>>

\* Mutant: a session that has been rotated into is overlooked.
LogoutAllRootsOnly(r) ==
  /\ MayStart(r)
  /\ \E u \in User :
       /\ sessions' = Revoke({s \in SessionsOf(u) : sessions[s].parent = Null})
       /\ Remember(u)
  /\ Finish(r, "done")
  /\ UNCHANGED <<now, lastLogin>>

\* One statement; the caller is known by an access token, which stays valid
\* after its session has ended.
LogoutAll(r) ==
  /\ MayStart(r)
  /\ \E u \in User : sessions' = Revoke(SessionsOf(u)) /\ Remember(u)
  /\ Finish(r, "done")
  /\ UNCHANGED <<now, lastLogin>>

-----------------------------------------------------------------------------

\* A wrong password, an unknown token, a token that logout does not accept.
Unauthorized(r) ==
  /\ MayStart(r)
  /\ Finish(r, "rejected")
  /\ UNCHANGED <<now, sessions, lastLogin, swept, inFlight>>

\* The answer arrives.
Answer(r) ==
  /\ pc[r] = "answer"
  /\ Finish(r, "done")
  /\ UNCHANGED <<now, sessions, lastLogin, swept, inFlight>>

\* A statement fails, the process dies, or the answer is lost.
Fail(r) ==
  /\ pc[r] \in Running
  /\ Finish(r, "failed")
  /\ UNCHANGED <<now, sessions, lastLogin, swept, inFlight>>

Tick ==
  /\ now < MaxTime
  /\ now' = now + 1
  /\ UNCHANGED <<sessions, lastLogin, pc, token, swept, inFlight>>

\* The steps of a request that has started.
Proceed(r) ==
  \/ LoginStamp(r)
  \/ RefreshRotate(r)
  \/ RefreshSweep(r)
  \/ LogoutRevoke(r)
  \/ Answer(r)

Step(r) ==
  \/ LoginCreate(r)
  \/ RefreshFind(r)
  \/ LogoutFind(r)
  \/ LogoutAll(r)
  \/ Unauthorized(r)
  \/ Proceed(r)
  \/ Fail(r)

Next == Tick \/ \E r \in Request : Step(r)

Spec == Init /\ [][Next]_vars

\* A started request goes on: Node resumes it when its statement returns.
FairSpec == Spec /\ \A r \in Request : WF_vars(Proceed(r))

-----------------------------------------------------------------------------
(* Properties.                                                             *)

Children(s) == {r \in Request : Exists(r) /\ sessions[r].parent = s}

\* The login a session goes back to, by at most as many rotations as there
\* are requests.
AncestorsOrSelf(s) ==
  LET chain[n \in Nat] == IF n = 0 THEN {s}
        ELSE chain[n - 1] \cup {sessions[p].parent : p \in chain[n - 1] \ {Null}}
  IN  chain[Cardinality(Request)] \ {Null}

\* A token that has been exchanged is dead for good, whatever crashes or
\* answers are lost: rotation revokes the old session with the creation of
\* the new one, so a replay of it is always noticed.
RotationConsumesParent ==
  \A s \in Request : Children(s) # {} => Exists(s) /\ Revoked(s)

\* After all sessions of a user were revoked, the ones there were stay
\* revoked, and a session that is still made from one of them is the work of
\* a rotation that was on its way at that moment: nothing that starts later
\* revives what was closed.
SweepLeavesOnlyInFlight ==
  \A u \in User :
    /\ \A s \in swept[u] : Revoked(s)
    /\ \A s \in SessionsOf(u) \ swept[u] :
         sessions[s].parent \in swept[u] => s \in inFlight[u]

\* No step touches sessions of two users: refreshing, logging out or having
\* a replay noticed never ends a session of someone else.
OneUserPerStep ==
  [][\A s, t \in {x \in Request : sessions'[x] # sessions[x]} :
       sessions'[s].user = sessions'[t].user]_vars

\* README.md:16.  A refresh token is exchanged at most once.
SingleUse == \A s \in Request : Cardinality(Children(s)) <= 1

\* A login has at most one live token at any time, through rotations, replays, crashes and lost answers.
OneLivePerLogin ==
  \A s, t \in Request :
    Live(s) /\ Live(t) /\ AncestorsOrSelf(s) \cap AncestorsOrSelf(t) # {} => s = t

\* A replay of a revoked token, once noticed, ends every session that is live
\* at that moment, provided the request that noticed it does not die.
ReplayEndsSessions ==
  \A r, s \in Request :
    (pc[r] = "sweep" /\ Live(s) /\ sessions[s].user = sessions[token[r]].user)
      ~> ((Exists(s) /\ Revoked(s)) \/ pc[r] = "failed")
=============================================================================
