---------------------------- MODULE AccountsProofs ----------------------------
(***************************************************************************)
(* A session or a new password is only for who proved the old one while    *)
(* the request ran, for any users and requests.                            *)
(***************************************************************************)
EXTENDS Accounts, TLAPS

\* What was looked up still holds of the past, if no longer of the rows.
RequestOK(r) ==
  LET a == args[r] IN
  pc[r] = "commit" =>
    /\ a \in Args
    /\ a.op \in {"Update", "ChangePassword"} => Exists(a.user)
    /\ a.op = "Login" => <<a.user, a.dto.email, a.dto.old>> \in during[r]
    /\ a.op = "ChangePassword" => \E e \in Email : <<a.user, e, a.dto.old>> \in during[r]

IInv ==
  /\ TypeOK
  /\ \A r \in Request : RequestOK(r)

-----------------------------------------------------------------------------
(* Parameters and rows.                                                    *)

LEMMA ArgsFields ==
  ASSUME NEW a \in Args
  PROVE  /\ a.op \in {"Register", "Update", "ChangePassword", "Login"}
         /\ a.user \in User
         /\ a.op = "Register" =>
              a.dto.username \in Username /\ a.dto.email \in Email /\ a.dto.new \in Password
         /\ a.op = "Update" =>
              a.dto.username \in Username \cup {Null} /\ a.dto.email \in Email \cup {Null}
         /\ a.op = "ChangePassword" => a.dto.old \in Password /\ a.dto.new \in Password
         /\ a.op = "Login" => a.dto.email \in Email /\ a.dto.old \in Password
<1>1. PICK op \in Op : a \in [op : {op}, user : User, dto : Given[op]]
  BY DEF Args
<1>2. op \in {"Register", "Update", "ChangePassword", "Login"}
  BY DEF Op, Given
<1>3. a.op = op /\ a.user \in User /\ a.dto \in Given[op]
  BY <1>1
<1>4. /\ op = "Register" => a.dto \in Fields(Username, Email, {Null}, Password)
      /\ op = "Update" => a.dto \in Fields(Username \cup {Null}, Email \cup {Null}, {Null}, {Null})
      /\ op = "ChangePassword" => a.dto \in Fields({Null}, {Null}, Password, Password)
      /\ op = "Login" => a.dto \in Fields({Null}, Email, Password, {Null})
  BY <1>2, <1>3 DEF Given
<1> QED
  BY <1>2, <1>3, <1>4 DEF Fields

LEMMA NoUserIsNoRow == NoUser \notin Row
BY AccountsAssumption DEF NoUser, Row

LEMMA RowsHeld ==
  ASSUME TypeOK
  PROVE  /\ Holds(users) \subseteq User \X Email \X Password
         /\ \A u \in User : Exists(u) => <<u, users[u].email, users[u].password>> \in Holds(users)
<1>1. \A u \in User : Exists(u) => users[u] \in Row
  BY DEF TypeOK, Exists
<1> QED
  BY <1>1 DEF Holds, Row, Exists

-----------------------------------------------------------------------------
(* The effect of each action.                                              *)

\* A row is written in its place, whole.
LEMMA WriteEffect ==
  ASSUME TypeOK, NEW r \in Request, NEW row \in Row, args[r].user \in User, Write(r, row)
  PROVE  /\ users' \in [User -> Row \cup {NoUser}]
         /\ \A u \in User : users[u] # NoUser => users'[u] # NoUser
         /\ sessions' = sessions
         /\ Finish(r)
BY NoUserIsNoRow DEF TypeOK, Write

LEMMA RowsWritten ==
  ASSUME IInv, NEW r \in Request, Register(r) \/ Update(r) \/ ChangePassword(r)
  PROVE  \E row \in Row : args[r].user \in User /\ Write(r, row)
<1>1. /\ RequestOK(r) /\ pc[r] = "commit"
      /\ users \in [User -> Row \cup {NoUser}]
  BY DEF IInv, TypeOK, Register, Update, ChangePassword, Ready
<1>2. args[r] \in Args
  BY <1>1 DEF RequestOK
<1>3. CASE Register(r)
  <2>1. [username |-> args[r].dto.username, email |-> args[r].dto.email,
         password |-> args[r].dto.new] \in Row
    BY <1>2, <1>3, ArgsFields DEF Register, Ready, Row
  <2> QED
    BY <1>2, <1>3, <2>1, ArgsFields DEF Register
<1>4. CASE Update(r)
  <2>1. args[r].user \in User /\ users[args[r].user] \in Row
    BY <1>1, <1>2, <1>4, ArgsFields DEF RequestOK, Exists, Update, Ready
  <2> DEFINE dto == args[r].dto
             row == users[args[r].user]
  <2>2. Or(dto.username, row.username) \in Username /\ Or(dto.email, row.email) \in Email
    BY <1>2, <1>4, <2>1, ArgsFields DEF Or, Row, Update, Ready
  <2>3. [row EXCEPT !.username = Or(dto.username, @), !.email = Or(dto.email, @)] \in Row
    BY <2>1, <2>2 DEF Row
  <2> QED
    BY <1>4, <2>1, <2>3 DEF Update
<1>5. CASE ChangePassword(r)
  <2>1. args[r].user \in User /\ users[args[r].user] \in Row /\ args[r].dto.new \in Password
    BY <1>1, <1>2, <1>5, ArgsFields DEF RequestOK, Exists, ChangePassword, Ready
  <2>2. [users[args[r].user] EXCEPT !.password = args[r].dto.new] \in Row
    BY <2>1 DEF Row
  <2> QED
    BY <1>5, <2>1, <2>2 DEF ChangePassword
<1> QED
  BY <1>3, <1>4, <1>5

\* The rows after any step: of the right form, none gone.
RowsOK ==
  /\ users' \in [User -> Row \cup {NoUser}]
  /\ \A u \in User : users[u] # NoUser => users'[u] # NoUser

LEMMA RowsKept ==
  ASSUME IInv, NEW r \in Request, Step(r)
  PROVE  RowsOK
<1>1. TypeOK
  BY DEF IInv
<1>2. CASE users' = users
  BY <1>1, <1>2 DEF RowsOK, TypeOK
<1>3. CASE Register(r) \/ Update(r) \/ ChangePassword(r)
  BY <1>1, <1>3, RowsWritten, WriteEffect DEF RowsOK
<1> QED
  BY <1>2, <1>3 DEF Step, Begin, Refuse, Login, Fail

\* A request either begins, or is answered and leaves no trace of itself.
LEMMA StepOrFinish ==
  ASSUME IInv, NEW r \in Request, Step(r)
  PROVE  Begin(r) \/ Finish(r)
BY RowsWritten, WriteEffect DEF Step, Refuse, Login, Fail, IInv

\* A session is created for who was found.
LEMMA SessionsOnlyByLogin ==
  ASSUME IInv, NEW r \in Request, Step(r)
  PROVE  \/ sessions' = sessions
         \/ Login(r) /\ args[r].user \in User /\ sessions' = [sessions EXCEPT ![r] = args[r].user]
<1>1. CASE Login(r)
  <2>1. args[r] \in Args
    BY <1>1 DEF IInv, RequestOK, Login, Ready
  <2> QED
    BY <1>1, <2>1, ArgsFields DEF Login
<1>2. CASE Register(r) \/ Update(r) \/ ChangePassword(r)
  BY <1>2, RowsWritten, WriteEffect DEF IInv
<1> QED
  BY <1>1, <1>2 DEF Step, Begin, Refuse, Fail

LEMMA TypeKept ==
  ASSUME IInv, NEW r \in Request, Step(r)
  PROVE  TypeOK'
<1>1. TypeOK
  BY DEF IInv
<1>2. users' \in [User -> Row \cup {NoUser}]
  BY RowsKept DEF RowsOK
<1>3. sessions' \in [Request -> User \cup {Null}]
  BY <1>1, SessionsOnlyByLogin DEF TypeOK
<1>4. /\ pc' \in [Request -> {"new", "commit", "done"}]
      /\ args' \in [Request -> Args \cup {NoArgs}]
  BY <1>1, StepOrFinish DEF TypeOK, Begin, Finish
<1>5. Holds(users') \subseteq User \X Email \X Password
  <2>1. \A u \in User : users'[u] # NoUser => users'[u] \in Row
    BY <1>2
  <2> QED
    BY <2>1 DEF Holds, Row
<1>6. during' \in [Request -> SUBSET (User \X Email \X Password)]
  <2>1. CASE Begin(r)
    BY <1>1, <2>1, RowsHeld DEF TypeOK, Begin
  <2>2. CASE Finish(r)
    BY <1>1, <1>5, <2>2 DEF TypeOK, Finish
  <2> QED
    BY <2>1, <2>2, StepOrFinish
<1> QED
  BY <1>2, <1>3, <1>4, <1>6 DEF TypeOK

\* What a request has passed, it keeps: the history only grows while it runs.
LEMMA RequestsKept ==
  ASSUME IInv, NEW r \in Request, Step(r), NEW q \in Request
  PROVE  RequestOK(q)'
<1>1. TypeOK /\ RequestOK(q)
  BY DEF IInv
<1>2. SUFFICES ASSUME pc'[q] = "commit"
               PROVE  RequestOK(q)'
  BY DEF RequestOK
<1>3. CASE Begin(r) /\ q = r
  <2>1. PICK a \in Args : Passes(a) /\ args' = [args EXCEPT ![r] = a]
    BY <1>3 DEF Begin
  <2>2. args'[q] = a /\ during'[q] = Holds(users) /\ users' = users
    BY <1>1, <1>3, <2>1 DEF Begin, TypeOK
  <2>3. a.user \in User
    BY <2>1, ArgsFields
  <2>4. a.op \in {"Update", "ChangePassword"} => Exists(a.user)
    BY <2>1 DEF Passes
  <2>5. a.op = "Login" => <<a.user, a.dto.email, a.dto.old>> \in Holds(users)
    BY <1>1, <2>1, <2>3, RowsHeld DEF Passes, Verifies
  <2>6. ASSUME a.op = "ChangePassword"
        PROVE  \E e \in Email : <<a.user, e, a.dto.old>> \in Holds(users)
    <3>1. Exists(a.user) /\ users[a.user].password = a.dto.old
      BY <2>1, <2>6 DEF Passes, Verifies
    <3>2. users[a.user] \in Row
      BY <1>1, <2>3, <3>1 DEF TypeOK, Exists
    <3> QED
      BY <1>1, <2>3, <3>1, <3>2, RowsHeld DEF Row
  <2> QED
    BY <2>1, <2>2, <2>4, <2>5, <2>6 DEF RequestOK, Exists
<1>4. CASE ~(Begin(r) /\ q = r)
  <2>1. /\ pc[q] = "commit"
        /\ args'[q] = args[q]
        /\ during[q] \subseteq during'[q]
    BY <1>1, <1>2, <1>4, StepOrFinish DEF TypeOK, Begin, Finish
  <2>2. args[q].user \in User
    BY <1>1, <2>1, ArgsFields DEF RequestOK
  <2>3. Exists(args[q].user) => users'[args[q].user] # NoUser
    BY <2>2, RowsKept DEF RowsOK, Exists
  <2> QED
    BY <1>1, <2>1, <2>3 DEF RequestOK, Exists
<1> QED
  BY <1>3, <1>4

-----------------------------------------------------------------------------
(* The theorems.                                                           *)

LEMMA InitInvariant == Init => IInv
BY DEF Init, IInv, TypeOK, RequestOK

LEMMA NextInvariant == IInv /\ [Next]_vars => IInv'
<1> SUFFICES ASSUME IInv, [Next]_vars
             PROVE  IInv'
  OBVIOUS
<1>1. CASE Next
  <2>1. PICK r \in Request : Step(r)
    BY <1>1 DEF Next
  <2> QED
    BY <2>1, TypeKept, RequestsKept DEF IInv
<1>2. CASE UNCHANGED vars
  BY <1>2 DEF IInv, vars, TypeOK, RequestOK, Exists
<1> QED
  BY <1>1, <1>2

LEMMA Invariance == Spec => []IInv
BY InitInvariant, NextInvariant, PTL DEF Spec

\* Users, sessions and requests are always what the code can make them.
THEOREM TypeCorrect == Spec => []TypeOK
<1>1. IInv => TypeOK
  BY DEF IInv
<1> QED
  BY <1>1, Invariance, PTL

\* bcrypt's answer is about a row that may have changed when it comes; yet no
\* login opens a session, and no change replaces a password, for anyone but who
\* had proved, while the request ran, to be the user.
THEOREM Proven == Spec => ProvenByPassword
<1> DEFINE A == \A r \in Request :
       LET a == args[r] IN
       /\ sessions'[r] # sessions[r] =>
            <<sessions'[r], a.dto.email, a.dto.old>> \in during[r]
       /\ Ready(r, "ChangePassword") /\ users' # users /\ pc'[r] = "done" =>
            \E e \in Email : <<a.user, e, a.dto.old>> \in during[r]
<1>1. ASSUME IInv, Next
      PROVE  A
  <2>1. PICK q \in Request : Step(q)
    BY <1>1 DEF Next
  <2>2. ASSUME NEW r \in Request, sessions'[r] # sessions[r]
        PROVE  <<sessions'[r], args[r].dto.email, args[r].dto.old>> \in during[r]
    <3>1. r = q /\ Login(r) /\ sessions'[r] = args[r].user
      BY <1>1, <2>1, <2>2, SessionsOnlyByLogin DEF IInv, TypeOK
    <3> QED
      BY <1>1, <3>1 DEF IInv, RequestOK, Login, Ready
  <2>3. ASSUME NEW r \in Request, Ready(r, "ChangePassword")
        PROVE  \E e \in Email : <<args[r].user, e, args[r].dto.old>> \in during[r]
    BY <1>1, <2>3 DEF IInv, RequestOK, Ready
  <2> QED
    BY <2>2, <2>3
<1>2. ASSUME IInv, UNCHANGED vars
      PROVE  [A]_vars
  BY <1>2
<1>3. IInv /\ [Next]_vars => [A]_vars
  BY <1>1, <1>2
<1> QED
  BY <1>3, Invariance, PTL DEF Spec, ProvenByPassword
=============================================================================
