------------------------------- MODULE Accounts -------------------------------
(***************************************************************************)
(* Users: AuthService.register and the first half of login, up to the      *)
(* session, and UsersService.                                              *)
(*                                                                         *)
(* bcrypt takes its time between the query that reads a row and the write: *)
(* names and addresses that were free are taken then, addresses change     *)
(* hands and passwords are replaced.  A row is never deleted, and the      *)
(* token of a caller carries the id of his.                                *)
(*                                                                         *)
(* A user is named by the request that registers him, and a password       *)
(* stands for its hash.                                                    *)
(***************************************************************************)
EXTENDS FiniteSets

CONSTANTS Username, Email, Password, Request,
          Old,  \* users there may be from the beginning
          Null  \* no user, name, address or password

ASSUME AccountsAssumption ==
  /\ Request \cap Old = {}
  /\ Null \notin Username \cup Email \cup Password \cup Request \cup Old

VARIABLES
  users,    \* the User rows
  sessions, \* whose session each login has created
  pc,       \* what each request does next
  args,     \* its endpoint and parameters; of a login, the user it found too
  during    \* history: address and password of every user since it began

vars == <<users, sessions, pc, args, during>>

-----------------------------------------------------------------------------

User == Old \cup Request
Row == [username : Username, email : Email, password : Password]
NoUser == [username |-> Null, email |-> Null, password |-> Null]

\* The fields a request gives; Null is a field of the DTO that is not there.
Fields(names, emails, olds, news) ==
  [username : names, email : emails, old : olds, new : news]
Given ==
  [Register |-> Fields(Username, Email, {Null}, Password),
   Update |-> Fields(Username \cup {Null}, Email \cup {Null}, {Null}, {Null}),
   ChangePassword |-> Fields({Null}, {Null}, Password, Password),
   Login |-> Fields({Null}, Email, Password, {Null})]
Op == DOMAIN Given

Nothing == [username |-> Null, email |-> Null, old |-> Null, new |-> Null]
Args == UNION {[op : {op}, user : User, dto : Given[op]] : op \in Op}
NoArgs == [op |-> "none", user |-> Null, dto |-> Nothing]

TypeOK ==
  /\ users \in [User -> Row \cup {NoUser}]
  /\ sessions \in [Request -> User \cup {Null}]
  /\ pc \in [Request -> {"new", "commit", "done"}]
  /\ args \in [Request -> Args \cup {NoArgs}]
  /\ during \in [Request -> SUBSET (User \X Email \X Password)]

Exists(u) == users[u] # NoUser
Holds(rows) ==
  {<<u, rows[u].email, rows[u].password>> : u \in {v \in User : rows[v] # NoUser}}

\* @unique on username and on email.
Keyed(rows) ==
  \A u, v \in User : rows[u] # NoUser /\ rows[v] # NoUser /\ u # v =>
    rows[u].username # rows[v].username /\ rows[u].email # rows[v].email

Init ==
  /\ users \in [User -> Row \cup {NoUser}]
  /\ \A u \in Request : ~Exists(u)
  /\ Keyed(users)
  /\ sessions = [r \in Request |-> Null]
  /\ pc = [r \in Request |-> "new"]
  /\ args = [r \in Request |-> NoArgs]
  /\ during = [r \in Request |-> {}]

\* An answer, of whatever kind.
Finish(r) ==
  /\ pc' = [pc EXCEPT ![r] = "done"]
  /\ args' = [args EXCEPT ![r] = NoArgs]
  /\ during' = [q \in Request |->
                  IF pc'[q] = "commit" THEN during[q] \cup Holds(users') ELSE {}]

-----------------------------------------------------------------------------
(* What a request looks up.                                                *)

\* Mutant: whoever is found by the address is let in.
VerifiesAll(u, password) == TRUE

\* bcrypt.compare.
Verifies(u, password) == users[u].password = password

\* register finds no user with the name or the address; login finds one by the
\* address; changePassword reads the caller's row; update reads nothing.
Passes(a) ==
  CASE a.op = "Register" ->
         \A u \in User : users[u].username # a.dto.username /\ users[u].email # a.dto.email
    [] a.op = "Update" -> Exists(a.user)
    [] a.op = "ChangePassword" -> Exists(a.user) /\ Verifies(a.user, a.dto.old)
    [] a.op = "Login" ->
         Exists(a.user) /\ users[a.user].email = a.dto.email /\ Verifies(a.user, a.dto.old)

Begin(r) ==
  /\ pc[r] = "new"
  /\ \E a \in Args :
       /\ a.op = "Register" <=> a.user = r
       /\ Passes(a)
       /\ args' = [args EXCEPT ![r] = a]
  /\ pc' = [pc EXCEPT ![r] = "commit"]
  /\ during' = [during EXCEPT ![r] = Holds(users)]
  /\ UNCHANGED <<users, sessions>>

\* The lookup or bcrypt refuses.
Refuse(r) ==
  /\ pc[r] = "new"
  /\ UNCHANGED <<users, sessions>>
  /\ Finish(r)

-----------------------------------------------------------------------------
(* What it writes.                                                         *)

Ready(r, op) == pc[r] = "commit" /\ args[r].op = op

\* Mutant: a value that is not given empties the column.
OrBlank(value, column) == value

\* A value that is not given leaves the column as it is.
Or(value, column) == IF value = Null THEN column ELSE value

\* user.create or user.update, unless a key is taken (P2002).
Write(r, row) ==
  /\ users' = [users EXCEPT ![args[r].user] = row]
  /\ Keyed(users')
  /\ UNCHANGED sessions
  /\ Finish(r)

Register(r) ==
  LET dto == args[r].dto IN
  /\ Ready(r, "Register")
  /\ Write(r, [username |-> dto.username, email |-> dto.email, password |-> dto.new])

Update(r) ==
  LET dto == args[r].dto
      row == users[args[r].user]
  IN
  /\ Ready(r, "Update")
  /\ Write(r, [row EXCEPT !.username = Or(dto.username, @), !.email = Or(dto.email, @)])

ChangePassword(r) ==
  /\ Ready(r, "ChangePassword")
  /\ Write(r, [users[args[r].user] EXCEPT !.password = args[r].dto.new])

\* The session is of the user whose row was read.
Login(r) ==
  /\ Ready(r, "Login")
  /\ sessions' = [sessions EXCEPT ![r] = args[r].user]
  /\ UNCHANGED users
  /\ Finish(r)

\* A key is taken, a statement fails or the process dies.
Fail(r) ==
  /\ pc[r] = "commit"
  /\ UNCHANGED <<users, sessions>>
  /\ Finish(r)

-----------------------------------------------------------------------------

Step(r) ==
  \/ Begin(r) \/ Refuse(r)
  \/ Register(r) \/ Update(r) \/ ChangePassword(r) \/ Login(r)
  \/ Fail(r)

Next == \E r \in Request : Step(r)

Spec == Init /\ [][Next]_vars

-----------------------------------------------------------------------------
(* Properties.                                                             *)

\* A login opens a session of the user who had the address and the password at
\* one moment while it ran, both at once: not of one who has taken the address
\* over, nor on a password replaced before.  A password is replaced only by who
\* gave one that was the user's while the request ran: what another change has
\* set since may be lost, but nothing that was set before the request.
ProvenByPassword ==
  [][\A r \in Request :
       LET a == args[r] IN
       /\ sessions'[r] # sessions[r] =>
            <<sessions'[r], a.dto.email, a.dto.old>> \in during[r]
       /\ Ready(r, "ChangePassword") /\ users' # users /\ pc'[r] = "done" =>
            \E e \in Email : <<a.user, e, a.dto.old>> \in during[r]]_vars
=============================================================================
