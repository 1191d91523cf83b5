---------------------------- MODULE ProjectsCache ----------------------------
(***************************************************************************)
(* The projects of organizations, and the cached list of each in Redis.    *)
(*                                                                         *)
(* ProjectsService.findAll fills the cache after it has read the rows; a   *)
(* write drops the cached list after its transaction has committed.  These *)
(* are calls to two stores with other requests in between, and either call *)
(* may fail.  A project is named by the request that creates it, and its   *)
(* contents by the request that last wrote it.  Guards and roles are those *)
(* of module Membership; here a guard only finds what is asked for.        *)
(***************************************************************************)
EXTENDS Integers, Sequences, FiniteSets

CONSTANTS Organization,
          Request,
          Old,         \* projects there are from the beginning
          Crashes,     \* whether a statement, Redis or the process may fail
          Null         \* no organization and no project

ASSUME CacheAssumption ==
  /\ Crashes \in BOOLEAN
  /\ Null \notin Organization \cup Request \cup Old
  /\ Request \cap Old = {}

VARIABLES
  project,  \* the Project rows
  removed,  \* the organizations that have been removed
  audit,    \* the AuditLog records about projects
  cache,    \* Redis: the entry under `projects:{organizationId}', or NoEntry
  pc,       \* what each request does next
  org,      \* the organization it is about
  target,   \* the project it changes
  list,     \* the list a reader has loaded or been served
  lists,    \* history: the lists each organization has had
  seen,     \* history: the version of its list a request was to see or made
  acked,    \* history: the version every answered write of it is part of
  excuse    \* history: why the entry may be outdated with no write to blame

rows == <<project, removed, audit, lists>>
vars == <<project, removed, audit, cache, pc, org, target, list, lists, seen,
          acked, excuse>>

-----------------------------------------------------------------------------

Id == Old \cup Request

Row == [org : Organization, writer : Id]
NoRow == [org |-> Null, writer |-> Null]

\* A project as a list shows it.
Item == [id : Id, writer : Id]

\* A cached list, and its TTL as Redis gives it: -1 for none, -2 for no entry.
Entry == [list : SUBSET Item, ttl : {60, -1}]
NoEntry == [list |-> {}, ttl |-> -2]

Record ==
  [action : {"PROJECT_CREATED", "PROJECT_UPDATED", "PROJECT_DELETED"},
   entityId : Id, by : Id]

Writing == {"create", "update", "remove", "invalidate"}
Running == Writing \cup {"get", "load", "store"}

TypeOK ==
  /\ project \in [Id -> Row \cup {NoRow}]
  /\ removed \subseteq Organization
  /\ audit \subseteq Record
  /\ cache \in [Organization -> Entry \cup {NoEntry}]
  /\ pc \in [Request -> {"new", "served", "done", "rejected"} \cup Running]
  /\ org \in [Request -> Organization \cup {Null}]
  /\ target \in [Request -> Id \cup {Null}]
  /\ list \in [Request -> SUBSET Item]
  /\ lists \in [Organization -> Seq(SUBSET Item)]
  /\ seen \in [Request -> Nat]
  /\ acked \in [Organization -> Nat]
  /\ excuse \in [Organization -> BOOLEAN]

Exists(p) == project[p] # NoRow
Cached(o) == cache[o] # NoEntry

\* The projects of an organization, in a table of rows; their order is left out.
ProjectsIn(table, o) ==
  {[id |-> p, writer |-> table[p].writer] : p \in {q \in Id : table[q].org = o}}

\* Mutant: the projects of every organization.
EveryProject(o) ==
  {[id |-> p, writer |-> project[p].writer] : p \in {q \in Id : Exists(q)}}

\* What findMany finds.
ProjectsOf(o) == ProjectsIn(project, o)

\* As history counts them, the first version is the initial one.
Version(o) == Len(lists[o])

Init ==
  /\ \E f \in [Old -> Organization] :
       project = [p \in Id |-> IF p \in Old THEN [org |-> f[p], writer |-> p] ELSE NoRow]
  /\ removed = {}
  /\ audit = {[action |-> "PROJECT_CREATED", entityId |-> p, by |-> p] : p \in Old}
  /\ cache = [o \in Organization |-> NoEntry]
  /\ pc = [r \in Request |-> "new"]
  /\ org = [r \in Request |-> Null]
  /\ target = [r \in Request |-> Null]
  /\ list = [r \in Request |-> {}]
  /\ lists = [o \in Organization |-> <<ProjectsOf(o)>>]
  /\ seen = [r \in Request |-> 0]
  /\ acked = [o \in Organization |-> 1]
  /\ excuse = [o \in Organization |-> FALSE]

MayStart(r) == pc[r] = "new"

Goto(r, label) == pc' = [pc EXCEPT ![r] = label]

\* A request that ends without a list forgets what it was about.
Finish(r, outcome) ==
  /\ Goto(r, outcome)
  /\ org' = [org EXCEPT ![r] = Null]
  /\ target' = [target EXCEPT ![r] = Null]

-----------------------------------------------------------------------------
(* GET /organizations/:organizationId/projects.                            *)

\* A member's request has passed OrganizationGuard.
BeginRead(r) ==
  /\ MayStart(r)
  /\ \E o \in Organization \ removed :
       /\ org' = [org EXCEPT ![r] = o]
       /\ seen' = [seen EXCEPT ![r] = acked[o]]
  /\ Goto(r, "get")
  /\ UNCHANGED <<rows, cache, target, list, acked, excuse>>

\* A hit is the answer; after a miss the rows are read.
Get(r) ==
  /\ pc[r] = "get"
  /\ \/ /\ Cached(org[r])
        /\ list' = [list EXCEPT ![r] = cache[org[r]].list]
        /\ Goto(r, "served")
     \/ /\ ~Cached(org[r])
        /\ Goto(r, "load")
        /\ UNCHANGED list
  /\ UNCHANGED <<rows, cache, org, target, seen, acked, excuse>>

Load(r) ==
  /\ pc[r] = "load"
  /\ list' = [list EXCEPT ![r] = ProjectsOf(org[r])]
  /\ Goto(r, "store")
  /\ UNCHANGED <<rows, cache, org, target, seen, acked, excuse>>

\* Mutant: RedisService.set.
SetForever(o, projects) ==
  [cache EXCEPT ![o] = [list |-> projects, ttl |-> -1]]

SetWithTtl(o, projects) ==
  [cache EXCEPT ![o] = [list |-> projects, ttl |-> 60]]

\* The list goes into the cache as it was when it was read.
Store(r) ==
  /\ pc[r] = "store"
  /\ cache' = SetWithTtl(org[r], list[r])
  /\ excuse' = [excuse EXCEPT ![org[r]] = list[r] # ProjectsOf(org[r])]
  /\ Goto(r, "served")
  /\ UNCHANGED <<rows, org, target, list, seen, acked>>

-----------------------------------------------------------------------------
(* The writes.                                                             *)

\* POST /organizations/:organizationId/projects, past its guards.
BeginCreate(r) ==
  /\ MayStart(r)
  /\ \E o \in Organization \ removed : org' = [org EXCEPT ![r] = o]
  /\ Goto(r, "create")
  /\ UNCHANGED <<rows, cache, target, list, seen, acked, excuse>>

\* PATCH and DELETE /projects/:projectId: ProjectGuard, and then the service,
\* have found the project.
BeginChange(r) ==
  /\ MayStart(r)
  /\ \E p \in Id :
       /\ Exists(p)
       /\ target' = [target EXCEPT ![r] = p]
       /\ org' = [org EXCEPT ![r] = project[p].org]
  /\ \E write \in {"update", "remove"} : Goto(r, write)
  /\ UNCHANGED <<rows, cache, list, seen, acked, excuse>>

\* Audited is AuditService.create with the transaction's client.
Audited(r, action, p) ==
  audit' = audit \cup {[action |-> action, entityId |-> p, by |-> r]}

\* The transaction of r has committed.
Committed(r) ==
  /\ lists' = [lists EXCEPT ![org[r]] = Append(@, ProjectsIn(project', org[r]))]
  /\ seen' = [seen EXCEPT ![r] = Version(org[r]) + 1]
  /\ Goto(r, "invalidate")
  /\ UNCHANGED <<removed, cache, org, target, list, acked, excuse>>

\* The foreign key holds the organization.
Create(r) ==
  /\ pc[r] = "create"
  /\ org[r] \notin removed
  /\ project' = [project EXCEPT ![r] = [org |-> org[r], writer |-> r]]
  /\ Audited(r, "PROJECT_CREATED", r)
  /\ Committed(r)

\* Mutant: a row that has gone is written again.
UpdateUnconditionally(r) ==
  /\ pc[r] = "update"
  /\ project' = [project EXCEPT ![target[r]].writer = r]
  /\ Audited(r, "PROJECT_UPDATED", target[r])
  /\ Committed(r)

\* Mutant: an update does not drop the cached list.
UpdateKeepsCache(r) ==
  /\ pc[r] = "update"
  /\ Exists(target[r])
  /\ project' = [project EXCEPT ![target[r]].writer = r]
  /\ Audited(r, "PROJECT_UPDATED", target[r])
  /\ lists' = [lists EXCEPT ![org[r]] = Append(@, ProjectsIn(project', org[r]))]
  /\ acked' = [acked EXCEPT ![org[r]] = Version(org[r]) + 1]
  /\ Finish(r, "done")
  /\ UNCHANGED <<removed, cache, list, seen, excuse>>

Update(r) ==
  /\ pc[r] = "update"
  /\ Exists(target[r])
  /\ project' = [project EXCEPT ![target[r]].writer = r]
  /\ Audited(r, "PROJECT_UPDATED", target[r])
  /\ Committed(r)

\* Mutant: the record is written whether or not there is a row to delete.
RemoveUnconditionally(r) ==
  /\ pc[r] = "remove"
  /\ project' = [project EXCEPT ![target[r]] = NoRow]
  /\ Audited(r, "PROJECT_DELETED", target[r])
  /\ Committed(r)

\* delete raises P2025 when the row is gone, and takes the record with it.
Remove(r) ==
  /\ pc[r] = "remove"
  /\ Exists(target[r])
  /\ project' = [project EXCEPT ![target[r]] = NoRow]
  /\ Audited(r, "PROJECT_DELETED", target[r])
  /\ Committed(r)

\* The row or the organization has gone since it was looked up.
Gone(r) ==
  /\ \/ pc[r] = "create" /\ org[r] \in removed
     \/ pc[r] \in {"update", "remove"} /\ ~Exists(target[r])
  /\ Finish(r, "rejected")
  /\ UNCHANGED <<rows, cache, list, seen, acked, excuse>>

\* Redis deletes the entry, and the write is answered.
Invalidate(r) ==
  /\ pc[r] = "invalidate"
  /\ cache' = [cache EXCEPT ![org[r]] = NoEntry]
  /\ excuse' = [excuse EXCEPT ![org[r]] = FALSE]
  /\ acked' = [acked EXCEPT ![org[r]] = IF seen[r] > @ THEN seen[r] ELSE @]
  /\ Finish(r, "done")
  /\ UNCHANGED <<rows, list, seen>>

\* OrganizationsService.remove: its projects go with it, its cached list stays.
RemoveOrganization(r) ==
  /\ MayStart(r)
  /\ \E o \in Organization \ removed :
       /\ removed' = removed \cup {o}
       /\ project' = [p \in Id |-> IF project[p].org = o THEN NoRow ELSE project[p]]
       /\ lists' = [lists EXCEPT ![o] = Append(@, {})]
       /\ acked' = [acked EXCEPT ![o] = Version(o) + 1]
       /\ excuse' = [excuse EXCEPT ![o] = TRUE]
  /\ Goto(r, "done")
  /\ UNCHANGED <<audit, cache, org, target, list, seen>>

-----------------------------------------------------------------------------

\* A guard, a validation or the database refuses.
Refuse(r) ==
  /\ MayStart(r)
  /\ Goto(r, "rejected")
  /\ UNCHANGED <<rows, cache, org, target, list, seen, acked, excuse>>

\* A statement or Redis fails, or the process dies: what has been committed
\* stays, and the cached list with it.
Fail(r) ==
  /\ Crashes
  /\ pc[r] \in Running
  /\ IF pc[r] = "invalidate" THEN excuse' = [excuse EXCEPT ![org[r]] = TRUE]
                             ELSE UNCHANGED excuse
  /\ Finish(r, "rejected")
  /\ UNCHANGED <<rows, cache, list, seen, acked>>

\* Redis drops an entry whose 60 seconds are over.
Expire(o) ==
  /\ Cached(o) /\ cache[o].ttl = 60
  /\ cache' = [cache EXCEPT ![o] = NoEntry]
  /\ excuse' = [excuse EXCEPT ![o] = FALSE]
  /\ UNCHANGED <<rows, pc, org, target, list, seen, acked>>

Proceed(r) ==
  \/ Get(r) \/ Load(r) \/ Store(r)
  \/ Create(r) \/ Update(r) \/ Remove(r) \/ Gone(r) \/ Invalidate(r)

Step(r) ==
  \/ BeginRead(r) \/ BeginCreate(r) \/ BeginChange(r)
  \/ RemoveOrganization(r)
  \/ Refuse(r)
  \/ Proceed(r)
  \/ Fail(r)

Next ==
  \/ \E r \in Request : Step(r)
  \/ \E o \in Organization : Expire(o)

Spec == Init /\ [][Next]_vars

\* Redis expires what has a TTL; a started request goes on.
Fairness ==
  /\ \A o \in Organization : WF_vars(Expire(o))
  /\ \A r \in Request : WF_vars(Proceed(r))

-----------------------------------------------------------------------------
(* Properties.                                                             *)

Stale(o) == Cached(o) /\ cache[o].list # ProjectsOf(o)

\* What is cached or answered is a list its organization really had: never a
\* project of another organization, nor half of what requests wrote.
ListsWereTrue ==
  /\ \A o \in Organization :
       Cached(o) => \E n \in 1..Version(o) : cache[o].list = lists[o][n]
  /\ \A r \in Request :
       pc[r] = "served" => \E n \in 1..Version(org[r]) : list[r] = lists[org[r]][n]

\* A cached list is outdated only while a write has committed and is about to
\* drop it, or because it was read before a write and stored after it, or the
\* drop failed, or the organization is gone: the order of the calls leaves no
\* other way.
StaleIsExplained ==
  \A o \in Organization : Stale(o) =>
    \/ excuse[o]
    \/ \E r \in Request : pc[r] = "invalidate" /\ org[r] = o

\* The audit log tells which projects there are: each was created once, and
\* was deleted, once, if it is not there, unless it went with its organization.
AuditTellsProjects ==
  \A p \in Id :
    LET made == {a \in audit : a.entityId = p /\ a.action = "PROJECT_CREATED"}
        gone == {a \in audit : a.entityId = p /\ a.action = "PROJECT_DELETED"}
    IN  /\ Cardinality(made) <= 1 /\ Cardinality(gone) <= 1
        /\ Exists(p) => made # {} /\ gone = {}
        /\ made # {} /\ gone = {} /\ removed = {} => Exists(p)

\* docs/redis.md:147-149.  A read that begins after a write was answered shows
\* that write.
ReadsAreFresh ==
  \A r \in Request : pc[r] = "served" =>
    \E n \in seen[r]..Version(org[r]) : list[r] = lists[org[r]][n]

\* Whatever was lost or overtaken, an outdated list does not stay for good.
StaleEnds == \A o \in Organization : Stale(o) ~> ~Stale(o)
=============================================================================
