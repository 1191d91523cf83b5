------------------------- MODULE ProjectsCacheProofs -------------------------
(***************************************************************************)
(* What holds of ProjectsCache for any organizations, projects and         *)
(* requests.                                                               *)
(***************************************************************************)
EXTENDS ProjectsCache, SequenceTheorems, FiniteSetTheorems, TLAPS

\* l is a list organization o has had.
WasList(o, l) == \E n \in 1..Version(o) : l = lists[o][n]

\* What a request is about while it runs: a creator has no project yet, and
\* the project a change is for was created, in the organization it was found in.
RequestOK(r) ==
  /\ pc[r] \in Running \cup {"served"} => org[r] \in Organization
  /\ pc[r] \in {"new", "create"} => project[r] = NoRow
  /\ pc[r] \in {"update", "remove"} =>
       /\ target[r] \in Id
       /\ target[r] \in Request => pc[target[r]] \notin {"new", "create"}
       /\ Exists(target[r]) => project[target[r]].org = org[r]
  /\ pc[r] \in {"store", "served"} => WasList(org[r], list[r])

\* The last list of the history is the one of now.
HistoryOK(o) == Version(o) \in Nat \ {0} /\ lists[o][Version(o)] = ProjectsOf(o)

EntryOK(o) ==
  /\ Cached(o) => WasList(o, cache[o].list)
  /\ Stale(o) => \/ excuse[o]
                 \/ \E r \in Request : pc[r] = "invalidate" /\ org[r] = o

IInv ==
  /\ TypeOK
  /\ \A r \in Request : RequestOK(r)
  /\ \A o \in Organization : HistoryOK(o) /\ EntryOK(o)

-----------------------------------------------------------------------------

LEMMA ConstantFacts ==
  /\ Id = Old \cup Request
  /\ Null \notin Organization
  /\ NoRow \notin Row
  /\ NoRow.org = Null
  /\ NoEntry \notin Entry
BY CacheAssumption DEF Id, NoRow, Row, NoEntry, Entry

LEMMA GotoEffect ==
  ASSUME TypeOK, NEW r \in Request,
         NEW label \in {"new", "served", "done", "rejected"} \cup Running,
         Goto(r, label)
  PROVE  /\ pc' \in [Request -> {"new", "served", "done", "rejected"} \cup Running]
         /\ pc'[r] = label
         /\ \A q \in Request \ {r} : pc'[q] = pc[q]
BY DEF TypeOK, Goto

LEMMA FinishEffect ==
  ASSUME TypeOK, NEW r \in Request, NEW outcome \in {"done", "rejected"},
         Finish(r, outcome)
  PROVE  /\ pc' \in [Request -> {"new", "served", "done", "rejected"} \cup Running]
         /\ org' \in [Request -> Organization \cup {Null}]
         /\ target' \in [Request -> Id \cup {Null}]
         /\ pc'[r] = outcome
         /\ \A q \in Request \ {r} :
              pc'[q] = pc[q] /\ org'[q] = org[q] /\ target'[q] = target[q]
BY GotoEffect DEF TypeOK, Finish

\* Every list the table gives is a set of items.
LEMMA ProjectsType ==
  ASSUME NEW o \in Organization, NEW table \in [Id -> Row \cup {NoRow}]
  PROVE  ProjectsIn(table, o) \in SUBSET Item
<1> SUFFICES ASSUME NEW p \in Id, table[p].org = o
             PROVE  [id |-> p, writer |-> table[p].writer] \in Item
  BY DEF ProjectsIn
<1>1. table[p] \in Row
  BY ConstantFacts
<1> QED
  BY <1>1 DEF Row, Item

LEMMA InitIInv == Init => IInv
<1> SUFFICES ASSUME Init
             PROVE  IInv
  OBVIOUS
<1>1. PICK f \in [Old -> Organization] :
        project = [p \in Id |-> IF p \in Old THEN [org |-> f[p], writer |-> p] ELSE NoRow]
  BY DEF Init
<1>2. project \in [Id -> Row \cup {NoRow}]
  BY <1>1, ConstantFacts DEF Row
<1>3. \A r \in Request : project[r] = NoRow
  BY <1>1, ConstantFacts, CacheAssumption
<1>4. \A o \in Organization : ProjectsOf(o) \in SUBSET Item
  BY <1>2, ProjectsType DEF ProjectsOf
<1>5. lists = [o \in Organization |-> <<ProjectsOf(o)>>]
  BY DEF Init
<1>6. audit \subseteq Record
  BY ConstantFacts DEF Init, Record
<1>7. TypeOK
  BY <1>2, <1>4, <1>5, <1>6 DEF Init, TypeOK
<1>8. \A r \in Request : RequestOK(r)
  BY <1>3 DEF Init, RequestOK, Running, Writing
<1>9. \A o \in Organization : HistoryOK(o)
  BY <1>5 DEF HistoryOK, Version
<1>10. \A o \in Organization : EntryOK(o)
  BY DEF Init, EntryOK, Stale, Cached
<1> QED
  BY <1>7, <1>8, <1>9, <1>10 DEF IInv

-----------------------------------------------------------------------------
(* IInv is inductive.                                                      *)

\* r goes on and every other request stays where it is.
OnlyMoves(r) ==
  /\ pc'[r] \in {"new", "create"} => pc[r] \in {"new", "create"}
  /\ \A q \in Request \ {r} :
       /\ pc'[q] = pc[q] /\ org'[q] = org[q]
       /\ target'[q] = target[q] /\ list'[q] = list[q]

\* Steps that touch neither store.
LEMMA QuietKeeps ==
  ASSUME IInv, NEW r \in Request, UNCHANGED <<rows, cache, excuse>>, TypeOK',
         OnlyMoves(r), RequestOK(r)', pc[r] # "invalidate"
  PROVE  IInv'
<1>1. UNCHANGED <<project, removed, audit, lists, cache, excuse>>
  BY DEF rows
<1>2. ASSUME NEW q \in Request \ {r}
      PROVE  RequestOK(q)'
  <2>1. RequestOK(q)
    BY DEF IInv
  <2> QED
    BY <1>1, <2>1 DEF RequestOK, OnlyMoves, Exists, WasList, Version
<1>3. ASSUME NEW o \in Organization
      PROVE  HistoryOK(o)' /\ EntryOK(o)'
  <2>1. HistoryOK(o) /\ EntryOK(o)
    BY DEF IInv
  <2>2. ProjectsOf(o)' = ProjectsOf(o)
    BY <1>1 DEF ProjectsOf, ProjectsIn
  <2>3. HistoryOK(o)'
    BY <1>1, <2>1, <2>2 DEF HistoryOK, Version
  <2>4. EntryOK(o)'
    BY <1>1, <2>1, <2>2 DEF EntryOK, OnlyMoves, Stale, Cached, WasList, Version
  <2> QED
    BY <2>3, <2>4
<1> QED
  BY <1>2, <1>3 DEF IInv

LEMMA BeginReadKeeps ==
  ASSUME IInv, NEW r \in Request, BeginRead(r)
  PROVE  IInv'
<1>1. PICK o \in Organization \ removed :
        /\ org' = [org EXCEPT ![r] = o]
        /\ seen' = [seen EXCEPT ![r] = acked[o]]
  BY DEF BeginRead
<1>2. Goto(r, "get") /\ pc[r] = "new"
      /\ UNCHANGED <<rows, cache, target, list, acked, excuse>>
  BY DEF BeginRead, MayStart
<1>3. /\ pc' \in [Request -> {"new", "served", "done", "rejected"} \cup Running]
      /\ pc'[r] = "get"
      /\ \A q \in Request \ {r} : pc'[q] = pc[q]
  BY <1>2, GotoEffect DEF IInv, Running
<1>4. TypeOK'
  BY <1>1, <1>2, <1>3 DEF IInv, TypeOK, rows
<1>5. OnlyMoves(r)
  BY <1>1, <1>2, <1>3 DEF OnlyMoves, IInv, TypeOK
<1>6. RequestOK(r)'
  BY <1>1, <1>3 DEF RequestOK, IInv, TypeOK
<1> QED
  BY <1>2, <1>4, <1>5, <1>6, QuietKeeps

LEMMA BeginCreateKeeps ==
  ASSUME IInv, NEW r \in Request, BeginCreate(r)
  PROVE  IInv'
<1>1. PICK o \in Organization \ removed : org' = [org EXCEPT ![r] = o]
  BY DEF BeginCreate
<1>2. Goto(r, "create") /\ pc[r] = "new"
      /\ UNCHANGED <<rows, cache, target, list, seen, acked, excuse>>
  BY DEF BeginCreate, MayStart
<1>3. /\ pc' \in [Request -> {"new", "served", "done", "rejected"} \cup Running]
      /\ pc'[r] = "create"
      /\ \A q \in Request \ {r} : pc'[q] = pc[q]
  BY <1>2, GotoEffect DEF IInv, Running, Writing
<1>4. TypeOK'
  BY <1>1, <1>2, <1>3 DEF IInv, TypeOK, rows
<1>5. OnlyMoves(r)
  BY <1>1, <1>2, <1>3 DEF OnlyMoves, IInv, TypeOK
<1>6. project'[r] = NoRow
  BY <1>2 DEF IInv, RequestOK, rows
<1>7. RequestOK(r)'
  BY <1>1, <1>3, <1>6 DEF RequestOK, IInv, TypeOK
<1> QED
  BY <1>2, <1>4, <1>5, <1>7, QuietKeeps

LEMMA BeginChangeKeeps ==
  ASSUME IInv, NEW r \in Request, BeginChange(r)
  PROVE  IInv'
<1>1. PICK p \in Id : /\ Exists(p)
                     /\ target' = [target EXCEPT ![r] = p]
                     /\ org' = [org EXCEPT ![r] = project[p].org]
  BY DEF BeginChange
<1>2. PICK write \in {"update", "remove"} : Goto(r, write)
  BY DEF BeginChange
<1>3. pc[r] = "new" /\ UNCHANGED <<rows, cache, list, seen, acked, excuse>>
  BY DEF BeginChange, MayStart
<1>4. /\ pc' \in [Request -> {"new", "served", "done", "rejected"} \cup Running]
      /\ pc'[r] = write
      /\ \A q \in Request \ {r} : pc'[q] = pc[q]
  BY <1>2, GotoEffect DEF IInv, Running, Writing
<1>5. project[p].org \in Organization
  BY <1>1 DEF IInv, TypeOK, Exists, Row
<1>6. p \in Request => pc[p] \notin {"new", "create"}
  BY <1>1 DEF IInv, RequestOK, Exists
<1>7. TypeOK'
  BY <1>1, <1>3, <1>4, <1>5 DEF IInv, TypeOK, rows
<1>8. OnlyMoves(r)
  BY <1>1, <1>3, <1>4 DEF OnlyMoves, IInv, TypeOK
<1>9. RequestOK(r)'
  BY <1>1, <1>3, <1>4, <1>5, <1>6 DEF RequestOK, IInv, TypeOK, Exists, rows
<1> QED
  BY <1>3, <1>7, <1>8, <1>9, QuietKeeps

LEMMA GetKeeps ==
  ASSUME IInv, NEW r \in Request, Get(r)
  PROVE  IInv'
<1>1. pc[r] = "get" /\ UNCHANGED <<rows, cache, org, target, seen, acked, excuse>>
  BY DEF Get
<1>2. org[r] \in Organization
  BY <1>1 DEF IInv, RequestOK, Running
<1>3. CASE Cached(org[r])
  <2>1. list' = [list EXCEPT ![r] = cache[org[r]].list] /\ Goto(r, "served")
    BY <1>3 DEF Get
  <2>2. /\ pc' \in [Request -> {"new", "served", "done", "rejected"} \cup Running]
        /\ pc'[r] = "served"
        /\ \A q \in Request \ {r} : pc'[q] = pc[q]
    BY <2>1, GotoEffect DEF IInv
  <2>3. cache[org[r]].list \in SUBSET Item
    <3>1. cache[org[r]] \in Entry
      BY <1>2, <1>3 DEF IInv, TypeOK, Cached
    <3> QED
      BY <3>1 DEF Entry
  <2>4. TypeOK'
    BY <1>1, <2>1, <2>2, <2>3 DEF IInv, TypeOK, rows
  <2>5. OnlyMoves(r)
    BY <1>1, <2>1, <2>2 DEF OnlyMoves, IInv, TypeOK
  <2>6. WasList(org[r], cache[org[r]].list)
    BY <1>2, <1>3 DEF IInv, EntryOK
  <2>7. RequestOK(r)'
    BY <1>1, <1>2, <2>1, <2>2, <2>6
       DEF RequestOK, IInv, TypeOK, rows, WasList, Version
  <2> QED
    BY <1>1, <2>4, <2>5, <2>7, QuietKeeps
<1>4. CASE ~Cached(org[r])
  <2>1. Goto(r, "load") /\ UNCHANGED list
    BY <1>4 DEF Get
  <2>2. /\ pc' \in [Request -> {"new", "served", "done", "rejected"} \cup Running]
        /\ pc'[r] = "load"
        /\ \A q \in Request \ {r} : pc'[q] = pc[q]
    BY <2>1, GotoEffect DEF IInv, Running
  <2>3. TypeOK'
    BY <1>1, <2>1, <2>2 DEF IInv, TypeOK, rows
  <2>4. OnlyMoves(r)
    BY <1>1, <2>1, <2>2 DEF OnlyMoves, IInv, TypeOK
  <2>5. RequestOK(r)'
    BY <1>1, <1>2, <2>2 DEF RequestOK
  <2> QED
    BY <1>1, <2>3, <2>4, <2>5, QuietKeeps
<1> QED
  BY <1>3, <1>4

LEMMA LoadKeeps ==
  ASSUME IInv, NEW r \in Request, Load(r)
  PROVE  IInv'
<1>1. /\ pc[r] = "load" /\ Goto(r, "store")
      /\ list' = [list EXCEPT ![r] = ProjectsOf(org[r])]
      /\ UNCHANGED <<rows, cache, org, target, seen, acked, excuse>>
  BY DEF Load
<1>2. org[r] \in Organization
  BY <1>1 DEF IInv, RequestOK, Running
<1>3. /\ pc' \in [Request -> {"new", "served", "done", "rejected"} \cup Running]
      /\ pc'[r] = "store"
      /\ \A q \in Request \ {r} : pc'[q] = pc[q]
  BY <1>1, GotoEffect DEF IInv, Running
<1>4. ProjectsOf(org[r]) \in SUBSET Item
  BY <1>2, ProjectsType DEF IInv, TypeOK, ProjectsOf
<1>5. TypeOK'
  BY <1>1, <1>3, <1>4 DEF IInv, TypeOK, rows
<1>6. OnlyMoves(r)
  BY <1>1, <1>3 DEF OnlyMoves, IInv, TypeOK
<1>7. WasList(org[r], ProjectsOf(org[r]))
  BY <1>2 DEF IInv, HistoryOK, WasList
<1>8. list'[r] = ProjectsOf(org[r])
  BY <1>1 DEF IInv, TypeOK
<1>9. RequestOK(r)'
  BY <1>1, <1>2, <1>3, <1>7, <1>8 DEF RequestOK, rows, WasList, Version
<1> QED
  BY <1>1, <1>5, <1>6, <1>9, QuietKeeps

\* A request ends, without an effect on the stores.
LEMMA EndKeeps ==
  ASSUME IInv, NEW r \in Request, NEW outcome \in {"done", "rejected"},
         pc[r] # "invalidate", Finish(r, outcome),
         UNCHANGED <<rows, cache, list, seen, acked, excuse>>
  PROVE  IInv'
<1>1. /\ pc' \in [Request -> {"new", "served", "done", "rejected"} \cup Running]
      /\ org' \in [Request -> Organization \cup {Null}]
      /\ target' \in [Request -> Id \cup {Null}]
      /\ pc'[r] = outcome
      /\ \A q \in Request \ {r} :
           pc'[q] = pc[q] /\ org'[q] = org[q] /\ target'[q] = target[q]
  BY FinishEffect DEF IInv
<1>2. TypeOK'
  BY <1>1 DEF IInv, TypeOK, rows
<1>3. OnlyMoves(r)
  BY <1>1 DEF OnlyMoves
<1>4. RequestOK(r)'
  BY <1>1 DEF RequestOK, Running, Writing
<1> QED
  BY <1>2, <1>3, <1>4, QuietKeeps

LEMMA StoreKeeps ==
  ASSUME IInv, NEW r \in Request, Store(r)
  PROVE  IInv'
<1>1. PICK o \in Organization : o = org[r]
  BY DEF IInv, RequestOK, Store, Running
<1>2. /\ pc[r] = "store" /\ Goto(r, "served")
      /\ cache' = [cache EXCEPT ![o] = [list |-> list[r], ttl |-> 60]]
      /\ excuse' = [excuse EXCEPT ![o] = list[r] # ProjectsOf(o)]
      /\ UNCHANGED <<rows, org, target, list, seen, acked>>
  BY <1>1 DEF Store, SetWithTtl
<1>3. /\ pc' \in [Request -> {"new", "served", "done", "rejected"} \cup Running]
      /\ pc'[r] = "served"
      /\ \A q \in Request \ {r} : pc'[q] = pc[q]
  BY <1>2, GotoEffect DEF IInv
<1>4. [list |-> list[r], ttl |-> 60] \in Entry
  BY DEF IInv, TypeOK, Entry
<1>5. (list[r] # ProjectsOf(o)) \in BOOLEAN
  OBVIOUS
<1>6. /\ cache' \in [Organization -> Entry \cup {NoEntry}]
      /\ excuse' \in [Organization -> BOOLEAN]
  BY <1>2, <1>4, <1>5 DEF IInv, TypeOK
<1>7. TypeOK'
  BY <1>2, <1>3, <1>6 DEF IInv, TypeOK, rows
<1>8. WasList(o, list[r])
  BY <1>1, <1>2 DEF IInv, RequestOK
<1>9. ASSUME NEW q \in Request
      PROVE  RequestOK(q)'
  <2>1. RequestOK(q)
    BY DEF IInv
  <2>2. CASE q = r
    BY <1>1, <1>2, <1>3, <1>8, <2>2 DEF RequestOK, WasList, Version, rows
  <2>3. CASE q # r
    BY <1>2, <1>3, <2>1, <2>3 DEF RequestOK, WasList, Version, rows, Exists
  <2> QED
    BY <2>2, <2>3
<1>10. ASSUME NEW u \in Organization
       PROVE  HistoryOK(u)' /\ EntryOK(u)'
  <2>1. HistoryOK(u) /\ EntryOK(u)
    BY DEF IInv
  <2>2. ProjectsOf(u)' = ProjectsOf(u) /\ lists' = lists
    BY <1>2 DEF ProjectsOf, ProjectsIn, rows
  <2>3. HistoryOK(u)'
    BY <2>1, <2>2 DEF HistoryOK, Version
  <2>4. CASE u = o
    <3>1. cache'[u].list = list[r] /\ excuse'[u] = (list[r] # ProjectsOf(u))
      BY <1>2, <2>4 DEF IInv, TypeOK
    <3>2. WasList(u, cache[u].list)'
      BY <1>8, <2>2, <2>4, <3>1 DEF WasList, Version
    <3> QED
      BY <2>2, <2>3, <3>1, <3>2 DEF EntryOK, Stale, WasList, Version
  <2>5. CASE u # o
    <3>1. cache'[u] = cache[u] /\ excuse'[u] = excuse[u]
      BY <1>2, <2>5 DEF IInv, TypeOK
    <3>2. \A q \in Request : pc[q] = "invalidate" => pc'[q] = "invalidate" /\ org'[q] = org[q]
      BY <1>2, <1>3
    <3> QED
      BY <2>1, <2>2, <2>3, <3>1, <3>2 DEF EntryOK, Stale, Cached, WasList, Version
  <2> QED
    BY <2>4, <2>5
<1> QED
  BY <1>7, <1>9, <1>10 DEF IInv

\* The entry of o is dropped, by a request that ends with it or by Redis.
LEMMA DropKeeps ==
  ASSUME IInv, TypeOK', NEW o \in Organization,
         cache' = [cache EXCEPT ![o] = NoEntry],
         excuse' = [excuse EXCEPT ![o] = FALSE],
         UNCHANGED <<rows, list>>,
         \A q \in Request :
           \/ pc'[q] = pc[q] /\ org'[q] = org[q] /\ target'[q] = target[q]
           \/ pc[q] = "invalidate" /\ org[q] = o /\ pc'[q] = "done"
  PROVE  IInv'
<1>1. UNCHANGED <<project, removed, audit, lists>>
  BY DEF rows
<1>2. ASSUME NEW q \in Request
      PROVE  RequestOK(q)'
  <2>1. RequestOK(q)
    BY DEF IInv
  <2>2. CASE pc'[q] = pc[q] /\ org'[q] = org[q] /\ target'[q] = target[q]
    BY <1>1, <2>1, <2>2 DEF RequestOK, WasList, Version, Exists
  <2>3. CASE pc'[q] = "done"
    BY <2>3 DEF RequestOK, Running, Writing
  <2> QED
    BY <2>2, <2>3
<1>3. ASSUME NEW u \in Organization
      PROVE  HistoryOK(u)' /\ EntryOK(u)'
  <2>1. HistoryOK(u) /\ EntryOK(u)
    BY DEF IInv
  <2>2. ProjectsOf(u)' = ProjectsOf(u)
    BY <1>1 DEF ProjectsOf, ProjectsIn
  <2>3. HistoryOK(u)'
    BY <1>1, <2>1, <2>2 DEF HistoryOK, Version
  <2>4. CASE u = o
    BY <2>3, <2>4 DEF EntryOK, Stale, Cached, IInv, TypeOK
  <2>5. CASE u # o
    <3>1. cache'[u] = cache[u] /\ excuse'[u] = excuse[u]
      BY <2>5 DEF IInv, TypeOK
    <3>2. \A q \in Request : pc[q] = "invalidate" /\ org[q] = u
                              => pc'[q] = "invalidate" /\ org'[q] = u
      BY <2>5
    <3> QED
      BY <1>1, <2>1, <2>2, <2>3, <3>1, <3>2 DEF EntryOK, Stale, Cached, WasList, Version
  <2> QED
    BY <2>4, <2>5
<1> QED
  BY <1>2, <1>3 DEF IInv

LEMMA InvalidateKeeps ==
  ASSUME IInv, NEW r \in Request, Invalidate(r)
  PROVE  IInv'
<1>1. PICK o \in Organization : o = org[r]
  BY DEF IInv, RequestOK, Invalidate, Running, Writing
<1>2. /\ pc[r] = "invalidate" /\ Finish(r, "done")
      /\ cache' = [cache EXCEPT ![o] = NoEntry]
      /\ excuse' = [excuse EXCEPT ![o] = FALSE]
      /\ acked' = [acked EXCEPT ![o] = IF seen[r] > @ THEN seen[r] ELSE @]
      /\ UNCHANGED <<rows, list, seen>>
  BY <1>1 DEF Invalidate
<1>3. /\ pc' \in [Request -> {"new", "served", "done", "rejected"} \cup Running]
      /\ org' \in [Request -> Organization \cup {Null}]
      /\ target' \in [Request -> Id \cup {Null}]
      /\ pc'[r] = "done"
      /\ \A q \in Request \ {r} :
           pc'[q] = pc[q] /\ org'[q] = org[q] /\ target'[q] = target[q]
  BY <1>2, FinishEffect DEF IInv
<1>4. TypeOK'
  BY <1>2, <1>3 DEF IInv, TypeOK, rows
<1> QED
  BY <1>1, <1>2, <1>3, <1>4, DropKeeps

LEMMA ExpireKeeps ==
  ASSUME IInv, NEW o \in Organization, Expire(o)
  PROVE  IInv'
<1>1. TypeOK'
  BY DEF IInv, TypeOK, Expire, rows
<1> QED
  BY <1>1, DropKeeps DEF Expire

\* A request fails; a write that had committed leaves the entry as it is.
LEMMA FailKeeps ==
  ASSUME IInv, NEW r \in Request, Fail(r)
  PROVE  IInv'
<1>1. CASE pc[r] # "invalidate"
  BY <1>1, EndKeeps DEF Fail
<1>2. CASE pc[r] = "invalidate"
  <2>1. PICK o \in Organization : o = org[r]
    BY <1>2 DEF IInv, RequestOK, Running, Writing
  <2>2. /\ Finish(r, "rejected")
        /\ excuse' = [excuse EXCEPT ![o] = TRUE]
        /\ UNCHANGED <<project, removed, audit, lists, cache, list, seen, acked>>
    BY <1>2, <2>1 DEF Fail, rows
  <2>3. /\ pc' \in [Request -> {"new", "served", "done", "rejected"} \cup Running]
        /\ org' \in [Request -> Organization \cup {Null}]
        /\ target' \in [Request -> Id \cup {Null}]
        /\ pc'[r] = "rejected"
        /\ \A q \in Request \ {r} :
             pc'[q] = pc[q] /\ org'[q] = org[q] /\ target'[q] = target[q]
    BY <2>2, FinishEffect DEF IInv
  <2>4. TypeOK'
    BY <2>2, <2>3 DEF IInv, TypeOK
  <2>5. ASSUME NEW q \in Request
        PROVE  RequestOK(q)'
    <3>1. RequestOK(q)
      BY DEF IInv
    <3>2. CASE q = r
      BY <2>3, <3>2 DEF RequestOK, Running, Writing
    <3>3. CASE q # r
      BY <2>2, <2>3, <3>1, <3>3 DEF RequestOK, WasList, Version, Exists
    <3> QED
      BY <3>2, <3>3
  <2>6. ASSUME NEW u \in Organization
        PROVE  HistoryOK(u)' /\ EntryOK(u)'
    <3>1. HistoryOK(u) /\ EntryOK(u)
      BY DEF IInv
    <3>2. ProjectsOf(u)' = ProjectsOf(u)
      BY <2>2 DEF ProjectsOf, ProjectsIn
    <3>3. HistoryOK(u)'
      BY <2>2, <3>1, <3>2 DEF HistoryOK, Version
    <3>4. excuse'[u] = TRUE \/ (u # o /\ excuse'[u] = excuse[u])
      BY <2>2 DEF IInv, TypeOK
    <3>5. \A q \in Request : pc[q] = "invalidate" /\ org[q] = u /\ u # o
                              => pc'[q] = "invalidate" /\ org'[q] = u
      BY <2>1, <2>3
    <3> QED
      BY <2>2, <3>1, <3>2, <3>3, <3>4, <3>5 DEF EntryOK, Stale, Cached, WasList, Version
  <2> QED
    BY <2>4, <2>5, <2>6 DEF IInv
<1> QED
  BY <1>1, <1>2

\* A list is added to the history of o.
LEMMA HistoryGrows ==
  ASSUME TypeOK, NEW o \in Organization, NEW l \in SUBSET Item,
         lists' = [lists EXCEPT ![o] = Append(@, l)]
  PROVE  /\ lists' \in [Organization -> Seq(SUBSET Item)]
         /\ \A u \in Organization \ {o} : lists'[u] = lists[u]
         /\ Len(lists[o]) \in Nat
         /\ Len(lists'[o]) = Len(lists[o]) + 1
         /\ lists'[o][Len(lists[o]) + 1] = l
         /\ \A n \in 1..Len(lists[o]) : lists'[o][n] = lists[o][n]
<1>1. lists[o] \in Seq(SUBSET Item)
  BY DEF TypeOK
<1>2. lists'[o] = Append(lists[o], l) /\ Append(lists[o], l) \in Seq(SUBSET Item)
  BY <1>1, AppendProperties DEF TypeOK
<1>3. lists' \in [Organization -> Seq(SUBSET Item)]
  BY <1>1, <1>2 DEF TypeOK
<1>4. \A u \in Organization \ {o} : lists'[u] = lists[u]
  BY DEF TypeOK
<1> QED
  BY <1>1, <1>2, <1>3, <1>4, AppendProperties, LenProperties

\* What was a list stays one.
Grown(u) ==
  \A n \in 1..Len(lists[u]) : n \in 1..Len(lists'[u]) /\ lists'[u][n] = lists[u][n]

LEMMA WasListStays ==
  ASSUME TypeOK, NEW o \in Organization, NEW l \in SUBSET Item,
         lists' = [lists EXCEPT ![o] = Append(@, l)]
  PROVE  \A u \in Organization : Grown(u)
<1>1. Grown(o)
  BY HistoryGrows DEF Grown
<1>2. \A u \in Organization \ {o} : Grown(u)
  BY HistoryGrows DEF Grown
<1> QED
  BY <1>1, <1>2

\* A transaction has committed: it has written the row of one project of the
\* organization of r, and the cached list is yet to be dropped.
LEMMA CommitKeeps ==
  ASSUME IInv, NEW r \in Request, NEW o \in Organization, NEW p \in Id,
         NEW row \in Row \cup {NoRow}, o = org[r],
         pc[r] \in {"create", "update", "remove"},
         project' = [project EXCEPT ![p] = row], audit' \subseteq Record, Committed(r),
         project[p] = NoRow => p = r /\ pc[r] = "create",
         project[p] # NoRow => project[p].org = o,
         row # NoRow => row.org = o,
         p \in Request /\ p # r => pc[p] \notin {"new", "create"}
  PROVE  IInv'
<1>1. /\ lists' = [lists EXCEPT ![o] = Append(@, ProjectsIn(project', o))]
      /\ seen' = [seen EXCEPT ![r] = Version(o) + 1]
      /\ Goto(r, "invalidate")
      /\ UNCHANGED <<removed, cache, org, target, list, acked, excuse>>
  BY DEF Committed
<1>2. /\ pc' \in [Request -> {"new", "served", "done", "rejected"} \cup Running]
      /\ pc'[r] = "invalidate"
      /\ \A q \in Request \ {r} : pc'[q] = pc[q]
  BY <1>1, GotoEffect DEF IInv, Running, Writing
<1>3. project' \in [Id -> Row \cup {NoRow}]
  BY DEF IInv, TypeOK
<1>4. PICK l \in SUBSET Item : l = ProjectsIn(project', o)
  BY <1>3, ProjectsType
<1>5. /\ lists' = [lists EXCEPT ![o] = Append(@, l)]
      /\ lists' \in [Organization -> Seq(SUBSET Item)]
  BY <1>1, <1>4, HistoryGrows DEF IInv
<1>6. TypeOK'
  <2>1. Version(o) + 1 \in Nat
    BY DEF IInv, HistoryOK
  <2>2. seen' \in [Request -> Nat]
    BY <1>1, <2>1 DEF IInv, TypeOK
  <2> QED
    BY <1>1, <1>2, <1>3, <1>5, <2>2 DEF IInv, TypeOK
<1>7. /\ project'[p] = row
      /\ \A q \in Id \ {p} : project'[q] = project[q]
  BY DEF IInv, TypeOK
<1>8. ASSUME NEW q \in Request
      PROVE  RequestOK(q)'
  <2>1. RequestOK(q)
    BY DEF IInv
  <2>2. CASE q = r
    BY <1>1, <1>2, <2>2 DEF RequestOK
  <2>3. CASE q # r
    <3>1. pc'[q] = pc[q] /\ org'[q] = org[q] /\ target'[q] = target[q] /\ list'[q] = list[q]
      BY <1>1, <1>2, <2>3
    <3>2. pc[q] \in {"new", "create"} => project'[q] = NoRow
      BY <1>7, <2>1, <2>3, ConstantFacts DEF RequestOK
    <3>3. ASSUME pc[q] \in {"update", "remove"}
          PROVE  /\ target[q] \in Id
                 /\ target[q] \in Request => pc'[target[q]] \notin {"new", "create"}
                 /\ project'[target[q]] # NoRow => project'[target[q]].org = org[q]
      BY <1>2, <1>7, <2>1, <3>3 DEF RequestOK, Exists
    <3>4. ASSUME pc[q] \in {"store", "served"}
          PROVE  \E n \in 1..Len(lists'[org[q]]) : list[q] = lists'[org[q]][n]
      <4>1. org[q] \in Organization /\ WasList(org[q], list[q])
        BY <2>1, <3>4 DEF RequestOK, Running
      <4>2. Grown(org[q])
        BY <1>5, <4>1, WasListStays DEF IInv
      <4> QED
        BY <4>1, <4>2 DEF WasList, Grown, Version
    <3> QED
      BY <2>1, <3>1, <3>2, <3>3, <3>4 DEF RequestOK, Exists, WasList, Version
  <2> QED
    BY <2>2, <2>3
<1>9. ASSUME NEW u \in Organization
      PROVE  HistoryOK(u)' /\ EntryOK(u)'
  <2>1. HistoryOK(u) /\ EntryOK(u)
    BY DEF IInv
  <2>2. ASSUME cache[u] # NoEntry
        PROVE  \E n \in 1..Len(lists'[u]) : cache[u].list = lists'[u][n]
    <3>1. WasList(u, cache[u].list)
      BY <2>1, <2>2 DEF EntryOK, Cached
    <3>2. Grown(u)
      BY <1>5, WasListStays DEF IInv
    <3> QED
      BY <3>1, <3>2 DEF WasList, Grown, Version
  <2>3. CASE u = o
    <3>1. HistoryOK(u)'
      BY <1>4, <1>5, <2>3, HistoryGrows DEF HistoryOK, Version, IInv, ProjectsOf
    <3>2. pc'[r] = "invalidate" /\ org'[r] = u
      BY <1>1, <1>2, <2>3
    <3> QED
      BY <1>1, <2>2, <3>1, <3>2 DEF EntryOK, Cached, WasList, Version
  <2>4. CASE u # o
    <3>1. lists'[u] = lists[u]
      BY <1>5, <2>4, HistoryGrows DEF IInv
    <3>2. \A q \in Id : project[q].org = u <=> project'[q].org = u
      BY <1>7, <2>4, ConstantFacts
    <3>3. ProjectsOf(u)' = ProjectsOf(u)
      <4>1. \A q \in Id : project[q].org = u => project'[q].writer = project[q].writer
        BY <1>7, <2>4, ConstantFacts
      <4> QED
        BY <3>2, <4>1 DEF ProjectsOf, ProjectsIn
    <3>4. HistoryOK(u)'
      BY <2>1, <3>1, <3>3 DEF HistoryOK, Version
    <3>5. \A q \in Request : pc[q] = "invalidate" => pc'[q] = "invalidate" /\ org'[q] = org[q]
      BY <1>1, <1>2
    <3> QED
      BY <1>1, <2>1, <2>2, <3>3, <3>4, <3>5 DEF EntryOK, Stale, Cached, WasList, Version
  <2> QED
    BY <2>3, <2>4
<1> QED
  BY <1>6, <1>8, <1>9 DEF IInv

LEMMA AuditedType ==
  ASSUME TypeOK, NEW r \in Request, NEW p \in Id,
         NEW action \in {"PROJECT_CREATED", "PROJECT_UPDATED", "PROJECT_DELETED"},
         Audited(r, action, p)
  PROVE  audit' \subseteq Record
BY ConstantFacts DEF TypeOK, Audited, Record

LEMMA CreateKeeps ==
  ASSUME IInv, NEW r \in Request, Create(r)
  PROVE  IInv'
<1>1. PICK o \in Organization : o = org[r]
  BY DEF IInv, RequestOK, Create, Running, Writing
<1>2. r \in Id /\ project[r] = NoRow
  BY ConstantFacts DEF IInv, RequestOK, Create
<1>3. PICK row \in Row : row = [org |-> o, writer |-> r]
  BY <1>2 DEF Row
<1>4. /\ pc[r] = "create" /\ Committed(r)
      /\ project' = [project EXCEPT ![r] = row]
      /\ audit' \subseteq Record
  BY <1>1, <1>2, <1>3, AuditedType DEF Create, IInv
<1> QED
  BY <1>1, <1>2, <1>3, <1>4, CommitKeeps

LEMMA UpdateKeeps ==
  ASSUME IInv, NEW r \in Request, Update(r)
  PROVE  IInv'
<1>1. PICK o \in Organization : o = org[r]
  BY DEF IInv, RequestOK, Update, Running, Writing
<1>2. PICK p \in Id : p = target[r]
  BY DEF IInv, RequestOK, Update
<1>3. /\ project[p] \in Row /\ project[p].org = o
      /\ p \in Request => pc[p] \notin {"new", "create"}
  BY <1>1, <1>2 DEF IInv, TypeOK, RequestOK, Update, Exists
<1>4. PICK row \in Row : row = [project[p] EXCEPT !.writer = r]
  BY <1>3, ConstantFacts DEF Row
<1>5. row.org = o
  BY <1>3, <1>4 DEF Row
<1>6. /\ pc[r] = "update" /\ Committed(r)
      /\ project' = [project EXCEPT ![p] = row]
      /\ audit' \subseteq Record
  BY <1>2, <1>4, AuditedType DEF Update, IInv
<1> QED
  BY <1>1, <1>3, <1>5, <1>6, ConstantFacts, CommitKeeps

LEMMA RemoveKeeps ==
  ASSUME IInv, NEW r \in Request, Remove(r)
  PROVE  IInv'
<1>1. PICK o \in Organization : o = org[r]
  BY DEF IInv, RequestOK, Remove, Running, Writing
<1>2. PICK p \in Id : p = target[r]
  BY DEF IInv, RequestOK, Remove
<1>3. /\ project[p] # NoRow /\ project[p].org = o
      /\ p \in Request => pc[p] \notin {"new", "create"}
  BY <1>1, <1>2 DEF IInv, RequestOK, Remove, Exists
<1>4. /\ pc[r] = "remove" /\ Committed(r)
      /\ project' = [project EXCEPT ![p] = NoRow]
      /\ audit' \subseteq Record
  BY <1>2, AuditedType DEF Remove, IInv
<1> QED
  BY <1>1, <1>3, <1>4, CommitKeeps

\* The organization goes with its projects, and its list becomes empty.
LEMMA RemoveOrganizationKeeps ==
  ASSUME IInv, NEW r \in Request, RemoveOrganization(r)
  PROVE  IInv'
<1>1. PICK o \in Organization :
        /\ removed' = removed \cup {o}
        /\ project' = [p \in Id |-> IF project[p].org = o THEN NoRow ELSE project[p]]
        /\ lists' = [lists EXCEPT ![o] = Append(@, {})]
        /\ acked' = [acked EXCEPT ![o] = Version(o) + 1]
        /\ excuse' = [excuse EXCEPT ![o] = TRUE]
  BY DEF RemoveOrganization
<1>2. /\ pc[r] = "new" /\ Goto(r, "done")
      /\ UNCHANGED <<audit, cache, org, target, list, seen>>
  BY DEF RemoveOrganization, MayStart
<1>3. /\ pc' \in [Request -> {"new", "served", "done", "rejected"} \cup Running]
      /\ pc'[r] = "done"
      /\ \A q \in Request \ {r} : pc'[q] = pc[q]
  BY <1>2, GotoEffect DEF IInv
<1>4. PICK l \in SUBSET Item : l = {}
  OBVIOUS
<1>5. /\ lists' = [lists EXCEPT ![o] = Append(@, l)]
      /\ lists' \in [Organization -> Seq(SUBSET Item)]
  BY <1>1, <1>4, HistoryGrows DEF IInv
<1>6. \A p \in Id :
        /\ project'[p] = NoRow \/ (project'[p] = project[p] /\ project[p].org # o)
        /\ project[p].org # o => project'[p] = project[p]
  BY <1>1
<1>7. TypeOK'
  <2>1. Version(o) + 1 \in Nat
    BY DEF IInv, HistoryOK
  <2>2. acked' \in [Organization -> Nat]
    BY <1>1, <2>1 DEF IInv, TypeOK
  <2>3. project' \in [Id -> Row \cup {NoRow}]
    BY <1>1 DEF IInv, TypeOK
  <2> QED
    BY <1>1, <1>2, <1>3, <1>5, <2>2, <2>3 DEF IInv, TypeOK
<1>8. ASSUME NEW q \in Request
      PROVE  RequestOK(q)'
  <2>1. RequestOK(q)
    BY DEF IInv
  <2>2. CASE q = r
    BY <1>3, <2>2 DEF RequestOK, Running, Writing
  <2>3. CASE q # r
    <3>1. pc'[q] = pc[q] /\ org'[q] = org[q] /\ target'[q] = target[q] /\ list'[q] = list[q]
      BY <1>2, <1>3, <2>3
    <3>2. pc[q] \in {"new", "create"} => project'[q] = NoRow
      BY <1>6, <2>1, ConstantFacts DEF RequestOK
    <3>3. ASSUME pc[q] \in {"update", "remove"}
          PROVE  /\ target[q] \in Id
                 /\ target[q] \in Request => pc'[target[q]] \notin {"new", "create"}
                 /\ project'[target[q]] # NoRow => project'[target[q]].org = org[q]
      BY <1>3, <1>6, <2>1, <3>3 DEF RequestOK, Exists
    <3>4. ASSUME pc[q] \in {"store", "served"}
          PROVE  \E n \in 1..Len(lists'[org[q]]) : list[q] = lists'[org[q]][n]
      <4>1. org[q] \in Organization /\ WasList(org[q], list[q])
        BY <2>1, <3>4 DEF RequestOK, Running
      <4>2. Grown(org[q])
        BY <1>5, <4>1, WasListStays DEF IInv
      <4> QED
        BY <4>1, <4>2 DEF WasList, Grown, Version
    <3> QED
      BY <2>1, <3>1, <3>2, <3>3, <3>4 DEF RequestOK, Exists, WasList, Version
  <2> QED
    BY <2>2, <2>3
<1>9. ASSUME NEW u \in Organization
      PROVE  HistoryOK(u)' /\ EntryOK(u)'
  <2>1. HistoryOK(u) /\ EntryOK(u)
    BY DEF IInv
  <2>2. ASSUME cache[u] # NoEntry
        PROVE  \E n \in 1..Len(lists'[u]) : cache[u].list = lists'[u][n]
    <3>1. WasList(u, cache[u].list)
      BY <2>1, <2>2 DEF EntryOK, Cached
    <3>2. Grown(u)
      BY <1>5, WasListStays DEF IInv
    <3> QED
      BY <3>1, <3>2 DEF WasList, Grown, Version
  <2>3. CASE u = o
    <3>1. ProjectsOf(u)' = {}
      BY <1>6, <2>3, ConstantFacts DEF ProjectsOf, ProjectsIn
    <3>2. HistoryOK(u)'
      BY <1>4, <1>5, <2>3, <3>1, HistoryGrows DEF HistoryOK, Version, IInv
    <3>3. excuse'[u]
      BY <1>1, <2>3 DEF IInv, TypeOK
    <3> QED
      BY <1>2, <2>2, <3>2, <3>3 DEF EntryOK, Cached, WasList, Version
  <2>4. CASE u # o
    <3>1. lists'[u] = lists[u] /\ excuse'[u] = excuse[u]
      BY <1>1, <1>5, <2>4, HistoryGrows DEF IInv, TypeOK
    <3>2. \A q \in Id : /\ project[q].org = u <=> project'[q].org = u
                        /\ project[q].org = u => project'[q].writer = project[q].writer
      BY <1>6, <2>4, ConstantFacts
    <3>3. ProjectsOf(u)' = ProjectsOf(u)
      BY <3>2 DEF ProjectsOf, ProjectsIn
    <3>4. HistoryOK(u)'
      BY <2>1, <3>1, <3>3 DEF HistoryOK, Version
    <3>5. \A q \in Request : pc[q] = "invalidate" => pc'[q] = "invalidate" /\ org'[q] = org[q]
      BY <1>2, <1>3
    <3> QED
      BY <1>2, <2>1, <2>2, <3>1, <3>3, <3>4, <3>5
         DEF EntryOK, Stale, Cached, WasList, Version
  <2> QED
    BY <2>3, <2>4
<1> QED
  BY <1>7, <1>8, <1>9 DEF IInv

LEMMA RefuseKeeps ==
  ASSUME IInv, NEW r \in Request, Refuse(r)
  PROVE  IInv'
<1>1. /\ pc[r] = "new" /\ Goto(r, "rejected")
      /\ UNCHANGED <<rows, cache, org, target, list, seen, acked, excuse>>
  BY DEF Refuse, MayStart
<1>2. /\ pc' \in [Request -> {"new", "served", "done", "rejected"} \cup Running]
      /\ pc'[r] = "rejected"
      /\ \A q \in Request \ {r} : pc'[q] = pc[q]
  BY <1>1, GotoEffect DEF IInv
<1>3. TypeOK'
  BY <1>1, <1>2 DEF IInv, TypeOK, rows
<1>4. OnlyMoves(r) /\ RequestOK(r)'
  BY <1>1, <1>2 DEF OnlyMoves, RequestOK, Running, Writing
<1> QED
  BY <1>1, <1>3, <1>4, QuietKeeps

LEMMA NextIInv == IInv /\ [Next]_vars => IInv'
<1> SUFFICES ASSUME IInv, [Next]_vars
             PROVE  IInv'
  OBVIOUS
<1>1. CASE UNCHANGED vars
  <2>1. /\ UNCHANGED <<project, removed, audit, lists, cache, pc, org, target, list>>
        /\ UNCHANGED <<seen, acked, excuse>>
    BY <1>1 DEF vars, rows
  <2>2. TypeOK'
    BY <2>1 DEF IInv, TypeOK
  <2>3. \A q \in Request : RequestOK(q)'
    BY <2>1 DEF IInv, RequestOK, Exists, WasList, Version
  <2>4. \A o \in Organization : HistoryOK(o)' /\ EntryOK(o)'
    BY <2>1 DEF IInv, HistoryOK, EntryOK, Stale, Cached, ProjectsOf, ProjectsIn,
                WasList, Version
  <2> QED
    BY <2>2, <2>3, <2>4 DEF IInv
<1>2. ASSUME NEW o \in Organization, Expire(o)
      PROVE  IInv'
  BY <1>2, ExpireKeeps
<1>3. ASSUME NEW r \in Request, Step(r)
      PROVE  IInv'
  <2>1. CASE BeginRead(r)
    BY <2>1, BeginReadKeeps
  <2>2. CASE BeginCreate(r)
    BY <2>2, BeginCreateKeeps
  <2>3. CASE BeginChange(r)
    BY <2>3, BeginChangeKeeps
  <2>4. CASE RemoveOrganization(r)
    BY <2>4, RemoveOrganizationKeeps
  <2>5. CASE Refuse(r)
    BY <2>5, RefuseKeeps
  <2>6. CASE Get(r)
    BY <2>6, GetKeeps
  <2>7. CASE Load(r)
    BY <2>7, LoadKeeps
  <2>8. CASE Store(r)
    BY <2>8, StoreKeeps
  <2>9. CASE Create(r)
    BY <2>9, CreateKeeps
  <2>10. CASE Update(r)
    BY <2>10, UpdateKeeps
  <2>11. CASE Remove(r)
    BY <2>11, RemoveKeeps
  <2>12. CASE Gone(r)
    BY <2>12, EndKeeps DEF Gone
  <2>13. CASE Invalidate(r)
    BY <2>13, InvalidateKeeps
  <2>14. CASE Fail(r)
    BY <2>14, FailKeeps
  <2> QED
    BY <1>3, <2>1, <2>2, <2>3, <2>4, <2>5, <2>6, <2>7, <2>8, <2>9, <2>10, <2>11,
       <2>12, <2>13, <2>14 DEF Step, Proceed
<1> QED
  BY <1>1, <1>2, <1>3 DEF Next

-----------------------------------------------------------------------------

\* Every step keeps the rows, the cached lists and the requests in their types.
THEOREM TypeCorrect == Spec => []TypeOK
<1>1. IInv => TypeOK
  BY DEF IInv
<1> QED
  BY <1>1, InitIInv, NextIInv, PTL DEF Spec

\* findAll caches and answers only lists its organization really had.
THEOREM ListsTrue == Spec => []ListsWereTrue
<1>1. IInv => ListsWereTrue
  BY DEF IInv, EntryOK, RequestOK, WasList, ListsWereTrue
<1> QED
  BY <1>1, InitIInv, NextIInv, PTL DEF Spec

\* The calls of ProjectsService to PostgreSQL and Redis are in an order that
\* leaves an outdated list only by overlap, by failure, or for a removed
\* organization.
THEOREM StaleExplained == Spec => []StaleIsExplained
<1>1. IInv => StaleIsExplained
  BY DEF IInv, EntryOK, StaleIsExplained
<1> QED
  BY <1>1, InitIInv, NextIInv, PTL DEF Spec

-----------------------------------------------------------------------------
(* The records of a project and its row.                                   *)

RecordsOf(p, action) == {a \in audit : a.entityId = p /\ a.action = action}
Made(p) == RecordsOf(p, "PROJECT_CREATED")
Deleted(p) == RecordsOf(p, "PROJECT_DELETED")

\* What a project is named by has not run yet.
Unborn(p) == p \in Request /\ pc[p] \in {"new", "create"}

\* The log about p: only the request that made the row tells that it did, one
\* deletion at most is told, of a row that is not there any more, and of a
\* request that has not created anything nothing is told.
LogOK(p) ==
  /\ \A a \in Made(p) : a.by = p
  /\ \A a, b \in Deleted(p) : a = b
  /\ Unborn(p) => \A a \in audit : a.entityId # p
  /\ Exists(p) => Made(p) # {} /\ Deleted(p) = {}
  /\ Made(p) # {} /\ Deleted(p) = {} /\ removed = {} => Exists(p)

LedgerInv == IInv /\ \A p \in Id : LogOK(p)

LEMMA InitLedgerInv == Init => LedgerInv
<1> SUFFICES ASSUME Init, NEW p \in Id
             PROVE  LogOK(p)
  BY InitIInv DEF LedgerInv
<1>1. PICK f \in [Old -> Organization] :
        project = [q \in Id |-> IF q \in Old THEN [org |-> f[q], writer |-> q] ELSE NoRow]
  BY DEF Init
<1>2. /\ audit = {[action |-> "PROJECT_CREATED", entityId |-> q, by |-> q] : q \in Old}
      /\ Deleted(p) = {}
  BY DEF Init, Deleted, RecordsOf
<1>3. CASE p \in Old
  <2>1. Made(p) = {[action |-> "PROJECT_CREATED", entityId |-> p, by |-> p]}
    BY <1>2, <1>3 DEF Made, RecordsOf
  <2>2. Exists(p)
    <3>1. project[p].org \in Organization
      BY <1>1, <1>3
    <3> QED
      BY <3>1, ConstantFacts DEF Exists
  <2>3. ~Unborn(p)
    BY <1>3, CacheAssumption DEF Unborn
  <2> QED
    BY <1>2, <2>1, <2>2, <2>3 DEF LogOK
<1>4. CASE p \notin Old
  <2>1. ~Exists(p) /\ Made(p) = {} /\ \A a \in audit : a.entityId # p
    BY <1>1, <1>2, <1>4 DEF Exists, Made, RecordsOf
  <2> QED
    BY <1>2, <2>1 DEF LogOK
<1> QED
  BY <1>3, <1>4

\* A step that writes no project and tells nothing.
LEMMA LogUntouched ==
  ASSUME NEW p \in Id, LogOK(p), UNCHANGED <<project, removed, audit>>, Unborn(p)' => Unborn(p)
  PROVE  LogOK(p)'
<1>1. Made(p)' = Made(p) /\ Deleted(p)' = Deleted(p) /\ Exists(p)' = Exists(p)
  BY DEF Made, Deleted, RecordsOf, Exists
<1> QED
  BY <1>1 DEF LogOK

\* No step makes a request one that has not begun.
LEMMA BirthIsOnce ==
  ASSUME LedgerInv, NEW r \in Request, Step(r), NEW p \in Id, Unborn(p)'
  PROVE  Unborn(p)
<1>1. /\ pc' \in [Request -> {"new", "served", "done", "rejected"} \cup Running]
      /\ \A q \in Request \ {r} : pc'[q] = pc[q]
      /\ pc'[r] \in {"new", "create"} => pc[r] = "new"
  <2> USE DEF Running, Writing, MayStart
  <2>1. CASE BeginRead(r) \/ BeginCreate(r) \/ RemoveOrganization(r) \/ Refuse(r)
             \/ Get(r) \/ Load(r) \/ Store(r)
    BY <2>1, GotoEffect DEF LedgerInv, IInv, BeginRead, BeginCreate, RemoveOrganization, Refuse,
                            Get, Load, Store
  <2>2. CASE BeginChange(r)
    BY <2>2, GotoEffect DEF LedgerInv, IInv, BeginChange
  <2>3. CASE Create(r) \/ Update(r) \/ Remove(r)
    BY <2>3, GotoEffect DEF LedgerInv, IInv, Create, Update, Remove, Committed
  <2>4. CASE Gone(r) \/ Invalidate(r) \/ Fail(r)
    BY <2>4, FinishEffect DEF LedgerInv, IInv, Gone, Invalidate, Fail
  <2> QED
    BY <2>1, <2>2, <2>3, <2>4 DEF Step, Proceed
<1> QED
  BY <1>1 DEF Unborn

\* A transaction that tells of t what it does to the row of t.
LEMMA LogElsewhere ==
  ASSUME LedgerInv, NEW r \in Request, NEW t \in Id, NEW p \in Id \ {t}, NEW action,
         Audited(r, action, t), project'[p] = project[p], UNCHANGED removed,
         Unborn(p)' => Unborn(p)
  PROVE  LogOK(p)'
<1>1. LogOK(p)
  BY DEF LedgerInv
<1>2. audit' = audit \cup {[action |-> action, entityId |-> t, by |-> r]}
  BY DEF Audited
<1>3. Made(p)' = Made(p) /\ Deleted(p)' = Deleted(p) /\ Exists(p)' = Exists(p)
  BY <1>2 DEF Made, Deleted, RecordsOf, Exists
<1>4. (\A a \in audit : a.entityId # p) => \A a \in audit' : a.entityId # p
  BY <1>2
<1> QED
  BY <1>1, <1>3, <1>4 DEF LogOK

LEMMA CreateTells ==
  ASSUME LedgerInv, NEW r \in Request, Create(r), ~Unborn(r)'
  PROVE  LogOK(r)'
<1>1. /\ audit' = audit \cup {[action |-> "PROJECT_CREATED", entityId |-> r, by |-> r]}
      /\ \A a \in audit : a.entityId # r
  BY ConstantFacts DEF Create, Audited, LedgerInv, LogOK, Unborn
<1>2. /\ Made(r)' = {[action |-> "PROJECT_CREATED", entityId |-> r, by |-> r]}
      /\ Deleted(r)' = {}
  BY <1>1 DEF Made, Deleted, RecordsOf
<1>3. Exists(r)'
  <2>1. org[r] \in Organization
    BY DEF LedgerInv, IInv, RequestOK, Create, Running, Writing
  <2>2. project'[r].org = org[r]
    BY ConstantFacts DEF Create, LedgerInv, IInv, TypeOK
  <2> QED
    BY <2>1, <2>2, ConstantFacts DEF Exists
<1> QED
  BY <1>2, <1>3 DEF LogOK

LEMMA UpdateTells ==
  ASSUME LedgerInv, NEW r \in Request, Update(r), NEW p \in Id, p = target[r],
         Unborn(p)' => Unborn(p)
  PROVE  LogOK(p)'
<1>1. LogOK(p) /\ Exists(p) /\ project[p] \in Row
  BY DEF LedgerInv, IInv, TypeOK, Update, Exists
<1>2. audit' = audit \cup {[action |-> "PROJECT_UPDATED", entityId |-> p, by |-> r]}
  BY DEF Update, Audited
<1>3. Made(p)' = Made(p) /\ Deleted(p)' = Deleted(p)
  BY <1>2 DEF Made, Deleted, RecordsOf
<1>4. Exists(p)'
  <2>1. project'[p] = [project[p] EXCEPT !.writer = r]
    BY DEF Update, LedgerInv, IInv, TypeOK
  <2>2. project'[p].org \in Organization
    BY <1>1, <2>1 DEF Row
  <2> QED
    BY <2>2, ConstantFacts DEF Exists
<1>5. ~Unborn(p)
  BY <1>1 DEF Unborn, LedgerInv, IInv, RequestOK, Exists
<1> QED
  BY <1>1, <1>3, <1>4, <1>5 DEF LogOK

LEMMA RemoveTells ==
  ASSUME LedgerInv, NEW r \in Request, Remove(r), NEW p \in Id, p = target[r],
         Unborn(p)' => Unborn(p)
  PROVE  LogOK(p)'
<1>1. LogOK(p) /\ Exists(p)
  BY DEF LedgerInv, Remove
<1>2. audit' = audit \cup {[action |-> "PROJECT_DELETED", entityId |-> p, by |-> r]}
  BY DEF Remove, Audited
<1>3. /\ Made(p)' = Made(p)
      /\ Deleted(p)' = {[action |-> "PROJECT_DELETED", entityId |-> p, by |-> r]}
  <2>1. Deleted(p) = {}
    BY <1>1 DEF LogOK
  <2> QED
    BY <1>2, <2>1 DEF Made, Deleted, RecordsOf
<1>4. ~Exists(p)'
  BY DEF Remove, LedgerInv, IInv, TypeOK, Exists
<1>5. ~Unborn(p)
  BY <1>1 DEF Unborn, LedgerInv, IInv, RequestOK, Exists
<1> QED
  BY <1>1, <1>3, <1>4, <1>5 DEF LogOK

LEMMA NextLedgerInv == LedgerInv /\ [Next]_vars => LedgerInv'
<1> SUFFICES ASSUME LedgerInv, [Next]_vars, NEW p \in Id
             PROVE  LogOK(p)'
  BY NextIInv DEF LedgerInv
<1>1. LogOK(p)
  BY DEF LedgerInv
<1>2. CASE UNCHANGED vars
  BY <1>1, <1>2, LogUntouched DEF vars, rows, Unborn
<1>3. ASSUME NEW o \in Organization, Expire(o)
      PROVE  LogOK(p)'
  BY <1>1, <1>3, LogUntouched DEF Expire, rows, Unborn
<1>4. ASSUME NEW r \in Request, Step(r)
      PROVE  LogOK(p)'
  <2>1. Unborn(p)' => Unborn(p)
    BY <1>4, BirthIsOnce
  <2>2. CASE BeginRead(r) \/ BeginCreate(r) \/ BeginChange(r) \/ Refuse(r) \/ Get(r) \/ Load(r)
             \/ Store(r) \/ Gone(r) \/ Invalidate(r) \/ Fail(r)
    <3>1. UNCHANGED <<project, removed, audit>>
      BY <2>2 DEF BeginRead, BeginCreate, BeginChange, Refuse, Get, Load, Store, Gone,
                  Invalidate, Fail, rows
    <3> QED
      BY <1>1, <2>1, <3>1, LogUntouched
  <2>3. CASE Create(r)
    <3>1. Audited(r, "PROJECT_CREATED", r) /\ r \in Id /\ UNCHANGED removed
      BY <2>3, ConstantFacts DEF Create, Committed
    <3>2. CASE p = r
      <4>1. pc'[r] = "invalidate"
        BY <2>3, GotoEffect DEF Create, Committed, LedgerInv, IInv, Running, Writing
      <4>2. ~Unborn(r)'
        BY <4>1 DEF Unborn
      <4> QED
        BY <2>3, <3>2, <4>2, CreateTells
    <3>3. CASE p # r
      <4>1. project'[p] = project[p]
        BY <2>3, <3>3 DEF Create, LedgerInv, IInv, TypeOK
      <4> QED
        BY <2>1, <3>1, <3>3, <4>1, LogElsewhere
    <3> QED
      BY <3>2, <3>3
  <2>4. ASSUME Update(r) \/ Remove(r)
        PROVE  LogOK(p)'
    <3>1. PICK t \in Id : t = target[r]
      BY <2>4 DEF Update, Remove, LedgerInv, IInv, RequestOK
    <3>2. CASE p = t
      BY <2>1, <2>4, <3>1, <3>2, UpdateTells, RemoveTells
    <3>3. CASE p # t
      <4>1. project'[p] = project[p] /\ UNCHANGED removed
        BY <2>4, <3>1, <3>3 DEF Update, Remove, Committed, LedgerInv, IInv, TypeOK
      <4>2. Audited(r, "PROJECT_UPDATED", t) \/ Audited(r, "PROJECT_DELETED", t)
        BY <2>4, <3>1 DEF Update, Remove
      <4> QED
        BY <2>1, <3>1, <3>3, <4>1, <4>2, LogElsewhere
    <3> QED
      BY <3>2, <3>3
  <2>5. CASE RemoveOrganization(r)
    <3>1. PICK o \in Organization \ removed :
            /\ removed' = removed \cup {o}
            /\ project' = [q \in Id |-> IF project[q].org = o THEN NoRow ELSE project[q]]
      BY <2>5 DEF RemoveOrganization
    <3>2. audit' = audit
      BY <2>5 DEF RemoveOrganization
    <3>3. Made(p)' = Made(p) /\ Deleted(p)' = Deleted(p)
      BY <3>2 DEF Made, Deleted, RecordsOf
    <3>4. Exists(p)' => Exists(p)
      BY <3>1 DEF Exists
    <3>5. removed' # {}
      BY <3>1
    <3> QED
      BY <1>1, <2>1, <3>2, <3>3, <3>4, <3>5 DEF LogOK
  <2> QED
    BY <1>4, <2>2, <2>3, <2>4, <2>5 DEF Step, Proceed
<1> QED
  BY <1>2, <1>3, <1>4 DEF Next

\* The log and the rows tell the same of every project, in any order of the
\* requests and with any failure between a commit and what follows it: create,
\* update and remove write the row and its record in one transaction, and
\* remove finds the row or leaves no record.
THEOREM LogTellsProjects == Spec => []AuditTellsProjects
<1>1. LedgerInv => AuditTellsProjects
  <2> SUFFICES ASSUME LedgerInv, NEW p \in Id
               PROVE  /\ Cardinality(Made(p)) <= 1 /\ Cardinality(Deleted(p)) <= 1
                      /\ Exists(p) => Made(p) # {} /\ Deleted(p) = {}
                      /\ Made(p) # {} /\ Deleted(p) = {} /\ removed = {} => Exists(p)
    BY DEF AuditTellsProjects, Made, Deleted, RecordsOf
  <2>1. LogOK(p) /\ audit \subseteq Record
    BY DEF LedgerInv, IInv, TypeOK
  <2>2. \A a, b \in Made(p) : a = b
    <3>1. ASSUME NEW a \in Made(p)
          PROVE  a = [action |-> "PROJECT_CREATED", entityId |-> p, by |-> p]
      <4>1. a \in Record /\ a.action = "PROJECT_CREATED" /\ a.entityId = p /\ a.by = p
        BY <2>1 DEF LogOK, Made, RecordsOf
      <4> QED
        BY <4>1 DEF Record
    <3> QED
      BY <3>1
  <2>3. ASSUME NEW S, \A a, b \in S : a = b
        PROVE  Cardinality(S) <= 1
    <3>1. CASE S = {}
      BY <3>1, FS_EmptySet
    <3>2. CASE S # {}
      <4>1. PICK a \in S : TRUE
        BY <3>2
      <4>2. S = {a}
        BY <2>3, <4>1
      <4>3. Cardinality({a}) = 1
        BY FS_Singleton
      <4>4. Cardinality(S) = 1
        BY <4>2, <4>3, Zenon
      <4> QED
        BY <4>4
    <3> QED
      BY <3>1, <3>2
  <2>4. Cardinality(Made(p)) <= 1
    BY <2>2, <2>3
  <2>5. Cardinality(Deleted(p)) <= 1
    <3>1. \A a, b \in Deleted(p) : a = b
      BY <2>1 DEF LogOK
    <3> QED
      BY <2>3, <3>1
  <2> QED
    BY <2>1, <2>4, <2>5 DEF LogOK
<1> QED
  BY <1>1, InitLedgerInv, NextLedgerInv, PTL DEF Spec
=============================================================================
