------------------------------- MODULE Listing -------------------------------
(***************************************************************************)
(* A client reads the tasks with a label page after page, as               *)
(* TasksService.findAll answers, while labels are put on tasks and taken   *)
(* off.                                                                    *)
(*                                                                         *)
(* A page is two queries sent together, without a transaction: the rows at *)
(* an offset and the number of all that match.  Rows are sorted by one     *)
(* column that is not unique, so rows with one value come in any order, a  *)
(* different one for every page.  The other filters read columns of the    *)
(* task; labels stand for whatever makes a task match or stop matching.    *)
(***************************************************************************)
EXTENDS Labels, Sequences

CONSTANTS Limits, \* the page sizes a client may ask for
          Columns \* the columns to sort by: the value each task has

ASSUME ListingAssumption ==
  /\ IsFiniteSet(Task)
  /\ Limits \subseteq 1 .. 100
  /\ Columns \subseteq [Task -> Int]

VARIABLES
  by,     \* the label asked for
  column, \* the column they are sorted by
  limit,  \* rows on a page
  page,   \* the page asked for
  todo,   \* the queries for it that have not been answered
  total,  \* tasks that match, by the last count
  shown,  \* the rows answered so far, over all pages
  (* Of the walk so far, for the properties: *)
  always, \* the tasks that have matched all the time
  lost,   \* has a task stopped matching?
  gained, \* has a task begun to match?
  torn    \* has one between the count and the rows of one page?

query == <<by, column, limit>>
walk == <<page, todo, total, shown>>
history == <<always, lost, gained, torn>>

-----------------------------------------------------------------------------

Seqs == INSTANCE SequencesExt

Queries == {"rows", "count"}

\* where: { labels: { some: { labelId } } }.
Matching == {t \in tasks : <<t, by>> \in taskLabels}

\* orderBy one column: any order among the rows that have one value.
Orders(rows) ==
  {s \in Seqs!SetToSeqs(rows) : \A i, j \in DOMAIN s : i < j => column[s[i]] <= column[s[j]]}

\* Mutant: pages are counted from 0.
SkipFromZero(p, n) == p * n

\* Mutant: the offset of the page is a number of pages.
SkipPages(p, n) == p - 1

Skip(p, n) == (p - 1) * n

\* skip and take.
Slice(s, from, n) == SubSeq(s, from + 1, IF Len(s) < from + n THEN Len(s) ELSE from + n)

\* Mutant: Math.floor.
TotalPagesFloor(n, size) == n \div size

\* Math.ceil(total / limit).
TotalPages(n, size) == (n + size - 1) \div size

ListInit ==
  /\ Init
  /\ by = Null /\ column = Null /\ limit = 0
  /\ page = 0 /\ todo = {} /\ total = 0 /\ shown = <<>>
  /\ always = {} /\ lost = FALSE /\ gained = FALSE /\ torn = FALSE

\* The client asks for the first page.
Open ==
  /\ page = 0
  /\ by' \in {l \in Label : Exists(l)}
  /\ column' \in Columns
  /\ limit' \in Limits
  /\ page' = 1
  /\ todo' = Queries
  /\ UNCHANGED <<vars, total, shown, lost, gained, torn>>
  /\ always' = Matching'

FindMany ==
  /\ "rows" \in todo
  /\ \E s \in Orders(Matching) : shown' = shown \o Slice(s, Skip(page, limit), limit)
  /\ todo' = todo \ {"rows"}
  /\ UNCHANGED <<page, total>>

Count ==
  /\ "count" \in todo
  /\ total' = Cardinality(Matching)
  /\ todo' = todo \ {"count"}
  /\ UNCHANGED <<page, shown>>

\* The client asks for the next page while meta.totalPages says there is one.
Turn ==
  /\ page > 0 /\ todo = {}
  /\ page < TotalPages(total, limit)
  /\ page' = page + 1
  /\ todo' = Queries
  /\ UNCHANGED <<total, shown>>

Ended == page > 0 /\ todo = {} /\ page >= TotalPages(total, limit)

\* What another request does to the tasks that match.
Watch ==
  IF page = 0 \/ Ended
    THEN UNCHANGED history
    ELSE LET gains == Matching' \ Matching # {} IN
         /\ always' = always \cap Matching'
         /\ lost' = (lost \/ Matching \ Matching' # {})
         /\ gained' = (gained \/ gains)
         /\ torn' = (torn \/ (gains /\ todo = {"rows"}))

ListNext ==
  \/ Open
  \/ (FindMany \/ Count \/ Turn) /\ UNCHANGED <<vars, query, history>>
  \/ Next /\ UNCHANGED <<query, walk>> /\ Watch

ListSpec == ListInit /\ [][ListNext]_<<vars, query, walk, history>>

-----------------------------------------------------------------------------
(* Properties.                                                             *)

\* Do two tasks have one value of the column sorted by?
Tied == page > 0 /\ \E t, u \in Task : t # u /\ column[t] = column[u]

\* A task that matches from the first page to the last is missing only if a task
\* stopped matching (the rows after it move up, past a page), if one began to
\* between the two queries of a page, or if the sort column does not tell tasks
\* apart.  One is shown twice only if a task began to match (the rows after it
\* move down, onto the next page) or, again, if tasks are not told apart.
SlipsExplained ==
  Tied \/ /\ Ended => lost \/ torn \/ always \subseteq Seqs!ToSet(shown)
          /\ gained \/ Seqs!IsInjective(shown)

\* If no task began or stopped to match, the pages have one row for each task
\* that matches, whether the last page is full, not full or the only one, and
\* whatever the sort column.
QuietWalkIsExact ==
  Ended /\ ~lost /\ ~gained => Len(shown) = Cardinality(always)
=============================================================================
