------------------------------ MODULE Listings ------------------------------
(***************************************************************************)
(* Reading a table page by page (ListServers, ListRegistries): every page  *)
(* is one request that counts the matching rows and then selects some of   *)
(* them, in two statements of their own snapshots, while others create,    *)
(* update and delete rows.                                                 *)
(*                                                                         *)
(* A row is its id; what matters of it is the value of the column sorted   *)
(* by.  Out stands for a row that is deleted, or that the filter leaves    *)
(* out.  grown and shrunk are observers, read by properties only.          *)
(***************************************************************************)
EXTENDS Integers, FiniteSets, Sequences, SequencesExt

CONSTANTS
    RowCount,           \* ids 1 .. RowCount
    KeyCount,           \* values of the column: 1 .. KeyCount
    DefaultPageSize, MaxPageSize

ASSUME PageSizes == MaxPageSize \in Nat /\ DefaultPageSize \in 1..MaxPageSize
ASSUME TableBounds == RowCount \in Nat /\ KeyCount \in Nat

VARIABLES
    table,          \* the column of every row
    walk,           \* the client's way through the pages
    grown, shrunk   \* rows have come in, or gone, since it began

listVars == <<table, walk, grown, shrunk>>

Ids == 1..RowCount
Keys == 1..KeyCount
Out == 0
Matching == {i \in Ids : table[i] # Out}

\* Variant of Before: ORDER BY without the id.
BeforeUntied(desc, i, j) ==
    IF desc THEN table[i] >= table[j] ELSE table[i] <= table[j]

\* ORDER BY the column, ascending or descending, then by id.
Before(desc, i, j) ==
    \/ IF desc THEN table[i] > table[j] ELSE table[i] < table[j]
    \/ table[i] = table[j] /\ i < j

\* The orders in which a SELECT may answer all matching rows.
Orders(desc) ==
    {s \in [1..Cardinality(Matching) -> Matching] :
        /\ IsInjective(s)
        /\ \A a, b \in DOMAIN s : a < b => Before(desc, s[a], s[b])}

\* Variant of Clamped: the upper limit is forgotten.
ClampedBelow(size) == IF size < 1 THEN DefaultPageSize ELSE size

\* page_size of the query: missing or senseless is the default, the rest is cut.
Clamped(size) ==
    IF size < 1 THEN DefaultPageSize ELSE IF size > MaxPageSize THEN MaxPageSize ELSE size

Offset(page, size) == (page - 1) * size

TotalPages(total, size) == IF total > 0 THEN (total + size - 1) \div size ELSE 0

Least(a, b) == IF a < b THEN a ELSE b

NoWalk(size, desc) ==
    [pc |-> "count", page |-> 1, size |-> Clamped(size), desc |-> desc, total |-> 0, seen |-> <<>>]

ListInit ==
    /\ table \in [Ids -> Keys \cup {Out}]
    /\ \E size \in 0..(MaxPageSize + 1), desc \in BOOLEAN : walk = NoWalk(size, desc)
    /\ grown = FALSE /\ shrunk = FALSE

WalkDone == walk.pc = "done"

\* A row is created, updated or deleted; an update of the column takes it out of
\* one place and puts it into another.
TableChange(i) ==
    /\ ~WalkDone
    /\ \E key \in (Keys \cup {Out}) \ {table[i]} :
          /\ table' = [table EXCEPT ![i] = key]
          /\ grown' = (grown \/ key # Out)
          /\ shrunk' = (shrunk \/ table[i] # Out)
    /\ UNCHANGED walk

\* SELECT COUNT(*): no rows, no second statement.
Count ==
    /\ walk.pc = "count"
    /\ LET total == Cardinality(Matching)
       IN walk' = [walk EXCEPT !.total = total, !.pc = IF total = 0 THEN "done" ELSE "select"]
    /\ UNCHANGED <<table, grown, shrunk>>

\* SELECT ... LIMIT OFFSET; the client takes the next page as long as
\* total_pages says there is one.
SelectPage ==
    /\ walk.pc = "select"
    /\ \E order \in Orders(walk.desc) :
          LET from == Offset(walk.page, walk.size)
              last == walk.page >= TotalPages(walk.total, walk.size)
          IN walk' = [walk EXCEPT !.seen = @ \o SubSeq(order, from + 1, Least(from + walk.size, Len(order))),
                                  !.page = @ + 1, !.pc = IF last THEN "done" ELSE "count"]
    /\ UNCHANGED <<table, grown, shrunk>>

ListNext == Count \/ SelectPage \/ \E i \in Ids : TableChange(i)

-----------------------------------------------------------------------------
(* Properties *)

ListTypeOK ==
    /\ table \in [Ids -> Keys \cup {Out}]
    /\ walk.pc \in {"count", "select", "done"}
    /\ walk.size \in 1..MaxPageSize
    /\ walk.total \in 0..RowCount
    /\ walk.seen \in Seq(Ids)

\* The pages divide the table: without a change in between a client that goes
\* through all of them gets every matching row once and in order; and only
\* rows that came in, by creation or by an update of the column, can make him
\* see a row twice.
PagesDivide ==
    /\ WalkDone /\ ~grown /\ ~shrunk => walk.seen \in Orders(walk.desc)
    /\ ~grown => IsInjective(walk.seen)
=============================================================================
