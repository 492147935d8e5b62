------------------------------- MODULE Listing -------------------------------
(***************************************************************************)
(* The public list of challenges, read page by page while rows change, as  *)
(* written in                                                              *)
(*   src/server/src/modules/challenges/challenges.service.ts (list)        *)
(*                                                                         *)
(* A page is one query. The cursor is the sort value and the id of the     *)
(* last row of a page. A created_at has microseconds in the database; the  *)
(* cursor, an ISO string of a JavaScript Date, has milliseconds.           *)
(***************************************************************************)
EXTENDS Naturals, FiniteSets

CONSTANTS
  Row,          \* challenges, by id
  PageSize,
  MaxValue,     \* bound: sort values
  MaxMicro,     \* bound: microseconds of a millisecond
  MaxEdits      \* bound: changes of rows while the list is read

ASSUME ListingAssumption == /\ Row \subseteq Nat
                            /\ PageSize \in Nat \ {0}
                            /\ MaxValue \in Nat /\ MaxMicro \in Nat /\ MaxEdits \in Nat

VARIABLES
  sort,
  value,      \* of a row: createdAt in milliseconds, endDate or viewCount
  micro,      \* of a row: what createdAt has beyond the millisecond
  listed,     \* rows that fit the conditions: public, and not filtered out
  cursor,     \* nextCursor
  page,       \* "first", "next" or "done"
  shown,      \* history: how often a row was on a page
  steady,     \* history: rows listed all along with one sort value
  blurred,    \* history: rows of one millisecond with the last row of a page
  edits

listingVars == <<sort, value, micro, listed, cursor, page, shown, steady, blurred, edits>>

Sort == {"latest", "deadline", "popular"}

ListingTypeOK ==
  /\ sort \in Sort
  /\ value \in [Row -> 0..MaxValue]
  /\ micro \in [Row -> 0..MaxMicro]
  /\ listed \cup steady \cup blurred \subseteq Row
  /\ cursor \in [value : 0..MaxValue, id : Nat]
  /\ page \in {"first", "next", "done"}
  /\ shown \in [Row -> Nat]
  /\ edits \in 0..MaxEdits

\* endDate is written from a Date, so only createdAt is finer than the cursor.
ListingInit ==
  /\ sort \in Sort
  /\ value \in [Row -> 0..MaxValue]
  /\ micro \in [Row -> 0..MaxMicro]
  /\ sort # "latest" => \A r \in Row : micro[r] = 0
  /\ listed \in SUBSET Row
  /\ cursor = [value |-> 0, id |-> 0]
  /\ page = "first"
  /\ shown = [r \in Row |-> 0]
  /\ steady = listed
  /\ blurred = {}
  /\ edits = 0

\* Sort values v, w with microseconds m, n.
Earlier(v, m, w, n) == v < w \/ (v = w /\ m < n)

\* orderBy: deadline ascends, the others descend, ids with them.
Precedes(v, m, i, w, n, j) ==
  IF sort = "deadline"
  THEN Earlier(v, m, w, n) \/ (v = w /\ m = n /\ i < j)
  ELSE Earlier(w, n, v, m) \/ (v = w /\ m = n /\ i > j)

ComesBefore(r, s) == Precedes(value[r], micro[r], r, value[s], micro[s], s)

KeysetCondition_NoTie(r) ==
  IF sort = "deadline" THEN Earlier(cursor.value, 0, value[r], micro[r])
                       ELSE Earlier(value[r], micro[r], cursor.value, 0)

KeysetCondition(r) == Precedes(cursor.value, 0, cursor.id, value[r], micro[r], r)

Remaining == {r \in listed : page = "next" => KeysetCondition(r)}

\* The rows that a cursor at a row cannot tell from it.
SameMillisecond(last) ==
  {r \in Row : value[r] = value[last] /\ (micro[r] # 0 \/ micro[last] # 0)}

\* list: limit + 1 rows are read, the one too many tells that there are more.
ListPage ==
  /\ page # "done"
  /\ \E items \in SUBSET Remaining :
       /\ \A r \in items, s \in Remaining \ items : ComesBefore(r, s)
       /\ shown' = [r \in Row |-> IF r \in items THEN shown[r] + 1 ELSE shown[r]]
       /\ \/ /\ items = Remaining /\ Cardinality(items) <= PageSize
             /\ page' = "done"
             /\ UNCHANGED <<cursor, blurred>>
          \/ /\ items # Remaining /\ Cardinality(items) = PageSize
             /\ page' = "next"
             /\ \E last \in items :
                  /\ \A r \in items \ {last} : ComesBefore(r, last)
                  /\ cursor' = [value |-> value[last], id |-> last]
                  /\ blurred' = blurred \cup SameMillisecond(last)
  /\ UNCHANGED <<sort, value, micro, listed, steady, edits>>

Edit(r) ==
  /\ edits < MaxEdits
  /\ edits' = edits + 1
  /\ steady' = steady \ {r}
  /\ UNCHANGED <<sort, micro, cursor, page, shown, blurred>>

\* A row is published, closed, rejected or hidden.
Relist(r) ==
  /\ Edit(r)
  /\ listed' = IF r \in listed THEN listed \ {r} ELSE listed \cup {r}
  /\ UNCHANGED value

\* A view is counted, or a deadline is moved.
Revalue(r) ==
  /\ Edit(r)
  /\ \E v \in 0..MaxValue :
       /\ \/ sort = "popular" /\ v = value[r] + 1
          \/ sort = "deadline" /\ v # value[r]
       /\ value' = [value EXCEPT ![r] = v]
  /\ UNCHANGED listed

ListingNext == ListPage \/ \E r \in Row : Relist(r) \/ Revalue(r)

-----------------------------------------------------------------------------
\* "The id is always the second sort key, so that rows of one value are in a
\* definite order": who reads to the end has seen every row that stayed in the
\* list with one sort value, and none of them twice, whatever happened to the
\* others. Rows created in the millisecond of the last row of a page may be
\* missed.
PagesComplete ==
  \A r \in steady : /\ shown[r] <= 1
                    /\ page = "done" /\ r \notin blurred => shown[r] = 1
=============================================================================
