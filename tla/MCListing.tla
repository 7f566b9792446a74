----------------------------- MODULE MCListing -----------------------------
(***************************************************************************)
(* Instances of Listing for TLC.                                           *)
(***************************************************************************)
EXTENDS Listing

\* A query: limit, sort, dates, status, and whether the sort is repeated with a cursor.
Query(limit, by, order, from, to, status, repeats) ==
  [limit |-> limit, sortBy |-> by, sortOrder |-> order, from |-> from, to |-> to,
   status |-> status, repeats |-> repeats]

\* The default list; lists by every other field, which some kinds refuse; one with an
\* open range of dates; one that repeats its sort; and ones with a wrong limit, order or range.
McQueries ==
  {Query(1, by, "asc", None, None, None, FALSE) :
     by \in {"name", "updatedAt", "maxAmount", "processingTimeMs", "eventType"}}
  \cup {Query(None, None, None, None, None, None, FALSE),
        Query(2, "createdAt", "desc", None, 1, "ACTIVE", FALSE),
        Query(1, "createdAt", None, 0, None, None, TRUE),
        Query(0, None, None, None, None, None, FALSE),
        Query(3, None, None, None, None, None, FALSE),
        Query(None, None, None, 1, 0, None, FALSE),
        Query(1, None, "up", None, None, None, FALSE)}

\* Sorting that is not the default order.
McSorted == {Query(1, "createdAt", "ASC", None, None, None, FALSE)}

Row(d, v) == [created_at |-> d, updated_at |-> d, value |-> v, status |-> "ACTIVE"]

\* Three or four rows of the first day; ties in every column.
McTables ==
  {[i \in Ids |-> IF i \in s THEN Row(0, i % 2) ELSE None] : s \in {Ids, Ids \ {2}}}
=============================================================================
