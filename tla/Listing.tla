------------------------------ MODULE Listing ------------------------------
(***************************************************************************)
(* The lists of rules, limits, transaction validations and audit events:   *)
(* keyset pagination over a table that other requests change between two   *)
(* pages.  A client asks for a first page and then follows nextCursor; the *)
(* limit checker does the same, without the HTTP layer, to collect the     *)
(* active limits of a validation (kind "check").                           *)
(*                                                                         *)
(* The filters of a list stand for one test on the status of a row and one *)
(* on its creation date.  A row has its two time stamps and one other      *)
(* column to sort by (name, status, max_amount, processing_time_ms or      *)
(* event_type).  Time is counted in days.                                  *)
(***************************************************************************)
EXTENDS Integers, Sequences, FiniteSets

CONSTANTS
  Ids,                     \* ids of rows; UUIDs are in no relation to the order of creation
  Values,                  \* values of the other column
  Queries,                 \* the queries clients start with
  Tables,                  \* the tables the system may start with
  DefaultPaginationLimit,  \* rows of a page of rules or limits
  MaxPaginationLimit,
  DefaultFilterLimit,      \* rows of a page of validations or audit events
  MaxFilterLimit,
  DateRange,               \* DefaultTransactionValidationDateRangeDays
  MaxTime,                 \* bound: the last day
  MaxChanges,              \* bound: changes of the table during a session
  None

Kinds == {"rules", "limits", "validations", "audit", "check"}
Columns == {"created_at", "updated_at", "value"}

\* A row; GONE is deleted_at IS NOT NULL.
Rows == [created_at : Nat, updated_at : Nat, value : Values, status : {"ACTIVE", "INACTIVE", "GONE"}]

Codes == {"TRC-0023", "TRC-0040", "TRC-0041", "TRC-0042", "TRC-0043", "TRC-0044", "TRC-0045"}

\* The words the code itself puts into a query, a cursor, a row or an answer.
Words == {"ASC", "DESC", "asc", "desc", "createdAt", "ACTIVE"} \cup Columns \cup Codes

\* The fields clients may sort by, and a cursor: validations name the column instead.
SortFields == {"createdAt", "updatedAt", "name", "status", "maxAmount", "processingTimeMs", "eventType"}
Cursors == [id : Ids, v : Nat, sortBy : SortFields \cup Columns, sortOrder : {"ASC", "DESC"}]

ASSUME ListingAssumption ==
  /\ Ids \subseteq Nat /\ Values \subseteq Nat
  /\ \A q \in Queries : /\ q.limit \in Int \cup {None}
                        /\ q.from \in Nat \cup {None} /\ q.to \in Nat \cup {None}
  /\ Tables \subseteq [Ids -> Rows \cup {None}]
  /\ \A t \in Tables : IsFiniteSet({i \in Ids : t[i] # None})
  /\ {DefaultPaginationLimit, MaxPaginationLimit, DefaultFilterLimit, MaxFilterLimit} \subseteq Nat \ {0}
  /\ DateRange \in Nat /\ MaxTime \in Nat /\ MaxChanges \in Nat
  /\ None \notin Int \cup Rows \cup Cursors \cup Words

VARIABLES
  table,    \* the table that is listed
  now,      \* the current day
  changes,  \* changes of the table so far
  kind,     \* which list the session is about
  query,    \* the query of the first request
  cursor,   \* the cursor the client holds, None before the first page
  state,    \* idle, paging, done, or the code of the error the client was answered
  page,     \* the last page: a sequence of [id, v], v the sort value it was read with
  seen,     \* all rows delivered so far
  pages,    \* history: pages delivered so far
  stable    \* history: the rows in view, with the same sort value, since the first page

session == <<kind, query, cursor, state, page, seen, pages>>
vars == <<table, now, changes, kind, query, cursor, state, page, seen, pages, stable>>

Entries == [id : Ids, v : Nat]

\* Every variable has its type.
TypeOK ==
  /\ table \in [Ids -> Rows \cup {None}]
  /\ now \in 0 .. MaxTime /\ changes \in 0 .. MaxChanges
  /\ kind \in Kinds /\ query \in Queries
  /\ cursor \in Cursors \cup {None}
  /\ state \in {"idle", "paging", "done"} \cup Codes
  /\ state = "paging" => cursor # None
  /\ page \in Seq(Entries)
  /\ seen \subseteq Entries /\ pages \in Nat /\ stable \subseteq Ids

Init ==
  /\ table \in Tables
  /\ now = 0 /\ changes = 0
  /\ kind \in Kinds /\ query \in Queries
  /\ cursor = None /\ state = "idle" /\ page = <<>> /\ seen = {} /\ pages = 0 /\ stable = {}
-----------------------------------------------------------------------------
(* The HTTP layer: a query is validated, completed and made a filter.      *)

\* strings.ToUpper, strings.ToLower on the words for a direction.
Upper(o) == CASE o = "asc" -> "ASC" [] o = "desc" -> "DESC" [] OTHER -> o
Lower(o) == CASE o = "ASC" -> "asc" [] o = "DESC" -> "desc" [] OTHER -> o

Default(x, d) == IF x = None THEN d ELSE x

\* The code for a limit out of its range, or None.
ValidatePaginationLimit(limit, max) ==
  IF limit = None THEN None
  ELSE IF limit < 1 THEN "TRC-0041"
  ELSE IF limit > max THEN "TRC-0040"
  ELSE None

ValidateCursorConsistency(q) == q.cursor # None => q.sortBy = None /\ q.sortOrder = None

ValidateSortBy(sortBy, allowed) == sortBy \in allowed \cup {None}

ValidateSortOrder(order) == order # None => Upper(order) \in {"ASC", "DESC"}

NormalizeSortOrder(order) == Upper(Default(order, "DESC"))

\* The dates of validations and audit events: the range does not end before it starts.
ValidateDates(q) == q.from # None /\ q.to # None => q.from <= q.to

\* The checks the four inputs share, in their order.
InputError(q, allowed, max) ==
  IF ValidatePaginationLimit(q.limit, max) # None THEN ValidatePaginationLimit(q.limit, max)
  ELSE IF ~ValidateCursorConsistency(q) THEN "TRC-0045"
  ELSE IF ~ValidateSortBy(q.sortBy, allowed) THEN "TRC-0043"
  ELSE IF ~ValidateSortOrder(q.sortOrder) THEN "TRC-0042"
  ELSE None

\* The checks of the two inputs with dates.
DatedInputError(q, allowed) ==
  IF InputError(q, allowed, MaxFilterLimit) # None THEN InputError(q, allowed, MaxFilterLimit)
  ELSE IF ~ValidateDates(q) THEN "TRC-0023"
  ELSE None

\* Validate of ListRulesInput, ListLimitsInput, ListTransactionValidationsInput and
\* ListAuditEventsInput.
RulesInputError(q) == InputError(q, {"createdAt", "updatedAt", "name", "status"}, MaxPaginationLimit)
LimitsInputError(q) == InputError(q, {"createdAt", "updatedAt", "name", "maxAmount"}, MaxPaginationLimit)
ValidationsInputError(q) == DatedInputError(q, {"createdAt", "processingTimeMs"})
AuditInputError(q) == DatedInputError(q, {"createdAt", "eventType"})

\* SetDefaults of an input: the sort only when there is no cursor.
InputDefaults(q, limit) ==
  IF q.cursor # None
    THEN [q EXCEPT !.limit = Default(@, limit)]
    ELSE [q EXCEPT !.limit = Default(@, limit), !.sortBy = Default(@, "createdAt"),
                   !.sortOrder = NormalizeSortOrder(@)]

\* toListFilter, ToListLimitsFilter: rules and limits have no dates to filter by.
toListFilter(q) == [InputDefaults(q, DefaultPaginationLimit) EXCEPT !.from = None, !.to = None]
ToListLimitsFilter(q) ==
  [InputDefaults(q, DefaultPaginationLimit) EXCEPT !.from = None, !.to = None, !.sortOrder = Upper(@)]

ToTransactionValidationFilters(q) == InputDefaults(q, DefaultFilterLimit)
toAuditEventFilters(q) == InputDefaults(q, DefaultFilterLimit)
-----------------------------------------------------------------------------
(* The services: defaults where the filter has nothing.                    *)

\* ListRulesQuery.Execute.
RulesDefaults(f) ==
  [f EXCEPT !.limit = IF @ = 0 THEN DefaultPaginationLimit ELSE @,
            !.sortBy = Default(@, "createdAt"), !.sortOrder = NormalizeSortOrder(@)]

\* ListLimitsFilter.ApplyDefaults; the direction ends up in lower case.
ApplyDefaults(f) ==
  [f EXCEPT !.limit = IF @ > MaxPaginationLimit THEN MaxPaginationLimit ELSE @,
            !.sortBy = Default(@, "createdAt"), !.sortOrder = Lower(Default(@, "desc"))]

\* The default range: the last days and all of today, only when no date is given.
WithRange(f) ==
  IF f.from = None /\ f.to = None
    THEN [f EXCEPT !.from = IF now > DateRange THEN now - DateRange ELSE 0, !.to = now + 1]
    ELSE f

\* TransactionValidationFilters.SetDefaults, AuditEventFilters.SetDefaults.
ValidationsDefaults(f) ==
  [WithRange(f) EXCEPT !.sortBy = Default(@, "createdAt"), !.sortOrder = NormalizeSortOrder(@)]
AuditDefaults(f) ==
  [WithRange(f) EXCEPT !.sortBy = Default(@, "createdAt"), !.sortOrder = NormalizeSortOrder(@)]
-----------------------------------------------------------------------------
(* The repositories: filter, cursor, order, one row more than asked for.   *)

\* mapRuleSortFieldToColumn and the like; the sort value of a row is that column.
RuleColumn(field) ==
  CASE field = "createdAt" -> "created_at" [] field = "updatedAt" -> "updated_at" [] OTHER -> "value"
LimitColumn(field) ==
  CASE field = "createdAt" -> "created_at" [] field = "updatedAt" -> "updated_at" [] OTHER -> "value"
ValidationColumn(field) == IF field = "processingTimeMs" THEN "value" ELSE "created_at"
AuditColumn(field) == IF field = "eventType" THEN "value" ELSE "created_at"

\* The status a filter asks for.
StatusMatches(f, r) == f.status # None => r.status = f.status

\* created_at within the dates of the filter, both ends included.
DatesMatch(f, r) ==
  /\ f.from # None => r.created_at >= f.from
  /\ f.to # None => r.created_at <= f.to

\* The WHERE clause without the cursor: applyFilters of each repository.
RulesMatch(f, r) == r.status # "GONE" /\ StatusMatches(f, r)
LimitsMatch(f, r) == r.status # "GONE" /\ StatusMatches(f, r)
ValidationsMatch(f, r) == DatesMatch(f, r) /\ StatusMatches(f, r)
AuditMatch(f, r) == DatesMatch(f, r) /\ StatusMatches(f, r)

\* ORDER BY column, id.
Before(order, a, b) ==
  LET less(x, y) == x.v < y.v \/ (x.v = y.v /\ x.id < y.id) IN
    IF order = "DESC" THEN less(b, a) ELSE less(a, b)

\* Mutant of First: always ascending.
FirstAscending(entries, order, n) ==
  [m \in 1 .. IF Cardinality(entries) < n THEN Cardinality(entries) ELSE n |->
     CHOOSE e \in entries : Cardinality({d \in entries : Before("ASC", d, e)}) = m - 1]

\* The first n entries in that order.
First(entries, order, n) ==
  [m \in 1 .. IF Cardinality(entries) < n THEN Cardinality(entries) ELSE n |->
     CHOOSE e \in entries : Cardinality({d \in entries : Before(order, d, e)}) = m - 1]

\* Mutants of Beyond: the tie-breaker is forgotten, in two ways.
BeyondValue(order, c, e) == IF order = "DESC" THEN e.v < c.v ELSE e.v > c.v
BeyondOrEqual(order, c, e) == IF order = "DESC" THEN e.v <= c.v ELSE e.v >= c.v

\* buildCursorCondition: the rows after the cursor.
Beyond(order, c, e) ==
  LET after(x, y) == IF order = "DESC" THEN x < y ELSE x > y IN
    after(e.v, c.v) \/ (e.v = c.v /\ after(e.id, c.id))

\* buildNextCursor: the last row of the page, how it was sorted.
NextCursor(entries, limit, by, order) ==
  LET last == entries[limit] IN [id |-> last.id, v |-> last.v, sortBy |-> by, sortOrder |-> order]

\* The result of List from the rows it fetched, one more than asked for if there are.
Trimmed(fetched, limit, by, order) ==
  IF Len(fetched) > limit
    THEN [rows |-> SubSeq(fetched, 1, limit), next |-> NextCursor(fetched, limit, by, order)]
    ELSE [rows |-> fetched, next |-> None]

\* The result of List for the rows in view, sorted by a field that is column col.
Result(f, inView, col, by, order) ==
  LET entries == {[id |-> i, v |-> table[i][col]] : i \in inView}
      after == {e \in entries : f.cursor # None => Beyond(order, f.cursor, e)} IN
    Trimmed(First(after, order, f.limit + 1), f.limit, by, order)

\* What is answered: a result, or the code of an error.
Refused(code) == [rows |-> <<>>, next |-> None, code |-> code]
Answered(r) == [rows |-> r.rows, next |-> r.next, code |-> None]

\* The rows of the table.
Stored == {i \in Ids : table[i] # None}

\* Repository.List of rules: the sort of the cursor, whatever the filter says.
RulesList(f) ==
  LET by == IF f.cursor # None THEN f.cursor.sortBy ELSE f.sortBy
      order == IF f.cursor # None THEN Upper(f.cursor.sortOrder) ELSE f.sortOrder IN
    Answered(Result(f, {i \in Stored : RulesMatch(f, table[i])}, RuleColumn(by), by, order))

\* validateAndNormalizeSort of limits and validations.
NormalizedOrder(f) == NormalizeSortOrder(f.sortOrder)

\* applyCursorFilter of limits and validations, applyCursorPagination of audit events:
\* the sort of the cursor must be the sort of the request.
CursorAccepted(f, by, order) ==
  f.cursor # None => f.cursor.sortBy = by /\ f.cursor.sortOrder = order

\* LimitRepository.List.
LimitsList(f) ==
  LET by == Default(f.sortBy, "createdAt")
      order == NormalizedOrder(f) IN
    IF CursorAccepted(f, by, order)
      THEN Answered(Result(f, {i \in Stored : LimitsMatch(f, table[i])}, LimitColumn(by), by, order))
      ELSE Refused("TRC-0044")

\* TransactionValidationRepository.List; its cursors hold the name of the column.
ValidationsList(g) ==
  LET f == ValidationsDefaults(g)
      col == ValidationColumn(f.sortBy)
      order == NormalizedOrder(f) IN
    IF CursorAccepted(f, col, order)
      THEN Answered(Result(f, {i \in Stored : ValidationsMatch(f, table[i])}, col, col, order))
      ELSE Refused("TRC-0044")

\* AuditEventRepository.List.
AuditList(g) ==
  LET f == AuditDefaults(g) IN
    IF CursorAccepted(f, f.sortBy, f.sortOrder)
      THEN Answered(Result(f, {i \in Stored : AuditMatch(f, table[i])},
                           AuditColumn(f.sortBy), f.sortBy, f.sortOrder))
      ELSE Refused("TRC-0044")
-----------------------------------------------------------------------------
(* The queries and the handlers.                                           *)

ListLimitsQuery(f) == LimitsList(ApplyDefaults(f))
ListTransactionValidationsQuery(f) == ValidationsList(ValidationsDefaults(f))

ListRules(q) ==
  IF RulesInputError(q) # None THEN Refused(RulesInputError(q))
  ELSE RulesList(RulesDefaults(toListFilter(q)))

ListLimits(q) ==
  IF LimitsInputError(q) # None THEN Refused(LimitsInputError(q))
  ELSE ListLimitsQuery(ToListLimitsFilter(q))

ListTransactionValidations(q) ==
  IF ValidationsInputError(q) # None THEN Refused(ValidationsInputError(q))
  ELSE ListTransactionValidationsQuery(ToTransactionValidationFilters(q))

ListAuditEvents(q) ==
  IF AuditInputError(q) # None THEN Refused(AuditInputError(q))
  ELSE AuditList(toAuditEventFilters(q))

\* One turn of the loop of getApplicableLimits: straight to the repository.
CheckerPage(q) ==
  LimitsList([q EXCEPT !.status = "ACTIVE", !.limit = MaxPaginationLimit, !.sortBy = None,
                       !.sortOrder = None, !.from = None, !.to = None])
-----------------------------------------------------------------------------
(* The session and the changes around it.                                  *)

\* The request of the client: with a cursor it leaves the sort out, unless it repeats
\* what it asked for first.
Request ==
  LET q == [limit |-> query.limit, sortBy |-> query.sortBy, sortOrder |-> query.sortOrder,
            from |-> query.from, to |-> query.to, status |-> query.status, cursor |-> cursor] IN
    IF cursor # None /\ ~query.repeats THEN [q EXCEPT !.sortBy = None, !.sortOrder = None] ELSE q

Reply ==
  CASE kind = "rules" -> ListRules(Request)
    [] kind = "limits" -> ListLimits(Request)
    [] kind = "validations" -> ListTransactionValidations(Request)
    [] kind = "audit" -> ListAuditEvents(Request)
    [] kind = "check" -> CheckerPage(Request)

\* The column the session is sorted by.
SortColumn ==
  LET by == IF kind = "check" THEN "createdAt" ELSE Default(query.sortBy, "createdAt") IN
    CASE kind = "rules" -> RuleColumn(by)
      [] kind \in {"limits", "check"} -> LimitColumn(by)
      [] kind = "validations" -> ValidationColumn(by)
      [] kind = "audit" -> AuditColumn(by)

\* The ids of the rows of table t that the session is about on day d.
View(t, d) ==
  LET dated == kind \in {"validations", "audit"}
      given == query.from # None \/ query.to # None
      from == IF given THEN query.from ELSE d - DateRange
      to == IF given THEN query.to ELSE d + 1
      status == IF kind = "check" THEN "ACTIVE" ELSE query.status IN
    {i \in Ids : /\ t[i] # None
                 /\ status # None => t[i].status = status
                 /\ ~dated => t[i].status # "GONE"
                 /\ dated /\ from # None => t[i].created_at >= from
                 /\ dated /\ to # None => t[i].created_at <= to}

\* The rows that stay in view where they were.
Keep(t, d) ==
  {i \in stable \cap View(t, d) : t[i][SortColumn] = table[i][SortColumn]}

\* A page is requested and answered.
GetPage ==
  /\ state \in {"idle", "paging"}
  /\ \E r \in {Reply} :
       /\ page' = r.rows
       /\ seen' = seen \cup {r.rows[n] : n \in DOMAIN r.rows}
       /\ pages' = IF r.code = None THEN pages + 1 ELSE pages
       /\ cursor' = IF r.code = None THEN r.next ELSE cursor
       /\ state' = IF r.code # None THEN r.code ELSE IF r.next = None THEN "done" ELSE "paging"
  /\ stable' = IF state = "idle" THEN View(table, now) ELSE stable
  /\ UNCHANGED <<table, now, changes, kind, query>>

\* Another request stores row i anew.
Store(i, r) ==
  /\ changes < MaxChanges
  /\ changes' = changes + 1
  /\ table' = [table EXCEPT ![i] = r]
  /\ stable' = Keep(table', now)
  /\ UNCHANGED <<now, session>>

\* A new row becomes visible, perhaps a day after it got its time stamps.
Insert(i) ==
  /\ table[i] = None
  /\ \E d \in {now, now - 1} \cap Nat, v \in Values :
       Store(i, [created_at |-> d, updated_at |-> d, value |-> v, status |-> "ACTIVE"])

\* Rules and limits are changed and deleted.
Update(i) ==
  /\ kind \in {"rules", "limits", "check"}
  /\ table[i] # None /\ table[i].status # "GONE"
  /\ \E v \in Values, s \in {"ACTIVE", "INACTIVE", "GONE"} :
       Store(i, [table[i] EXCEPT !.value = v, !.status = s, !.updated_at = now])

Tick ==
  /\ now < MaxTime
  /\ now' = now + 1
  /\ stable' = Keep(table, now')
  /\ UNCHANGED <<table, changes, session>>

Next ==
  \/ GetPage
  \/ \E i \in Ids : Insert(i) \/ Update(i)
  \/ Tick

Spec == Init /\ [][Next]_vars
-----------------------------------------------------------------------------
(* Properties.                                                             *)

Direction == IF kind = "check" THEN "DESC" ELSE NormalizeSortOrder(query.sortOrder)

\* A client that has the last page has every row that was in view, with the same sort
\* value, since its first page, ties included, whatever was inserted, moved or deleted
\* meanwhile; for the limit checker: no limit that is active throughout goes unchecked.
NothingMissed == state = "done" => stable \subseteq {e.id : e \in seen}

\* A page goes on where the pages before it ended: in order, and strictly after all that
\* was delivered.  So no row is listed twice unless its sort value has changed.
InOrder ==
  [][pages' # pages =>
       /\ \A m, n \in DOMAIN page' : m < n => Before(Direction, page'[m], page'[n])
       /\ \A e \in seen, n \in DOMAIN page' : Before(Direction, e, page'[n])]_vars

\* Every page but the last one brings a row that was not delivered before, so that the
\* client, and the loop of getApplicableLimits, come to an end.
EveryPageAdvances ==
  /\ state \in {"paging", "TRC-0044", "TRC-0045"} => Cardinality(seen) >= pages
  /\ state = "done" => Cardinality(seen) + 1 >= pages

\* The statement of Cursor, "Contains all information needed to resume pagination from
\* a specific point": following a cursor is never refused.
CursorResumes == cursor # None /\ ~query.repeats => state # "TRC-0044"
=============================================================================
