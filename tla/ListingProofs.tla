--------------------------- MODULE ListingProofs ---------------------------
(***************************************************************************)
(* Theorems about keyset pagination, for any table, ids, queries and page  *)
(* sizes: what a client that follows the cursors gets, and in which order. *)
(***************************************************************************)
EXTENDS Listing, FiniteSetTheorems, SequenceTheorems, TLAPS

Orders == {"ASC", "DESC"}

(***************************************************************************)
(* ORDER BY column, id is a strict total order on the entries.             *)
(***************************************************************************)
LEMMA BeforeOrders ==
  ASSUME NEW order \in Orders, NEW a \in Entries, NEW b \in Entries
  PROVE  /\ ~Before(order, a, a)
         /\ a # b => Before(order, a, b) \/ Before(order, b, a)
         /\ \A c \in Entries : Before(order, a, b) /\ Before(order, b, c) => Before(order, a, c)
<1>1. a = [id |-> a.id, v |-> a.v] /\ b = [id |-> b.id, v |-> b.v]
  BY DEF Entries
<1>2. \A c \in Entries : c.id \in Nat /\ c.v \in Nat
  BY ListingAssumption DEF Entries
<1> QED BY <1>1, <1>2 DEF Before, Orders

\* The condition of the cursor is that order.
LEMMA BeyondIsBefore ==
  ASSUME NEW order \in Orders, NEW c, NEW e
  PROVE  Beyond(order, c, e) <=> Before(order, [id |-> c.id, v |-> c.v], e)
BY DEF Beyond, Before, Orders

Ahead(E, order, e) == {d \in E : Before(order, d, e)}

\* The number of entries ahead of an entry grows along the order.
LEMMA RankGrows ==
  ASSUME NEW E, E \subseteq Entries, IsFiniteSet(E), NEW order \in Orders,
         NEW a \in E, NEW b \in E
  PROVE  /\ Cardinality(Ahead(E, order, a)) \in Nat
         /\ Cardinality(Ahead(E, order, a)) < Cardinality(E)
         /\ Before(order, a, b) =>
              Cardinality(Ahead(E, order, a)) < Cardinality(Ahead(E, order, b))
<1>1. Ahead(E, order, a) \in SUBSET E /\ Ahead(E, order, b) \in SUBSET E
  BY DEF Ahead
<1>2. a \notin Ahead(E, order, a)
  BY BeforeOrders DEF Ahead
<1>3. /\ IsFiniteSet(Ahead(E, order, b)) /\ IsFiniteSet(Ahead(E, order, a))
      /\ Cardinality(Ahead(E, order, a)) <= Cardinality(E)
      /\ Cardinality(E) = Cardinality(Ahead(E, order, a)) => E = Ahead(E, order, a)
  BY <1>1, FS_Subset
<1>4. /\ Cardinality(E) \in Nat /\ Cardinality(Ahead(E, order, a)) \in Nat
      /\ Cardinality(Ahead(E, order, b)) \in Nat
  BY <1>3, FS_CardinalityType
<1>5. ASSUME Before(order, a, b)
      PROVE  Cardinality(Ahead(E, order, a)) < Cardinality(Ahead(E, order, b))
  <2>1. Ahead(E, order, a) \in SUBSET Ahead(E, order, b)
    <3> SUFFICES ASSUME NEW d \in E, Before(order, d, a) PROVE Before(order, d, b)
      BY DEF Ahead
    <3> QED BY <1>5, BeforeOrders
  <2>2. a \in Ahead(E, order, b)
    BY <1>5 DEF Ahead
  <2>3. /\ Cardinality(Ahead(E, order, a)) <= Cardinality(Ahead(E, order, b))
        /\ Cardinality(Ahead(E, order, b)) = Cardinality(Ahead(E, order, a)) =>
             Ahead(E, order, b) = Ahead(E, order, a)
    BY <1>3, <2>1, FS_Subset
  <2> QED BY <1>2, <1>4, <2>2, <2>3
<1> QED BY <1>2, <1>3, <1>4, <1>5

\* So every number below the size of the set is the rank of exactly one entry.
LEMMA RankReached ==
  ASSUME NEW E, E \subseteq Entries, IsFiniteSet(E), NEW order \in Orders,
         NEW k \in Nat, k < Cardinality(E)
  PROVE  \E e \in E : Cardinality(Ahead(E, order, e)) = k
<1> DEFINE N == Cardinality(E)
           rank == [e \in E |-> Cardinality(Ahead(E, order, e))]
<1>1. N \in Nat
  BY FS_CardinalityType
<1>2. rank \in [E -> 0 .. N - 1]
  BY <1>1, RankGrows
<1>3. ASSUME NEW a \in E, NEW b \in E, rank[a] = rank[b]
      PROVE  a = b
  <2>1. a # b => Before(order, a, b) \/ Before(order, b, a)
    BY BeforeOrders
  <2>2. /\ rank[a] \in Nat
        /\ Before(order, a, b) => rank[a] < rank[b]
        /\ Before(order, b, a) => rank[b] < rank[a]
    BY RankGrows
  <2> QED BY <1>3, <2>1, <2>2
<1>4. rank \in Injection(E, 0 .. N - 1)
  BY <1>2, <1>3 DEF Injection, IsInjective
<1>5. IsFiniteSet(0 .. N - 1) /\ Cardinality(0 .. N - 1) = N
  <2>1. IsFiniteSet(0 .. N - 1) /\ Cardinality(0 .. N - 1) = IF 0 > N - 1 THEN 0 ELSE (N - 1) - 0 + 1
    <3> HIDE DEF N
    <3> QED BY <1>1, FS_Interval
  <2> HIDE DEF N
  <2> QED BY <1>1, <2>1
<1>6. rank \in Surjection(E, 0 .. N - 1)
  <2> HIDE DEF rank
  <2> QED BY <1>4, <1>5, FS_Injection
<1>7. k \in 0 .. N - 1
  BY <1>1
<1>8. \E e \in E : rank[e] = k
  <2> HIDE DEF rank, N
  <2> QED BY <1>6, <1>7 DEF Surjection
<1> QED BY <1>8

LEMMA RankIsUnique ==
  ASSUME NEW E, E \subseteq Entries, IsFiniteSet(E), NEW order \in Orders,
         NEW a \in E, NEW b \in E,
         Cardinality(Ahead(E, order, a)) <= Cardinality(Ahead(E, order, b))
  PROVE  a = b \/ Before(order, a, b)
<1>1. Before(order, b, a) => Cardinality(Ahead(E, order, b)) < Cardinality(Ahead(E, order, a))
  BY RankGrows
<1>2. Cardinality(Ahead(E, order, b)) \in Nat /\ Cardinality(Ahead(E, order, a)) \in Nat
  BY RankGrows
<1>3. a # b => Before(order, a, b) \/ Before(order, b, a)
  BY BeforeOrders
<1> QED BY <1>1, <1>2, <1>3

\* First is ORDER BY ... LIMIT n: entries of the set, in order, as many as asked for or
\* all, and none that is left out comes before one that is there.
LEMMA FirstEntries ==
  ASSUME NEW E, E \subseteq Entries, IsFiniteSet(E), NEW order \in Orders, NEW n \in Nat
  PROVE  LET s == First(E, order, n) IN
           /\ s \in Seq(E)
           /\ Len(s) = IF Cardinality(E) < n THEN Cardinality(E) ELSE n
           /\ \A i, j \in 1 .. Len(s) : i < j => Before(order, s[i], s[j])
           /\ \A e \in E : \/ \E i \in 1 .. Len(s) : s[i] = e
                           \/ /\ Len(s) = n
                              /\ \A i \in 1 .. Len(s) : Before(order, s[i], e)
<1> DEFINE N == Cardinality(E)
           len == IF N < n THEN N ELSE n
           s == First(E, order, n)
           Rank(e) == Cardinality(Ahead(E, order, e))
<1>1. N \in Nat /\ len \in Nat /\ len <= N /\ len <= n
  BY FS_CardinalityType
<1>2. s = [m \in 1 .. len |-> CHOOSE e \in E : Rank(e) = m - 1]
  BY DEF First, Ahead
<1>3. ASSUME NEW m \in 1 .. len
      PROVE  s[m] \in E /\ Rank(s[m]) = m - 1
  <2>1. m - 1 \in Nat /\ m - 1 < N
    BY <1>1
  <2>2. \E e \in E : Rank(e) = m - 1
    BY <2>1, RankReached
  <2>3. s[m] = CHOOSE e \in E : Rank(e) = m - 1
    BY <1>2
  <2> HIDE DEF Rank, s
  <2> QED BY <2>2, <2>3
<1> HIDE DEF s
<1>4. s \in Seq(E) /\ Len(s) = len
  <2>1. s = [m \in 1 .. len |-> s[m]]
    BY <1>2
  <2> HIDE DEF len
  <2> QED BY <1>1, <1>3, <2>1
<1>5. ASSUME NEW i \in 1 .. len, NEW j \in 1 .. len, i < j
      PROVE  Before(order, s[i], s[j])
  <2>1. s[i] \in E /\ s[j] \in E /\ Rank(s[i]) = i - 1 /\ Rank(s[j]) = j - 1
    BY <1>3
  <2>2. i - 1 <= j - 1 /\ i - 1 # j - 1
    BY <1>1, <1>5
  <2>3. s[i] # s[j] /\ Rank(s[i]) <= Rank(s[j])
    <3> HIDE DEF Rank
    <3> QED BY <2>1, <2>2
  <2> QED BY <2>1, <2>3, RankIsUnique
<1>6. ASSUME NEW e \in E, \A i \in 1 .. len : s[i] # e
      PROVE  len = n /\ \A i \in 1 .. len : Before(order, s[i], e)
  <2>1. Rank(e) \in Nat /\ Rank(e) < N
    BY RankGrows
  <2>2. len <= Rank(e)
    <3> SUFFICES ASSUME Rank(e) < len PROVE FALSE
      BY <1>1, <2>1
    <3>1. Rank(e) + 1 \in 1 .. len
      BY <1>1, <2>1
    <3> DEFINE d == s[Rank(e) + 1]
    <3>2. d \in E /\ Rank(d) = (Rank(e) + 1) - 1
      BY <1>3, <3>1
    <3>3. Rank(d) = Rank(e)
      <4> HIDE DEF Rank
      <4> QED BY <2>1, <3>2
    <3>4. Rank(d) <= Rank(e) /\ Rank(e) <= Rank(d)
      <4> HIDE DEF Rank
      <4> QED BY <2>1, <3>3
    <3>5. d # e
      BY <1>6, <3>1
    <3>6. Before(order, d, e) /\ Before(order, e, d)
      <4> HIDE DEF d
      <4> QED BY <3>2, <3>4, <3>5, RankIsUnique
    <3>7. Rank(d) < Rank(e)
      <4> HIDE DEF d
      <4> QED BY <3>2, <3>6, RankGrows
    <3> HIDE DEF Rank
    <3> QED BY <2>1, <3>3, <3>7
  <2>3. len = n
    <3> HIDE DEF Rank
    <3> QED BY <1>1, <2>1, <2>2
  <2>4. ASSUME NEW i \in 1 .. len PROVE Before(order, s[i], e)
    <3>1. s[i] \in E /\ Rank(s[i]) = i - 1 /\ s[i] # e
      BY <1>3, <1>6
    <3>2. Rank(s[i]) <= Rank(e)
      <4> HIDE DEF Rank
      <4> QED BY <1>1, <2>1, <2>2, <3>1
    <3> QED BY <3>1, <3>2, RankIsUnique
  <2> QED BY <2>3, <2>4
<1> HIDE DEF len, Rank
<1>7. /\ s \in Seq(E)
      /\ Len(s) = len
      /\ \A i, j \in 1 .. Len(s) : i < j => Before(order, s[i], s[j])
      /\ \A e \in E : \/ \E i \in 1 .. Len(s) : s[i] = e
                      \/ Len(s) = n /\ \A i \in 1 .. Len(s) : Before(order, s[i], e)
  BY <1>4, <1>5, <1>6
<1> QED BY <1>7 DEF s, len

(***************************************************************************)
(* The inductive invariant.                                                *)
(***************************************************************************)
\* The column that the field of a cursor stands for.
FieldColumn(by) ==
  CASE kind = "rules" -> RuleColumn(by)
    [] kind \in {"limits", "check"} -> LimitColumn(by)
    [] kind = "validations" -> by
    [] kind = "audit" -> AuditColumn(by)

\* An entry of the session's order: where a cursor stands, where a row stands.
Position(c) == [id |-> c.id, v |-> c.v]
Entry(i) == [id |-> i, v |-> table[i][SortColumn]]

\* A cursor is about the sort the session was started with.
CursorFits ==
  cursor # None =>
    /\ cursor.sortOrder = Direction
    /\ FieldColumn(cursor.sortBy) = SortColumn

\* Before the first page nothing has been delivered.
Fresh == state = "idle" => cursor = None /\ seen = {} /\ pages = 0 /\ stable = {}

\* What was delivered is not after the cursor.
SeenBehind ==
  cursor # None => \A e \in seen : e = Position(cursor) \/ Before(Direction, e, Position(cursor))

\* What stayed in view is still in view, and was delivered or is after the cursor.
StableAhead ==
  /\ stable \subseteq View(table, now)
  /\ state = "paging" =>
       \A i \in stable : \/ \E e \in seen : e.id = i
                         \/ Before(Direction, Position(cursor), Entry(i))

\* Every page that was followed by another brought a row of its own.
Counted ==
  /\ state # "done" => Cardinality(seen) >= pages
  /\ state = "done" => Cardinality(seen) + 1 >= pages

IInv ==
  /\ TypeOK /\ IsFiniteSet(Stored) /\ IsFiniteSet(seen)
  /\ CursorFits /\ Fresh /\ SeenBehind /\ StableAhead /\ Counted /\ NothingMissed

(***************************************************************************)
(* What a request is answered: a page of the rows in view after the        *)
(* cursor, in the session's order, or a documented error.                  *)
(***************************************************************************)
Rest == {e \in {Entry(i) : i \in View(table, now)} : cursor # None => Beyond(Direction, cursor, e)}

\* The requests of a session: its query, the sort perhaps left out, and the cursor.
Asked ==
  [limit : {query.limit}, sortBy : {query.sortBy, None}, sortOrder : {query.sortOrder, None},
   from : {query.from}, to : {query.to}, status : {query.status}, cursor : {cursor}]

PageOf(reply) ==
  /\ Direction \in Orders
  /\ \E limit \in Nat \ {0}, by \in SortFields \cup Columns :
       /\ FieldColumn(by) = SortColumn
       /\ reply = Answered(Trimmed(First(Rest, Direction, limit + 1), limit, by, Direction))

LEMMA RequestOf ==
  /\ Request \in Asked
  /\ cursor = None => Request.sortBy = query.sortBy /\ Request.sortOrder = query.sortOrder
BY DEF Request, Asked

LEMMA NoneIsNoWord == \A w \in Words : w # None
BY ListingAssumption

\* A limit that passes the validation.
LimitAllowed(limit, max) == limit # None => limit \in 1 .. max

LEMMA InputOf ==
  ASSUME NEW q, NEW allowed, NEW max \in Nat, q.limit \in Int \cup {None}
  PROVE  /\ InputError(q, allowed, max) # None => InputError(q, allowed, max) \in Codes
         /\ InputError(q, allowed, max) = None =>
              /\ LimitAllowed(q.limit, max)
              /\ ValidateSortBy(q.sortBy, allowed)
              /\ ValidateSortOrder(q.sortOrder)
<1>1. \A c \in Codes : c # None
  BY NoneIsNoWord DEF Words
<1>2. /\ ValidatePaginationLimit(q.limit, max) \in {None, "TRC-0040", "TRC-0041"}
      /\ ValidatePaginationLimit(q.limit, max) = None => LimitAllowed(q.limit, max)
  <2>1. "TRC-0040" # None /\ "TRC-0041" # None
    BY <1>1 DEF Codes
  <2> QED BY <2>1 DEF ValidatePaginationLimit, LimitAllowed
<1> QED BY <1>1, <1>2 DEF InputError, Codes

LEMMA DatedInputOf ==
  ASSUME NEW q, NEW allowed, q.limit \in Int \cup {None}
  PROVE  /\ DatedInputError(q, allowed) # None => DatedInputError(q, allowed) \in Codes
         /\ DatedInputError(q, allowed) = None =>
              /\ LimitAllowed(q.limit, MaxFilterLimit)
              /\ ValidateSortBy(q.sortBy, allowed)
              /\ ValidateSortOrder(q.sortOrder)
<1>1. "TRC-0023" # None
  BY NoneIsNoWord DEF Words, Codes
<1>2. MaxFilterLimit \in Nat
  BY ListingAssumption
<1> QED BY <1>1, <1>2, InputOf DEF DatedInputError, Codes

\* Directions that pass the validation are normalised to ASC or DESC.
LEMMA OrderOf ==
  ASSUME NEW order, ValidateSortOrder(order)
  PROVE  NormalizeSortOrder(order) \in Orders
BY DEF ValidateSortOrder, NormalizeSortOrder, Default, Orders, Upper

LEMMA OrderTwice ==
  ASSUME NEW order \in Orders
  PROVE  /\ Upper(order) = order /\ Upper(Lower(order)) = order /\ order # None
         /\ NormalizeSortOrder(order) = order
         /\ NormalizeSortOrder(Lower(order)) = order
<1>1. order # None /\ Lower(order) # None
  BY NoneIsNoWord DEF Words, Orders, Lower
<1> QED BY <1>1 DEF NormalizeSortOrder, Default, Orders, Upper, Lower

LEMMA ResultOf ==
  ASSUME NEW f, NEW inView, NEW col, NEW by, NEW order,
         f.cursor = cursor, inView = View(table, now), col = SortColumn, order = Direction
  PROVE  Result(f, inView, col, by, order) =
           Trimmed(First(Rest, Direction, f.limit + 1), f.limit, by, Direction)
BY DEF Result, Rest, Entry

LEMMA RulesReply ==
  ASSUME TypeOK, CursorFits, kind = "rules"
  PROVE  (\E c \in Codes : Reply = Refused(c)) \/ PageOf(Reply)
<1> DEFINE q == Request
           f == RulesDefaults(toListFilter(q))
           by == IF f.cursor # None THEN f.cursor.sortBy ELSE f.sortBy
           order == IF f.cursor # None THEN Upper(f.cursor.sortOrder) ELSE f.sortOrder
<1>1. Reply = IF RulesInputError(q) # None THEN Refused(RulesInputError(q)) ELSE RulesList(f)
  BY DEF Reply, ListRules
<1>2. q.limit \in Int \cup {None} /\ MaxPaginationLimit \in Nat
  BY RequestOf, ListingAssumption DEF TypeOK, Asked
<1>3. RulesInputError(q) # None => RulesInputError(q) \in Codes
  BY <1>2, InputOf DEF RulesInputError
<1>4. ASSUME RulesInputError(q) = None PROVE PageOf(RulesList(f))
  <2>1. q \in Asked /\ (cursor = None => q.sortBy = query.sortBy /\ q.sortOrder = query.sortOrder)
    BY RequestOf
  <2>2. /\ LimitAllowed(q.limit, MaxPaginationLimit) /\ ValidateSortOrder(q.sortOrder)
        /\ q.sortBy \in SortFields \cup {None}
    BY <1>2, <1>4, InputOf DEF RulesInputError, ValidateSortBy, SortFields
  <2>3. NormalizeSortOrder(q.sortOrder) \in Orders
    BY <2>2, OrderOf
  <2>4. /\ DefaultPaginationLimit \in Nat \ {0} /\ MaxPaginationLimit \in Nat \ {0}
        /\ query.limit \in Int \cup {None}
    BY ListingAssumption DEF TypeOK
  <2> HIDE DEF q
  <2>5. /\ f.limit \in Nat \ {0} /\ f.cursor = cursor /\ f.status = query.status
        /\ cursor = None => /\ f.sortBy = Default(Default(query.sortBy, "createdAt"), "createdAt")
                            /\ f.sortOrder = NormalizeSortOrder(NormalizeSortOrder(query.sortOrder))
    BY <2>1, <2>2, <2>4
       DEF RulesDefaults, toListFilter, InputDefaults, Asked, LimitAllowed, Default
  <2> HIDE DEF f
  <2>6. order = Direction /\ Direction \in Orders
    <3>1. CASE cursor = None
      BY <2>1, <2>3, <2>5, <3>1, OrderTwice DEF Direction
    <3>2. CASE cursor # None
      BY <2>5, <3>2, OrderTwice DEF CursorFits, TypeOK, Cursors, Orders
    <3> QED BY <3>1, <3>2
  <2>7. FieldColumn(by) = SortColumn /\ by \in SortFields \cup Columns
    <3>1. CASE cursor = None
      BY <2>1, <2>2, <2>5, <3>1 DEF FieldColumn, SortColumn, Default, SortFields
    <3>2. CASE cursor # None
      BY <2>5, <3>2 DEF CursorFits, TypeOK, Cursors
    <3> QED BY <3>1, <3>2
  <2>8. {i \in Stored : RulesMatch(f, table[i])} = View(table, now)
    BY <2>5 DEF Stored, RulesMatch, StatusMatches, View
  <2> HIDE DEF by, order
  <2>9. RuleColumn(by) = SortColumn
    BY <2>7 DEF FieldColumn
  <2>10. RulesList(f) = Answered(Result(f, View(table, now), RuleColumn(by), by, order))
    BY <2>8 DEF RulesList, by, order
  <2>11. RulesList(f) = Answered(Trimmed(First(Rest, Direction, f.limit + 1), f.limit, by, Direction))
    BY <2>5, <2>6, <2>9, <2>10, ResultOf
  <2> QED BY <2>5, <2>6, <2>7, <2>11 DEF PageOf
<1> HIDE DEF q, f
<1> QED BY <1>1, <1>3, <1>4

LEMMA LimitsReply ==
  ASSUME TypeOK, CursorFits, kind = "limits"
  PROVE  (\E c \in Codes : Reply = Refused(c)) \/ PageOf(Reply)
<1> DEFINE q == Request
           f == ApplyDefaults(ToListLimitsFilter(q))
           by == Default(f.sortBy, "createdAt")
           order == NormalizedOrder(f)
<1>1. Reply = IF LimitsInputError(q) # None THEN Refused(LimitsInputError(q)) ELSE LimitsList(f)
  BY DEF Reply, ListLimits, ListLimitsQuery
<1>2. q.limit \in Int \cup {None} /\ MaxPaginationLimit \in Nat
  BY RequestOf, ListingAssumption DEF TypeOK, Asked
<1>3. LimitsInputError(q) # None => LimitsInputError(q) \in Codes
  BY <1>2, InputOf DEF LimitsInputError
<1>4. ASSUME LimitsInputError(q) = None
      PROVE  (\E c \in Codes : LimitsList(f) = Refused(c)) \/ PageOf(LimitsList(f))
  <2>1. q \in Asked /\ (cursor = None => q.sortBy = query.sortBy /\ q.sortOrder = query.sortOrder)
    BY RequestOf
  <2>2. /\ LimitAllowed(q.limit, MaxPaginationLimit) /\ ValidateSortOrder(q.sortOrder)
        /\ q.sortBy \in SortFields \cup {None}
    BY <1>2, <1>4, InputOf DEF LimitsInputError, ValidateSortBy, SortFields
  <2>3. NormalizeSortOrder(q.sortOrder) \in Orders
    BY <2>2, OrderOf
  <2>4. /\ DefaultPaginationLimit \in Nat \ {0} /\ MaxPaginationLimit \in Nat \ {0}
        /\ query.limit \in Int \cup {None}
    BY ListingAssumption DEF TypeOK
  <2> HIDE DEF q
  <2>5. /\ f.limit \in Nat \ {0} /\ f.cursor = cursor /\ f.status = query.status
        /\ cursor = None =>
             /\ f.sortBy = Default(Default(query.sortBy, "createdAt"), "createdAt")
             /\ f.sortOrder = Lower(Default(Upper(NormalizeSortOrder(query.sortOrder)), "desc"))
    <3> DEFINE g == ToListLimitsFilter(q)
    <3>1. /\ DOMAIN g = {"limit", "sortBy", "sortOrder", "from", "to", "status", "cursor"}
          /\ g.limit \in Nat \ {0} /\ g.cursor = cursor /\ g.status = query.status
          /\ cursor = None => /\ g.sortBy = Default(query.sortBy, "createdAt")
                              /\ g.sortOrder = Upper(NormalizeSortOrder(query.sortOrder))
      BY <2>1, <2>2, <2>4 DEF ToListLimitsFilter, InputDefaults, Asked, LimitAllowed, Default
    <3> HIDE DEF g
    <3>2. /\ ApplyDefaults(g).limit \in Nat \ {0} /\ ApplyDefaults(g).cursor = cursor
          /\ ApplyDefaults(g).status = query.status
          /\ ApplyDefaults(g).sortBy = Default(g.sortBy, "createdAt")
          /\ ApplyDefaults(g).sortOrder = Lower(Default(g.sortOrder, "desc"))
      BY <2>4, <3>1 DEF ApplyDefaults
    <3> QED BY <3>1, <3>2 DEF g
  <2> HIDE DEF f
  <2>6. CASE ~CursorAccepted(f, by, order)
    <3>1. LimitsList(f) = Refused("TRC-0044")
      BY <2>6 DEF LimitsList
    <3> QED BY <3>1 DEF Codes
  <2>7. CASE CursorAccepted(f, by, order)
    <3>1. order = Direction /\ Direction \in Orders
      <4>1. CASE cursor = None
        <5>1. Direction = NormalizeSortOrder(query.sortOrder) /\ Direction \in Orders
          BY <2>1, <2>3, <4>1 DEF Direction
        <5>2. f.sortOrder = Lower(Direction)
          BY <2>5, <4>1, <5>1, OrderTwice DEF Default
        <5> QED BY <5>1, <5>2, OrderTwice DEF NormalizedOrder
      <4>2. CASE cursor # None
        BY <2>5, <2>7, <4>2 DEF CursorFits, CursorAccepted, TypeOK, Cursors, Orders
      <4> QED BY <4>1, <4>2
    <3>2. FieldColumn(by) = SortColumn /\ by \in SortFields \cup Columns
      <4>1. CASE cursor = None
        BY <2>1, <2>2, <2>5, <4>1 DEF FieldColumn, SortColumn, Default, SortFields
      <4>2. CASE cursor # None
        BY <2>5, <2>7, <4>2 DEF CursorFits, CursorAccepted, TypeOK, Cursors
      <4> QED BY <4>1, <4>2
    <3>3. {i \in Stored : LimitsMatch(f, table[i])} = View(table, now)
      BY <2>5 DEF Stored, LimitsMatch, StatusMatches, View
    <3>4. LimitsList(f) = Answered(Result(f, View(table, now), LimitColumn(by), by, order))
      BY <2>7, <3>3 DEF LimitsList
    <3> HIDE DEF by, order
    <3>5. LimitColumn(by) = SortColumn
      BY <3>2 DEF FieldColumn
    <3>6. LimitsList(f) = Answered(Trimmed(First(Rest, Direction, f.limit + 1), f.limit, by, Direction))
      BY <2>5, <3>1, <3>4, <3>5, ResultOf
    <3> QED BY <2>5, <3>1, <3>2, <3>6 DEF PageOf
  <2> QED BY <2>6, <2>7
<1> HIDE DEF q, f
<1> QED BY <1>1, <1>3, <1>4

LEMMA CheckReply ==
  ASSUME TypeOK, CursorFits, kind = "check"
  PROVE  (\E c \in Codes : Reply = Refused(c)) \/ PageOf(Reply)
<1> DEFINE f == [Request EXCEPT !.status = "ACTIVE", !.limit = MaxPaginationLimit, !.sortBy = None,
                                !.sortOrder = None, !.from = None, !.to = None]
           by == Default(f.sortBy, "createdAt")
           order == NormalizedOrder(f)
<1>1. Reply = LimitsList(f)
  BY DEF Reply, CheckerPage
<1>2. /\ f.limit = MaxPaginationLimit /\ f.cursor = cursor /\ f.status = "ACTIVE"
      /\ f.sortBy = None /\ f.sortOrder = None
  BY RequestOf DEF Asked
<1>3. MaxPaginationLimit \in Nat \ {0} /\ "ACTIVE" # None
  <2>1. "ACTIVE" # None
    BY NoneIsNoWord DEF Words
  <2> QED BY <2>1, ListingAssumption
<1> HIDE DEF f
<1>4. by = "createdAt" /\ order = Direction /\ Direction \in Orders
  BY <1>2 DEF Direction, NormalizedOrder, NormalizeSortOrder, Default, Upper, Orders
<1>5. FieldColumn(by) = SortColumn /\ LimitColumn(by) = SortColumn /\ by \in SortFields
  BY <1>4 DEF FieldColumn, SortColumn, SortFields
<1>6. {i \in Stored : LimitsMatch(f, table[i])} = View(table, now)
  BY <1>2, <1>3 DEF Stored, LimitsMatch, StatusMatches, View
<1>7. CASE ~CursorAccepted(f, by, order)
  <2>1. LimitsList(f) = Refused("TRC-0044")
    BY <1>7 DEF LimitsList
  <2> QED BY <1>1, <2>1 DEF Codes
<1>8. CASE CursorAccepted(f, by, order)
  <2>1. LimitsList(f) = Answered(Result(f, View(table, now), LimitColumn(by), by, order))
    BY <1>6, <1>8 DEF LimitsList
  <2> HIDE DEF by, order
  <2>2. LimitsList(f) = Answered(Trimmed(First(Rest, Direction, f.limit + 1), f.limit, by, Direction))
    BY <1>2, <1>4, <1>5, <2>1, ResultOf
  <2> QED BY <1>1, <1>2, <1>3, <1>4, <1>5, <2>2 DEF PageOf
<1> QED BY <1>7, <1>8

FilterFields == {"limit", "sortBy", "sortOrder", "from", "to", "status", "cursor"}

\* The dates a filter of validations or audit events ends up with.
RangeFrom == IF query.from = None /\ query.to = None
               THEN IF now > DateRange THEN now - DateRange ELSE 0 ELSE query.from
RangeTo == IF query.from = None /\ query.to = None THEN now + 1 ELSE query.to

\* Completing a filter once or twice is the same.
LEMMA DefaultsOf ==
  ASSUME TypeOK, NEW g, DOMAIN g = FilterFields,
         \/ g.from = query.from /\ g.to = query.to
         \/ g.from = RangeFrom /\ g.to = RangeTo
  PROVE  \A f \in {ValidationsDefaults(g), AuditDefaults(g)} :
           /\ DOMAIN f = FilterFields
           /\ f.limit = g.limit /\ f.cursor = g.cursor /\ f.status = g.status
           /\ f.from = RangeFrom /\ f.to = RangeTo
           /\ f.sortBy = Default(g.sortBy, "createdAt")
           /\ f.sortOrder = NormalizeSortOrder(g.sortOrder)
<1>1. now \in Nat /\ DateRange \in Nat /\ None \notin Int
  BY ListingAssumption DEF TypeOK
<1>2. /\ DOMAIN WithRange(g) = FilterFields
      /\ WithRange(g).limit = g.limit /\ WithRange(g).cursor = g.cursor
      /\ WithRange(g).status = g.status
      /\ WithRange(g).sortBy = g.sortBy /\ WithRange(g).sortOrder = g.sortOrder
  BY DEF WithRange, FilterFields
<1>3. WithRange(g).from = RangeFrom /\ WithRange(g).to = RangeTo
  <2>1. CASE g.from = query.from /\ g.to = query.to
    BY <2>1 DEF WithRange, FilterFields, RangeFrom, RangeTo
  <2>2. CASE g.from = RangeFrom /\ g.to = RangeTo
    <3>1. CASE query.from = None /\ query.to = None
      <4>1. g.from # None /\ g.to # None
        BY <1>1, <2>2, <3>1 DEF RangeFrom, RangeTo
      <4> QED BY <2>2, <4>1 DEF WithRange
    <3>2. CASE ~(query.from = None /\ query.to = None)
      BY <2>2, <3>2 DEF RangeFrom, RangeTo, WithRange
    <3> QED BY <3>1, <3>2
  <2> QED BY <2>1, <2>2
<1> DEFINE w == WithRange(g)
<1> HIDE DEF w
<1>4. /\ DOMAIN w = FilterFields
      /\ w.limit = g.limit /\ w.cursor = g.cursor /\ w.status = g.status
      /\ w.sortBy = g.sortBy /\ w.sortOrder = g.sortOrder
      /\ w.from = RangeFrom /\ w.to = RangeTo
  BY <1>2, <1>3 DEF w
<1> DEFINE f == [w EXCEPT !.sortBy = Default(@, "createdAt"), !.sortOrder = NormalizeSortOrder(@)]
<1>5. /\ DOMAIN f = FilterFields
      /\ f.limit = g.limit /\ f.cursor = g.cursor /\ f.status = g.status
      /\ f.from = RangeFrom /\ f.to = RangeTo
      /\ f.sortBy = Default(g.sortBy, "createdAt")
      /\ f.sortOrder = NormalizeSortOrder(g.sortOrder)
  BY <1>4 DEF FilterFields
<1>6. ValidationsDefaults(g) = f /\ AuditDefaults(g) = f
  BY DEF ValidationsDefaults, AuditDefaults, w
<1> HIDE DEF f
<1> QED BY <1>5, <1>6

\* The dates and the status of the filter select the rows in view.
LEMMA DatedView ==
  ASSUME TypeOK, kind \in {"validations", "audit"}, NEW f,
         f.status = query.status, f.from = RangeFrom, f.to = RangeTo
  PROVE  {i \in Stored : DatesMatch(f, table[i]) /\ StatusMatches(f, table[i])} = View(table, now)
<1>1. /\ now \in Nat /\ DateRange \in Nat /\ None \notin Int
      /\ query.from \in Nat \cup {None} /\ query.to \in Nat \cup {None}
  BY ListingAssumption DEF TypeOK
<1>2. \A i \in Stored : table[i].created_at \in Nat
  BY DEF TypeOK, Stored, Rows
<1>3. ASSUME NEW i \in Stored
      PROVE  DatesMatch(f, table[i]) /\ StatusMatches(f, table[i]) <=> i \in View(table, now)
  <2> DEFINE day == table[i].created_at
  <2>1. day \in Nat
    BY <1>2
  <2>2. i \in Ids /\ table[i] # None
    BY DEF Stored
  <2> HIDE DEF day
  <2>3. CASE query.from = None /\ query.to = None
    <3>1. f.from # None /\ f.to # None /\ (day >= f.from <=> day >= now - DateRange) /\ f.to = now + 1
      BY <1>1, <2>1, <2>3 DEF RangeFrom, RangeTo
    <3>2. now - DateRange # None /\ now + 1 # None
      BY <1>1
    <3> QED BY <2>2, <2>3, <3>1, <3>2 DEF DatesMatch, StatusMatches, View, day
  <2>4. CASE ~(query.from = None /\ query.to = None)
    <3>1. f.from = query.from /\ f.to = query.to
      BY <2>4 DEF RangeFrom, RangeTo
    <3> QED BY <2>2, <2>4, <3>1 DEF DatesMatch, StatusMatches, View
  <2> QED BY <2>3, <2>4
<1>4. View(table, now) \subseteq Stored
  BY DEF View, Stored
<1> QED BY <1>3, <1>4

LEMMA CompletedOf ==
  ASSUME TypeOK, NEW q \in Asked, LimitAllowed(q.limit, MaxFilterLimit)
  PROVE  LET g == InputDefaults(q, DefaultFilterLimit) IN
           /\ DOMAIN g = FilterFields
           /\ g.limit \in Nat \ {0} /\ g.cursor = cursor /\ g.status = query.status
           /\ g.from = query.from /\ g.to = query.to
           /\ cursor = None => /\ g.sortBy = Default(q.sortBy, "createdAt")
                               /\ g.sortOrder = NormalizeSortOrder(q.sortOrder)
<1>1. /\ DefaultFilterLimit \in Nat \ {0} /\ MaxFilterLimit \in Nat \ {0}
      /\ query.limit \in Int \cup {None}
  BY ListingAssumption DEF TypeOK
<1> QED BY <1>1 DEF InputDefaults, Asked, LimitAllowed, Default, FilterFields

LEMMA ValidationsReply ==
  ASSUME TypeOK, CursorFits, kind = "validations"
  PROVE  (\E c \in Codes : Reply = Refused(c)) \/ PageOf(Reply)
<1> DEFINE q == Request
           g == ToTransactionValidationFilters(q)
           h == ValidationsDefaults(g)
           f == ValidationsDefaults(h)
           col == ValidationColumn(f.sortBy)
           order == NormalizedOrder(f)
<1>1. Reply = IF ValidationsInputError(q) # None THEN Refused(ValidationsInputError(q))
              ELSE ValidationsList(h)
  BY DEF Reply, ListTransactionValidations, ListTransactionValidationsQuery
<1>2. q.limit \in Int \cup {None}
  BY RequestOf, ListingAssumption DEF TypeOK, Asked
<1>3. ValidationsInputError(q) # None => ValidationsInputError(q) \in Codes
  BY <1>2, DatedInputOf DEF ValidationsInputError
<1>4. ASSUME ValidationsInputError(q) = None
      PROVE  (\E c \in Codes : ValidationsList(h) = Refused(c)) \/ PageOf(ValidationsList(h))
  <2>1. q \in Asked /\ (cursor = None => q.sortBy = query.sortBy /\ q.sortOrder = query.sortOrder)
    BY RequestOf
  <2>2. /\ LimitAllowed(q.limit, MaxFilterLimit) /\ ValidateSortOrder(q.sortOrder)
        /\ q.sortBy \in SortFields \cup {None}
    BY <1>2, <1>4, DatedInputOf DEF ValidationsInputError, ValidateSortBy, SortFields
  <2>3. NormalizeSortOrder(q.sortOrder) \in Orders
    BY <2>2, OrderOf
  <2>4. /\ DOMAIN g = FilterFields
        /\ g.limit \in Nat \ {0} /\ g.cursor = cursor /\ g.status = query.status
        /\ g.from = query.from /\ g.to = query.to
        /\ cursor = None => /\ g.sortBy = Default(q.sortBy, "createdAt")
                            /\ g.sortOrder = NormalizeSortOrder(q.sortOrder)
    BY <2>1, <2>2, CompletedOf DEF ToTransactionValidationFilters
  <2> HIDE DEF g, q
  <2>5. /\ DOMAIN h = FilterFields
        /\ h.limit = g.limit /\ h.cursor = g.cursor /\ h.status = g.status
        /\ h.from = RangeFrom /\ h.to = RangeTo
        /\ h.sortBy = Default(g.sortBy, "createdAt")
        /\ h.sortOrder = NormalizeSortOrder(g.sortOrder)
    BY <2>4, DefaultsOf
  <2> HIDE DEF h
  <2>6. /\ f.limit \in Nat \ {0} /\ f.cursor = cursor /\ f.status = query.status
        /\ f.from = RangeFrom /\ f.to = RangeTo
        /\ f.sortBy = Default(h.sortBy, "createdAt")
        /\ f.sortOrder = NormalizeSortOrder(h.sortOrder)
    BY <2>4, <2>5, DefaultsOf
  <2> HIDE DEF f
  <2>7. CASE ~CursorAccepted(f, col, order)
    <3>1. ValidationsList(h) = Refused("TRC-0044")
      BY <2>7 DEF ValidationsList, f
    <3> QED BY <3>1 DEF Codes
  <2>8. CASE CursorAccepted(f, col, order)
    <3>1. order = Direction /\ Direction \in Orders
      <4>1. CASE cursor = None
        <5>1. Direction = NormalizeSortOrder(q.sortOrder) /\ Direction \in Orders
          BY <2>1, <2>3, <4>1 DEF Direction
        <5>2. f.sortOrder = Direction
          BY <2>4, <2>5, <2>6, <4>1, <5>1, OrderTwice
        <5> QED BY <5>1, <5>2, OrderTwice DEF NormalizedOrder
      <4>2. CASE cursor # None
        BY <2>6, <2>8, <4>2 DEF CursorFits, CursorAccepted, TypeOK, Cursors, Orders
      <4> QED BY <4>1, <4>2
    <3>2. FieldColumn(col) = SortColumn /\ col = SortColumn /\ col \in Columns
      <4>1. CASE cursor = None
        <5>1. f.sortBy = Default(query.sortBy, "createdAt")
          BY <2>1, <2>4, <2>5, <2>6, <4>1 DEF Default
        <5> QED BY <5>1 DEF FieldColumn, SortColumn, ValidationColumn, Columns
      <4>2. CASE cursor # None
        BY <2>6, <2>8, <4>2 DEF CursorFits, CursorAccepted, FieldColumn, ValidationColumn, Columns
      <4> QED BY <4>1, <4>2
    <3>3. {i \in Stored : ValidationsMatch(f, table[i])} = View(table, now)
      BY <2>6, DatedView DEF ValidationsMatch
    <3>4. ValidationsList(h) = Answered(Result(f, View(table, now), col, col, order))
      BY <2>8, <3>3 DEF ValidationsList, f
    <3> HIDE DEF col, order
    <3>5. ValidationsList(h) =
            Answered(Trimmed(First(Rest, Direction, f.limit + 1), f.limit, col, Direction))
      BY <2>6, <3>1, <3>2, <3>4, ResultOf
    <3> QED BY <2>6, <3>1, <3>2, <3>5 DEF PageOf
  <2> QED BY <2>7, <2>8
<1> HIDE DEF q, h
<1> QED BY <1>1, <1>3, <1>4

LEMMA AuditReply ==
  ASSUME TypeOK, CursorFits, kind = "audit"
  PROVE  (\E c \in Codes : Reply = Refused(c)) \/ PageOf(Reply)
<1> DEFINE q == Request
           g == toAuditEventFilters(q)
           f == AuditDefaults(g)
<1>1. Reply = IF AuditInputError(q) # None THEN Refused(AuditInputError(q)) ELSE AuditList(g)
  BY DEF Reply, ListAuditEvents
<1>2. q.limit \in Int \cup {None}
  BY RequestOf, ListingAssumption DEF TypeOK, Asked
<1>3. AuditInputError(q) # None => AuditInputError(q) \in Codes
  BY <1>2, DatedInputOf DEF AuditInputError
<1>4. ASSUME AuditInputError(q) = None
      PROVE  (\E c \in Codes : AuditList(g) = Refused(c)) \/ PageOf(AuditList(g))
  <2>1. q \in Asked /\ (cursor = None => q.sortBy = query.sortBy /\ q.sortOrder = query.sortOrder)
    BY RequestOf
  <2>2. /\ LimitAllowed(q.limit, MaxFilterLimit) /\ ValidateSortOrder(q.sortOrder)
        /\ q.sortBy \in SortFields \cup {None}
    BY <1>2, <1>4, DatedInputOf DEF AuditInputError, ValidateSortBy, SortFields
  <2>3. NormalizeSortOrder(q.sortOrder) \in Orders
    BY <2>2, OrderOf
  <2>4. /\ DOMAIN g = FilterFields
        /\ g.limit \in Nat \ {0} /\ g.cursor = cursor /\ g.status = query.status
        /\ g.from = query.from /\ g.to = query.to
        /\ cursor = None => /\ g.sortBy = Default(q.sortBy, "createdAt")
                            /\ g.sortOrder = NormalizeSortOrder(q.sortOrder)
    BY <2>1, <2>2, CompletedOf DEF toAuditEventFilters
  <2> HIDE DEF g, q
  <2>5. /\ f.limit = g.limit /\ f.cursor = g.cursor /\ f.status = g.status
        /\ f.from = RangeFrom /\ f.to = RangeTo
        /\ f.sortBy = Default(g.sortBy, "createdAt")
        /\ f.sortOrder = NormalizeSortOrder(g.sortOrder)
    BY <2>4, DefaultsOf
  <2> HIDE DEF f
  <2>6. CASE ~CursorAccepted(f, f.sortBy, f.sortOrder)
    <3>1. AuditList(g) = Refused("TRC-0044")
      BY <2>6 DEF AuditList, f
    <3> QED BY <3>1 DEF Codes
  <2>7. CASE CursorAccepted(f, f.sortBy, f.sortOrder)
    <3>1. f.sortOrder = Direction /\ Direction \in Orders
      <4>1. CASE cursor = None
        <5>1. Direction = NormalizeSortOrder(q.sortOrder) /\ Direction \in Orders
          BY <2>1, <2>3, <4>1 DEF Direction
        <5> QED BY <2>4, <2>5, <4>1, <5>1, OrderTwice
      <4>2. CASE cursor # None
        BY <2>4, <2>5, <2>7, <4>2 DEF CursorFits, CursorAccepted, TypeOK, Cursors, Orders
      <4> QED BY <4>1, <4>2
    <3>2. FieldColumn(f.sortBy) = SortColumn /\ f.sortBy \in SortFields \cup Columns
      <4>1. CASE cursor = None
        <5>1. f.sortBy = Default(query.sortBy, "createdAt")
          BY <2>1, <2>4, <2>5, <4>1 DEF Default
        <5> QED BY <2>1, <2>2, <4>1, <5>1 DEF FieldColumn, SortColumn, Default, SortFields
      <4>2. CASE cursor # None
        BY <2>4, <2>5, <2>7, <4>2 DEF CursorFits, CursorAccepted, TypeOK, Cursors
      <4> QED BY <4>1, <4>2
    <3>3. AuditColumn(f.sortBy) = SortColumn
      BY <3>2 DEF FieldColumn
    <3>4. {i \in Stored : AuditMatch(f, table[i])} = View(table, now)
      BY <2>4, <2>5, DatedView DEF AuditMatch
    <3>5. AuditList(g) =
            Answered(Result(f, View(table, now), AuditColumn(f.sortBy), f.sortBy, f.sortOrder))
      BY <2>7, <3>4 DEF AuditList, f
    <3>6. AuditList(g) =
            Answered(Trimmed(First(Rest, Direction, f.limit + 1), f.limit, f.sortBy, Direction))
      BY <2>4, <2>5, <3>1, <3>3, <3>5, ResultOf
    <3> QED BY <2>4, <2>5, <3>1, <3>2, <3>6 DEF PageOf
  <2> QED BY <2>6, <2>7
<1> HIDE DEF q, g
<1> QED BY <1>1, <1>3, <1>4

\* A request is answered with an error, or with a page of what is left of the view.
LEMMA ReplyOf ==
  ASSUME TypeOK, CursorFits
  PROVE  (\E c \in Codes : Reply = Refused(c)) \/ PageOf(Reply)
BY RulesReply, LimitsReply, ValidationsReply, AuditReply, CheckReply DEF TypeOK, Kinds

(***************************************************************************)
(* What a page holds.                                                      *)
(***************************************************************************)
LEMMA SortColumnIsOne == TypeOK => SortColumn \in Columns
BY DEF TypeOK, Kinds, SortColumn, Columns, RuleColumn, LimitColumn, ValidationColumn, AuditColumn

LEMMA EntryOf ==
  ASSUME TypeOK, NEW i \in Ids, table[i] # None
  PROVE  Entry(i) \in Entries
<1>1. table[i] \in Rows /\ Values \subseteq Nat
  BY ListingAssumption DEF TypeOK
<1>2. table[i][SortColumn] \in Nat
  BY <1>1, SortColumnIsOne DEF Rows, Columns
<1> QED BY <1>2 DEF Entry, Entries

LEMMA RestOf ==
  ASSUME TypeOK, IsFiniteSet(Stored)
  PROVE  Rest \subseteq Entries /\ IsFiniteSet(Rest)
<1> DEFINE V == View(table, now)
           image == {Entry(i) : i \in V}
           f == [i \in V |-> Entry(i)]
<1>1. V \in SUBSET Stored /\ V \subseteq Ids
  BY DEF View, Stored
<1>2. IsFiniteSet(V)
  <2> HIDE DEF V
  <2> QED BY <1>1, FS_Subset
<1>3. f \in Surjection(V, image)
  <2> HIDE DEF V
  <2> QED BY DEF Surjection
<1>4. IsFiniteSet(image)
  <2> HIDE DEF f, V, image
  <2> QED BY <1>2, <1>3, FS_Surjection
<1>5. Rest \in SUBSET image
  BY DEF Rest
<1>6. image \subseteq Entries
  BY <1>1, EntryOf DEF Stored
<1> HIDE DEF image
<1> QED BY <1>4, <1>5, <1>6, FS_Subset

\* A page is in order; the last one holds all that is left; another one ends with the row
\* of its cursor, and what it leaves out is after that row.
LEMMA PageRows ==
  ASSUME TypeOK, IsFiniteSet(Stored), Direction \in Orders,
         NEW limit \in Nat \ {0}, NEW by \in SortFields \cup Columns
  PROVE  LET r == Trimmed(First(Rest, Direction, limit + 1), limit, by, Direction) IN
           /\ r.rows \in Seq(Rest)
           /\ \A m, n \in DOMAIN r.rows : m < n => Before(Direction, r.rows[m], r.rows[n])
           /\ r.next = None => \A e \in Rest : \E n \in DOMAIN r.rows : r.rows[n] = e
           /\ r.next # None =>
                /\ r.next \in Cursors /\ r.next.sortOrder = Direction /\ r.next.sortBy = by
                /\ \E k \in DOMAIN r.rows :
                     /\ r.rows[k] = Position(r.next)
                     /\ \A n \in DOMAIN r.rows : n # k => Before(Direction, r.rows[n], r.rows[k])
                     /\ \A e \in Rest : \/ \E n \in DOMAIN r.rows : r.rows[n] = e
                                        \/ Before(Direction, r.rows[k], e)
<1> DEFINE s == First(Rest, Direction, limit + 1)
           r == Trimmed(s, limit, by, Direction)
<1>1. limit \in Nat /\ limit >= 1
  OBVIOUS
<1>2. Rest \subseteq Entries /\ IsFiniteSet(Rest)
  BY RestOf
<1>3. /\ s \in Seq(Rest)
      /\ Len(s) = IF Cardinality(Rest) < limit + 1 THEN Cardinality(Rest) ELSE limit + 1
      /\ \A i, j \in 1 .. Len(s) : i < j => Before(Direction, s[i], s[j])
      /\ \A e \in Rest : \/ \E i \in 1 .. Len(s) : s[i] = e
                         \/ /\ Len(s) = limit + 1
                            /\ \A i \in 1 .. Len(s) : Before(Direction, s[i], e)
  <2>1. limit + 1 \in Nat
    OBVIOUS
  <2> QED BY <1>2, <2>1, FirstEntries
<1>4. Len(s) \in Nat /\ Len(s) <= limit + 1 /\ DOMAIN s = 1 .. Len(s)
  <2>1. Cardinality(Rest) \in Nat
    BY <1>2, FS_CardinalityType
  <2> HIDE DEF s
  <2> QED BY <1>3, <2>1
<1> HIDE DEF s
<1>5. /\ Len(s) <= limit \/ Len(s) = limit + 1
      /\ Len(s) <= limit => Len(s) # limit + 1 /\ ~(Len(s) > limit)
      /\ Len(s) = limit + 1 => Len(s) > limit
  <2> DEFINE len == Len(s)
  <2>1. len \in Nat /\ len <= limit + 1
    BY <1>4
  <2> HIDE DEF len
  <2>2. /\ len <= limit \/ len = limit + 1
        /\ len <= limit => len # limit + 1 /\ ~(len > limit)
        /\ len = limit + 1 => len > limit
    BY <1>1, <2>1
  <2> QED BY <2>2 DEF len
<1>6. CASE Len(s) <= limit
  <2>1. r.rows = s /\ r.next = None
    BY <1>5, <1>6 DEF Trimmed
  <2>2. Len(s) # limit + 1
    BY <1>6, <1>5
  <2> HIDE DEF r
  <2>3. \A e \in Rest : \E n \in DOMAIN r.rows : r.rows[n] = e
    BY <1>3, <1>4, <2>1, <2>2
  <2>4. \A m, n \in DOMAIN r.rows : m < n => Before(Direction, r.rows[m], r.rows[n])
    BY <1>3, <1>4, <2>1
  <2>5. r.rows \in Seq(Rest)
    BY <1>3, <2>1
  <2> QED BY <2>1, <2>3, <2>4, <2>5 DEF r, s
<1>7. CASE Len(s) = limit + 1
  <2>1. r.rows = SubSeq(s, 1, limit) /\ r.next = NextCursor(s, limit, by, Direction)
    BY <1>5, <1>7 DEF Trimmed
  <2>2. /\ SubSeq(s, 1, limit) \in Seq(Rest) /\ DOMAIN SubSeq(s, 1, limit) = 1 .. limit
        /\ \A n \in 1 .. limit : SubSeq(s, 1, limit)[n] = s[n]
    <3> DEFINE t == SubSeq(s, 1, limit)
    <3>1. \A n \in 1 .. limit : s[n] \in Rest
      BY <1>3, <1>7
    <3>2. /\ t \in Seq(Rest) /\ Len(t) = IF 1 <= limit THEN limit - 1 + 1 ELSE 0
          /\ \A n \in 1 .. limit - 1 + 1 : t[n] = s[1 + n - 1]
      BY <3>1, SubSeqProperties
    <3> HIDE DEF t
    <3>3. DOMAIN t = 1 .. limit /\ \A n \in 1 .. limit : t[n] = s[n]
      BY <3>2
    <3> QED BY <3>2, <3>3 DEF t
  <2>3. s[limit] \in Rest /\ s[limit] \in Entries /\ limit \in 1 .. limit
    BY <1>2, <1>3, <1>7
  <2> HIDE DEF r
  <2>4. /\ r.rows \in Seq(Rest) /\ DOMAIN r.rows = 1 .. limit
        /\ \A n \in 1 .. limit : r.rows[n] = s[n]
    BY <2>1, <2>2
  <2>5. /\ r.next = [id |-> s[limit].id, v |-> s[limit].v, sortBy |-> by, sortOrder |-> Direction]
        /\ r.next \in Cursors /\ Position(r.next) = s[limit]
    BY <2>1, <2>3 DEF NextCursor, Cursors, Entries, Position, Orders
  <2>6. r.next # None /\ r.next.sortOrder = Direction /\ r.next.sortBy = by
    BY <2>5, ListingAssumption
  <2>7. \A m, n \in DOMAIN r.rows : m < n => Before(Direction, r.rows[m], r.rows[n])
    BY <1>3, <1>7, <2>4
  <2>8. ASSUME NEW e \in Rest, ~\E n \in DOMAIN r.rows : r.rows[n] = e
        PROVE  Before(Direction, r.rows[limit], e)
    <3>1. \A n \in 1 .. limit : s[n] # e
      BY <2>4, <2>8
    <3>2. CASE s[limit + 1] = e
      BY <1>3, <1>7, <2>4, <3>2
    <3>3. CASE s[limit + 1] # e
      <4>1. \A i \in 1 .. Len(s) : s[i] # e
        BY <1>7, <3>1, <3>3
      <4> QED BY <1>3, <1>7, <2>4, <4>1
    <3> QED BY <3>2, <3>3
  <2>9. /\ limit \in DOMAIN r.rows /\ r.rows[limit] = Position(r.next)
        /\ \A n \in DOMAIN r.rows : n # limit => Before(Direction, r.rows[n], r.rows[limit])
    BY <2>3, <2>4, <2>5, <2>7
  <2> QED BY <2>4, <2>5, <2>6, <2>7, <2>8, <2>9 DEF r, s
<1> QED BY <1>6, <1>7, <1>5

\* A page comes after everything that was delivered.
LEMMA RestAfterSeen ==
  ASSUME IInv, state \in {"idle", "paging"}, Direction \in Orders,
         NEW d \in seen, NEW e \in Rest
  PROVE  Before(Direction, d, e)
<1>1. cursor # None
  BY DEF IInv, TypeOK, Fresh
<1>2. Position(cursor) \in Entries /\ d \in Entries /\ e \in Entries
  BY <1>1, RestOf DEF IInv, TypeOK, Cursors, Position, Entries
<1>3. Before(Direction, Position(cursor), e)
  BY <1>1, BeyondIsBefore DEF Rest, Position
<1>4. d = Position(cursor) \/ Before(Direction, d, Position(cursor))
  BY <1>1 DEF IInv, SeenBehind
<1> QED BY <1>2, <1>3, <1>4, BeforeOrders

\* What stayed in view was delivered, or is in what is left.
LEMMA StableLeft ==
  ASSUME IInv, state \in {"idle", "paging"}, Direction \in Orders,
         NEW i \in IF state = "idle" THEN View(table, now) ELSE stable
  PROVE  Entry(i) \in Rest \/ \E e \in seen : e.id = i
<1>1. i \in View(table, now)
  BY DEF IInv, StableAhead
<1>2. CASE state = "idle"
  BY <1>1, <1>2 DEF IInv, Fresh, Rest
<1>3. CASE state = "paging"
  <2>1. i \in stable
    BY <1>3
  <2>2. CASE \E e \in seen : e.id = i
    BY <2>2
  <2>3. CASE Before(Direction, Position(cursor), Entry(i))
    <3>1. Beyond(Direction, cursor, Entry(i))
      BY <2>3, BeyondIsBefore DEF Position
    <3> QED BY <1>1, <3>1 DEF Rest
  <2> QED BY <1>3, <2>1, <2>2, <2>3 DEF IInv, StableAhead
<1> QED BY <1>2, <1>3

(***************************************************************************)
(* The invariant is inductive.                                             *)
(***************************************************************************)
LEMMA Initially == Init => IInv
<1> SUFFICES ASSUME Init PROVE IInv
  OBVIOUS
<1>1. TypeOK
  BY ListingAssumption DEF Init, TypeOK
<1>2. IsFiniteSet(Stored)
  BY ListingAssumption DEF Init, Stored
<1>3. IsFiniteSet(seen) /\ Cardinality(seen) = 0
  BY FS_EmptySet DEF Init
<1>4. CursorFits /\ Fresh /\ SeenBehind /\ StableAhead /\ NothingMissed
  BY DEF Init, CursorFits, Fresh, SeenBehind, StableAhead, NothingMissed
<1>5. Counted
  BY <1>3 DEF Init, Counted
<1> QED BY <1>1, <1>2, <1>3, <1>4, <1>5 DEF IInv

\* What the properties are about depends on the kind and the query of the session only.
LEMMA SameSession ==
  ASSUME UNCHANGED <<kind, query>>
  PROVE  /\ SortColumn' = SortColumn /\ Direction' = Direction
         /\ (FieldColumn(cursor.sortBy))' = FieldColumn(cursor'.sortBy)
         /\ View(table, now)' = View(table', now')
BY DEF SortColumn, Direction, FieldColumn, View

\* An error changes nothing but the state of the session.
LEMMA RefusedPage ==
  ASSUME IInv, GetPage, NEW c \in Codes, Reply = Refused(c)
  PROVE  IInv'
<1>1. c # None
  BY NoneIsNoWord DEF Words
<1>2. Reply.rows = <<>> /\ Reply.code = c
  BY DEF Refused
<1>3. /\ page' = <<>> /\ seen' = seen /\ pages' = pages /\ cursor' = cursor /\ state' = c
      /\ stable' = IF state = "idle" THEN View(table, now) ELSE stable
      /\ UNCHANGED <<table, now, changes, kind, query>>
  BY <1>1, <1>2 DEF GetPage
<1>4. c \notin {"idle", "paging", "done"}
  BY DEF Codes
<1>5. View(table, now)' = View(table, now) /\ SortColumn' = SortColumn /\ Direction' = Direction
      /\ (FieldColumn(cursor.sortBy))' = FieldColumn(cursor.sortBy)
  BY <1>3, SameSession
<1>6. View(table, now) \subseteq Ids
  BY DEF View
<1>7. TypeOK'
  BY <1>3, <1>4, <1>6 DEF IInv, TypeOK
<1>8. IsFiniteSet(Stored)' /\ IsFiniteSet(seen)'
  BY <1>3 DEF IInv, Stored
<1>9. CursorFits' /\ Fresh' /\ NothingMissed'
  BY <1>3, <1>4, <1>5 DEF IInv, CursorFits, Fresh, NothingMissed
<1>10. SeenBehind'
  BY <1>3, <1>5 DEF IInv, SeenBehind, Position, Before
<1>11. StableAhead'
  BY <1>3, <1>4, <1>5 DEF IInv, StableAhead
<1>12. Counted'
  BY <1>3, <1>4 DEF IInv, Counted, GetPage
<1> QED BY <1>7, <1>8, <1>9, <1>10, <1>11, <1>12 DEF IInv

LEMMA AnsweredPage ==
  ASSUME IInv, GetPage, PageOf(Reply)
  PROVE  IInv'
<1>1. PICK limit \in Nat \ {0}, by \in SortFields \cup Columns :
        /\ FieldColumn(by) = SortColumn
        /\ Reply = Answered(Trimmed(First(Rest, Direction, limit + 1), limit, by, Direction))
  BY DEF PageOf
<1> DEFINE r == Trimmed(First(Rest, Direction, limit + 1), limit, by, Direction)
           new == {r.rows[n] : n \in DOMAIN r.rows}
<1>2. Direction \in Orders
  BY DEF PageOf
<1>3. /\ r.rows \in Seq(Rest)
      /\ r.next = None => \A e \in Rest : \E n \in DOMAIN r.rows : r.rows[n] = e
      /\ r.next # None =>
           /\ r.next \in Cursors /\ r.next.sortOrder = Direction /\ r.next.sortBy = by
           /\ \E k \in DOMAIN r.rows :
                /\ r.rows[k] = Position(r.next)
                /\ \A n \in DOMAIN r.rows : n # k => Before(Direction, r.rows[n], r.rows[k])
                /\ \A e \in Rest : \/ \E n \in DOMAIN r.rows : r.rows[n] = e
                                   \/ Before(Direction, r.rows[k], e)
  BY <1>2, PageRows DEF IInv
<1>4. Reply = Answered(r)
  BY <1>1
<1> HIDE DEF r
<1>5. /\ page' = r.rows /\ seen' = seen \cup new /\ pages' = pages + 1 /\ cursor' = r.next
      /\ state' = IF r.next = None THEN "done" ELSE "paging"
      /\ stable' = IF state = "idle" THEN View(table, now) ELSE stable
      /\ UNCHANGED <<table, now, changes, kind, query>>
      /\ state \in {"idle", "paging"}
  <2>1. Reply.rows = r.rows /\ Reply.next = r.next /\ Reply.code = None
    BY <1>4 DEF Answered
  <2> QED BY <2>1 DEF GetPage
<1>6. View(table, now)' = View(table, now) /\ SortColumn' = SortColumn /\ Direction' = Direction
      /\ (FieldColumn(cursor.sortBy))' = FieldColumn(cursor'.sortBy)
  BY <1>5, SameSession
<1>7. new \subseteq Rest /\ Rest \subseteq Entries /\ IsFiniteSet(Rest)
  <2>1. new \subseteq Rest
    BY <1>3
  <2> QED BY <2>1, RestOf DEF IInv
<1>8. View(table, now) \subseteq Ids
  BY DEF View
<1>9. TypeOK'
  <2>1. r.rows \in Seq(Entries)
    <3>1. \A n \in 1 .. Len(r.rows) : r.rows[n] \in Entries
      BY <1>3, <1>7
    <3> QED BY <1>3, <3>1
  <2>2. cursor' \in Cursors \cup {None}
    BY <1>3, <1>5
  <2> QED BY <1>5, <1>7, <1>8, <2>1, <2>2 DEF IInv, TypeOK
<1>10. IsFiniteSet(Stored)' /\ IsFiniteSet(seen)' /\ IsFiniteSet(new)
  <2>1. IsFiniteSet(new)
    <3> HIDE DEF new
    <3> QED BY <1>7, FS_Subset
  <2>2. IsFiniteSet(seen \cup new)
    <3> HIDE DEF new
    <3> QED BY <2>1, FS_Union DEF IInv
  <2> QED BY <1>5, <2>1, <2>2 DEF IInv, Stored
<1>11. CursorFits' /\ Fresh'
  BY <1>1, <1>3, <1>5, <1>6 DEF CursorFits, Fresh
<1>12. \A d \in seen, e \in Rest : Before(Direction, d, e)
  BY <1>2, <1>5, RestAfterSeen
<1>13. SeenBehind'
  <2> SUFFICES ASSUME cursor' # None, NEW e \in seen'
               PROVE  e = Position(cursor') \/ Before(Direction, e, Position(cursor'))
    BY <1>6 DEF SeenBehind, Position, Before
  <2>1. Position(cursor') \in new
    BY <1>3, <1>5
  <2>2. CASE e \in seen
    BY <1>7, <1>12, <2>1, <2>2
  <2>3. CASE e \in new
    BY <1>3, <1>5, <2>3
  <2> QED BY <1>5, <2>2, <2>3
<1>14. ASSUME NEW i \in stable'
       PROVE  (\E e \in seen' : e.id = i) \/ (Entry(i) \in Rest /\ Entry(i) \notin new)
  <2>1. Entry(i) \in Rest \/ \E e \in seen : e.id = i
    BY <1>2, <1>5, StableLeft
  <2>2. Entry(i) \in new => \E e \in new : e.id = i
    BY DEF Entry
  <2> QED BY <1>5, <2>1, <2>2
<1>15. StableAhead'
  <2>1. stable' \subseteq View(table, now)
    BY <1>5 DEF IInv, StableAhead
  <2>2. ASSUME cursor' # None, NEW i \in stable', Entry(i) \in Rest, Entry(i) \notin new
        PROVE  Before(Direction, Position(cursor'), Entry(i))
    BY <1>3, <1>5, <2>2
  <2>3. \A i : Entry(i)' = Entry(i)
    BY <1>5, <1>6 DEF Entry
  <2>4. ASSUME state' = "paging", NEW i \in stable'
        PROVE  \/ \E e \in seen' : e.id = i
               \/ Before(Direction, Position(cursor'), Entry(i))
    <3>1. cursor' # None
      BY <1>5, <2>4
    <3> QED BY <1>14, <2>2, <3>1
  <2> QED BY <1>6, <2>1, <2>3, <2>4 DEF StableAhead, Position, Before
<1>16. NothingMissed'
  <2> SUFFICES ASSUME state' = "done", NEW i \in stable' PROVE \E e \in seen' : e.id = i
    BY DEF NothingMissed
  <2>1. cursor' = None
    BY <1>5
  <2>2. Rest \subseteq new
    BY <1>3, <1>5, <2>1
  <2> QED BY <1>14, <2>2
<1>17. Counted'
  <2>1. Cardinality(seen) \in Nat /\ Cardinality(seen') \in Nat /\ pages \in Nat
    BY <1>10, FS_CardinalityType DEF IInv, TypeOK
  <2>2. Cardinality(seen) >= pages
    BY <1>5 DEF IInv, Counted
  <2>3. seen \in SUBSET seen'
    BY <1>5
  <2>4. /\ Cardinality(seen) <= Cardinality(seen')
        /\ Cardinality(seen') = Cardinality(seen) => seen' = seen
    BY <1>10, <2>3, FS_Subset
  <2>5. CASE cursor' = None
    <3>1. state' = "done" /\ pages' = pages + 1
      BY <1>5, <2>5
    <3> QED BY <2>1, <2>2, <2>4, <3>1 DEF Counted
  <2>6. CASE cursor' # None
    <3>1. PICK e \in new : TRUE
      BY <1>3, <1>5, <2>6
    <3>2. e \notin seen
      BY <1>2, <1>7, <1>12, <3>1, BeforeOrders
    <3>3. seen' # seen
      BY <1>5, <3>1, <3>2
    <3>4. state' = "paging" /\ pages' = pages + 1
      BY <1>5, <2>6
    <3> QED BY <2>1, <2>2, <2>4, <3>3, <3>4 DEF Counted
  <2> QED BY <2>5, <2>6
<1> QED BY <1>9, <1>10, <1>11, <1>13, <1>15, <1>16, <1>17 DEF IInv

\* What other requests and the clock do to the session: rows may leave the stable ones, and
\* those that stay keep their place.
LEMMA ChangedAround ==
  ASSUME IInv, UNCHANGED session, stable' = Keep(table', now'),
         table' \in [Ids -> Rows \cup {None}], now' \in 0 .. MaxTime, changes' \in 0 .. MaxChanges,
         IsFiniteSet(Stored')
  PROVE  IInv'
<1>1. UNCHANGED <<kind, query, cursor, state, page, seen, pages>>
  BY DEF session
<1>2. View(table, now)' = View(table', now') /\ SortColumn' = SortColumn /\ Direction' = Direction
      /\ (FieldColumn(cursor.sortBy))' = FieldColumn(cursor.sortBy)
  BY <1>1, SameSession
<1>3. stable' \subseteq stable /\ stable' \subseteq View(table', now')
      /\ \A i \in stable' : table'[i][SortColumn] = table[i][SortColumn]
  BY DEF Keep
<1>4. View(table', now') \subseteq Ids
  BY DEF View
<1>5. TypeOK'
  BY <1>1, <1>3, <1>4 DEF IInv, TypeOK
<1>6. CursorFits' /\ IsFiniteSet(seen)'
  BY <1>1, <1>2 DEF IInv, CursorFits
<1>7. Fresh' /\ NothingMissed'
  BY <1>1, <1>3 DEF IInv, Fresh, NothingMissed
<1>8. Counted'
  BY <1>1 DEF IInv, Counted
<1>9. SeenBehind'
  BY <1>1, <1>2 DEF IInv, SeenBehind, Position, Before
<1>10. StableAhead'
  <2>1. \A i \in stable' : Entry(i)' = Entry(i)
    BY <1>2, <1>3 DEF Entry
  <2> QED BY <1>1, <1>2, <1>3, <2>1 DEF IInv, StableAhead, Position, Before
<1> QED BY <1>5, <1>6, <1>7, <1>8, <1>9, <1>10 DEF IInv

LEMMA StoredRow ==
  ASSUME IInv, NEW i \in Ids, NEW r \in Rows, Store(i, r)
  PROVE  IInv'
<1>1. /\ table' = [table EXCEPT ![i] = r] /\ stable' = Keep(table', now)
      /\ changes < MaxChanges /\ changes' = changes + 1 /\ UNCHANGED <<now, session>>
  BY DEF Store
<1>2. table' \in [Ids -> Rows \cup {None}] /\ now' \in 0 .. MaxTime
  BY <1>1 DEF IInv, TypeOK
<1>3. changes' \in 0 .. MaxChanges
  BY <1>1, ListingAssumption DEF IInv, TypeOK
<1>4. IsFiniteSet(Stored')
  <2>1. Stored' \in SUBSET (Stored \cup {i})
    BY <1>1 DEF Stored, IInv, TypeOK
  <2>2. IsFiniteSet(Stored \cup {i})
    BY FS_AddElement DEF IInv
  <2> QED BY <2>1, <2>2, FS_Subset
<1>5. UNCHANGED session /\ stable' = Keep(table', now')
  BY <1>1
<1> QED BY <1>2, <1>3, <1>4, <1>5, ChangedAround

LEMMA Inductive == IInv /\ [Next]_vars => IInv'
<1> SUFFICES ASSUME IInv, [Next]_vars PROVE IInv'
  OBVIOUS
<1>1. CASE GetPage
  <2>1. (\E c \in Codes : Reply = Refused(c)) \/ PageOf(Reply)
    BY ReplyOf DEF IInv
  <2> QED BY <1>1, <2>1, RefusedPage, AnsweredPage
<1>2. ASSUME NEW i \in Ids, Insert(i) PROVE IInv'
  <2>1. PICK d \in {now, now - 1} \cap Nat, v \in Values :
          Store(i, [created_at |-> d, updated_at |-> d, value |-> v, status |-> "ACTIVE"])
    BY <1>2 DEF Insert
  <2>2. [created_at |-> d, updated_at |-> d, value |-> v, status |-> "ACTIVE"] \in Rows
    BY DEF Rows
  <2> QED BY <2>1, <2>2, StoredRow
<1>3. ASSUME NEW i \in Ids, Update(i) PROVE IInv'
  <2>1. PICK v \in Values, s \in {"ACTIVE", "INACTIVE", "GONE"} :
          Store(i, [table[i] EXCEPT !.value = v, !.status = s, !.updated_at = now])
    BY <1>3 DEF Update
  <2>2. table[i] \in Rows /\ now \in Nat
    BY <1>3 DEF IInv, TypeOK, Update
  <2>3. [table[i] EXCEPT !.value = v, !.status = s, !.updated_at = now] \in Rows
    BY <2>2 DEF Rows
  <2> QED BY <2>1, <2>3, StoredRow
<1>4. CASE Tick
  <2>1. now' = now + 1 /\ now < MaxTime /\ UNCHANGED <<table, changes, session>>
        /\ stable' = Keep(table, now')
    BY <1>4 DEF Tick
  <2>2. now' \in 0 .. MaxTime
    BY <2>1, ListingAssumption DEF IInv, TypeOK
  <2>3. /\ table' \in [Ids -> Rows \cup {None}] /\ changes' \in 0 .. MaxChanges
        /\ IsFiniteSet(Stored') /\ UNCHANGED session /\ stable' = Keep(table', now')
    BY <2>1 DEF IInv, TypeOK, Stored
  <2> QED BY <2>2, <2>3, ChangedAround
<1>5. CASE UNCHANGED vars
  <2>1. UNCHANGED <<table, now, changes, kind, query, cursor, state, page, seen, pages, stable>>
    BY <1>5 DEF vars
  <2>2. View(table, now)' = View(table, now) /\ SortColumn' = SortColumn /\ Direction' = Direction
        /\ (FieldColumn(cursor.sortBy))' = FieldColumn(cursor.sortBy)
    BY <2>1, SameSession
  <2>3. TypeOK' /\ IsFiniteSet(Stored') /\ IsFiniteSet(seen)' /\ CursorFits' /\ Fresh' /\ Counted'
    BY <2>1, <2>2 DEF IInv, TypeOK, Stored, CursorFits, Fresh, Counted
  <2>4. SeenBehind' /\ StableAhead' /\ NothingMissed'
    BY <2>1, <2>2 DEF IInv, SeenBehind, StableAhead, NothingMissed, Position, Entry, Before
  <2> QED BY <2>3, <2>4 DEF IInv
<1> QED BY <1>1, <1>2, <1>3, <1>4, <1>5 DEF Next

THEOREM Invariance == Spec => []IInv
BY Initially, Inductive, PTL DEF Spec

(***************************************************************************)
(* The theorems.                                                           *)
(***************************************************************************)

\* A session has its type in every state: in particular a cursor names a field or a column
\* of the list, an id and a direction, and a client that is to ask for more has one.
THEOREM TypeCorrect == Spec => []TypeOK
BY Invariance, PTL DEF IInv

\* A client that follows the cursors to the last page has got every row that was in view
\* with the same sort value since its first page, for any table, page size, sort and filter,
\* and whatever the other requests change between two pages (List of the four repositories,
\* getApplicableLimits).
THEOREM ListsAreComplete == Spec => []NothingMissed
BY Invariance, PTL DEF IInv

\* Every page but the last one brings a new row, so a client that follows the cursors, and
\* the loop of getApplicableLimits, come to an end on a finite table.
THEOREM PagesAdvance == Spec => []EveryPageAdvances
<1>1. IInv => EveryPageAdvances
  BY DEF IInv, Counted, EveryPageAdvances
<1> QED BY <1>1, Invariance, PTL

\* A page is in order and strictly after all that was delivered before it.
THEOREM PagesAreInOrder == Spec => InOrder
<1> DEFINE Step == pages' # pages =>
                     /\ \A m, n \in DOMAIN page' : m < n => Before(Direction, page'[m], page'[n])
                     /\ \A e \in seen, n \in DOMAIN page' : Before(Direction, e, page'[n])
<1>1. ASSUME IInv, [Next]_vars PROVE [Step]_vars
  <2>1. CASE GetPage
    <3>1. CASE \E c \in Codes : Reply = Refused(c)
      <4>1. PICK c \in Codes : Reply = Refused(c)
        BY <3>1
      <4>2. Reply.code # None
        BY <4>1, NoneIsNoWord DEF Refused, Words
      <4> QED BY <2>1, <4>2 DEF GetPage
    <3>2. CASE PageOf(Reply)
      <4>1. PICK limit \in Nat \ {0}, by \in SortFields \cup Columns :
              Reply = Answered(Trimmed(First(Rest, Direction, limit + 1), limit, by, Direction))
        BY <3>2 DEF PageOf
      <4> DEFINE r == Trimmed(First(Rest, Direction, limit + 1), limit, by, Direction)
      <4>2. Direction \in Orders /\ state \in {"idle", "paging"}
        BY <2>1, <3>2 DEF PageOf, GetPage
      <4>3. /\ r.rows \in Seq(Rest)
            /\ \A m, n \in DOMAIN r.rows : m < n => Before(Direction, r.rows[m], r.rows[n])
        BY <1>1, <4>2, PageRows DEF IInv
      <4> HIDE DEF r
      <4>4. page' = r.rows
        BY <2>1, <4>1 DEF GetPage, Answered, r
      <4>5. \A e \in seen, n \in DOMAIN r.rows : Before(Direction, e, r.rows[n])
        BY <1>1, <4>2, <4>3, RestAfterSeen
      <4> QED BY <4>3, <4>4, <4>5
    <3> QED BY <1>1, <3>1, <3>2, ReplyOf DEF IInv
  <2>2. CASE \E i \in Ids : Insert(i) \/ Update(i)
    BY <2>2 DEF Insert, Update, Store, session
  <2>3. CASE Tick
    BY <2>3 DEF Tick, session
  <2>4. CASE UNCHANGED vars
    BY <2>4 DEF vars
  <2> QED BY <1>1, <2>1, <2>2, <2>3, <2>4 DEF Next
<1>2. Spec => [][Step]_vars
  <2> HIDE DEF Step
  <2> QED BY <1>1, Invariance, PTL DEF Spec
<1> QED BY <1>2 DEF InOrder
=============================================================================
