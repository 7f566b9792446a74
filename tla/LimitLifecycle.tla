--------------------------- MODULE LimitLifecycle ---------------------------
(***************************************************************************)
(* The life of spending limits: the limits table and the commands that     *)
(* change it, the usage counters that transactions charge, and the         *)
(* UsageCleanupWorker that deletes counters whose expires_at has passed.   *)
(*                                                                         *)
(* A command reads a limit, changes it in memory and writes it back in     *)
(* another statement, without a transaction.  A charge reads the limit and *)
(* the clock, and upserts its counter later.  Validation has the details   *)
(* of the transaction around a charge; here it is one step.                *)
(*                                                                         *)
(* Time is counted in days.  A custom period has begun and lasts until its *)
(* end; its counter has the same key however often the end is moved.       *)
(***************************************************************************)
EXTENDS Integers, FiniteSets

CONSTANTS
  Limits,       \* ids of limits
  Names,        \* names of limits
  Custom,       \* the limits of type CUSTOM; the others have a period of Period days
  Commands,     \* calls of limit commands
  RequestsOf,   \* RequestsOf[c]: the requests command c may be called with
  Charges,      \* transactions that pass one limit
  ChargeOf,     \* ChargeOf[h]: the limits charge h may be about
  Amount,       \* Amount[h]: its amount
  Tables,       \* the limits tables the system may start with
  Period,       \* days of a period
  Retention,    \* CounterRetentionDays
  Lag,          \* days from the clock reading of a charge to its commit, at most
  BatchSize,    \* deleteBatchSize
  MaxTime,      \* bound: the last day
  None

Ops == {"create", "update", "activate", "deactivate", "draft", "delete"}
Statuses == {"ABSENT", "DRAFT", "ACTIVE", "INACTIVE", "DELETED"}

\* A row of limits; gone is deleted_at IS NOT NULL, and end is 0 unless the limit is
\* custom.  The columns that stay out (description, scopes, time window, reset_at)
\* are written as name and max are.
Rows == [status : Statuses, gone : BOOLEAN, name : Names, max : Nat, end : Nat]

\* A row of usage_counters.
Counters == [usage : Nat, expires : Nat]

\* What a charge read: its limit with the maximum and the end, and the clock.
Readings == [id : Limits, max : Nat, end : Nat, at : Nat]

\* What commands are asked for, None where a request does not name a field.
Requests == UNION {RequestsOf[c] : c \in Commands}

ASSUME LimitAssumption ==
  /\ Custom \subseteq Limits
  /\ DOMAIN RequestsOf = Commands
  /\ Requests \subseteq [op : Ops, id : Limits, name : Names \cup {None},
                         max : Nat \cup {None}, end : Nat \cup {None}]
  /\ \A q \in Requests : /\ q.op = "create" => q.name # None /\ q.max # None
                         /\ q.op = "create" => (q.end # None <=> q.id \in Custom)
  /\ ChargeOf \in [Charges -> SUBSET Limits]
  /\ Amount \in [Charges -> Nat \ {0}]
  /\ Period \in Nat \ {0} /\ Retention \in Nat /\ Lag \in Nat
  /\ BatchSize \in Nat \ {0} /\ MaxTime \in Nat
  /\ None \notin Names \cup Nat \cup Rows \cup Counters \cup Readings \cup Requests

\* What is not in the code, which has timeouts of seconds and a retention of 90 days: a
\* charge commits within the retention.
ASSUME RetentionAssumption == Lag <= Retention

\* Two rows of table t that are in use have one name.
SameName(t, l, m) ==
  /\ t[l].name = t[m].name
  /\ {t[l].status, t[m].status} \cap {"ABSENT", "DELETED"} = {}

\* The tables at the start are as the commands leave them.
ASSUME TablesAssumption ==
  /\ Tables \subseteq [Limits -> Rows]
  /\ \A t \in Tables, l \in Limits :
       /\ t[l].gone <=> t[l].status = "DELETED"
       /\ l \notin Custom => t[l].end = 0
       /\ \A m \in Limits : l # m => ~SameName(t, l, m)

VARIABLES
  limit,        \* the limits table
  pc,           \* pc[c]: the statement command c is about to send
  req,          \* req[c]: the request of command c while it runs
  mem,          \* mem[c]: the limit in the memory of command c
  applied,      \* history: the commands whose statement changed a row
  audited,      \* the commands whose audit event was recorded
  counter,      \* usage_counters, None where there is no row
  reading,      \* reading[h]: what charge h read, None before and after
  charged,      \* the charges that have ended
  cleaner,      \* what the UsageCleanupWorker is doing
  asOf,         \* the clock reading of the current cycle
  batch,        \* the counters its DELETE statement has selected
  now,          \* the clock, in days
  ends,         \* history: ends[l], the ends that limit l has had
  spent,        \* history: spent[k], all that was charged to counter k while its limit
                \* was not Stretched
  granted,      \* history: the charges that reached their counter
  ceiling       \* history: the highest maximum a limit has had

Keys == Limits \X (0 .. MaxTime \div Period)

commands == <<pc, req, mem, applied, audited>>
table == <<limit, ends, ceiling>>
charging == <<reading, charged>>
cleaning == <<cleaner, asOf, batch>>
usage == <<counter, spent, granted>>
vars == <<limit, pc, req, mem, applied, audited, counter, reading, charged, cleaner, asOf, batch,
          now, ends, spent, granted, ceiling>>

\* idle   not called      write   before the statement that stores the limit
\* audit  before RecordLimitEvent                 done    returned
CommandPoints == {"idle", "write", "audit", "done"}

\* Every variable has its type.
TypeOK ==
  /\ limit \in [Limits -> Rows]
  /\ pc \in [Commands -> CommandPoints]
  /\ mem \in [Commands -> Rows \cup {None}]
  /\ req \in [Commands -> Requests \cup {None}]
  /\ \A c \in Commands : pc[c] = "write" => mem[c] \in Rows /\ req[c] \in Requests
  /\ applied \subseteq Commands /\ audited \subseteq Commands
  /\ counter \in [Keys -> Counters \cup {None}]
  /\ reading \in [Charges -> Readings \cup {None}]
  /\ granted \subseteq charged /\ charged \subseteq Charges
  /\ cleaner \in {"waiting", "cycle", "deleting"}
  /\ asOf \in Nat /\ now \in Nat
  /\ batch \subseteq Keys
  /\ ends \in [Limits -> SUBSET Nat]
  /\ spent \in [Keys -> Nat] /\ ceiling \in [Limits -> Nat]

\* Nothing is running, and nothing has been charged yet.
Init ==
  /\ limit \in Tables
  /\ pc = [c \in Commands |-> "idle"] /\ mem = [c \in Commands |-> None]
  /\ req = [c \in Commands |-> None]
  /\ applied = {} /\ audited = {}
  /\ counter = [k \in Keys |-> None] /\ spent = [k \in Keys |-> 0]
  /\ reading = [h \in Charges |-> None] /\ charged = {} /\ granted = {}
  /\ cleaner = "waiting" /\ asOf = 0 /\ batch = {}
  /\ now = 0
  /\ ends = [l \in Limits |-> IF limit[l].status = "ABSENT" THEN {} ELSE {limit[l].end}]
  /\ ceiling = [l \in Limits |-> limit[l].max]
-----------------------------------------------------------------------------
(* The limit commands.                                                     *)

\* validStatusTransitions.
CanTransition(from, to) ==
  <<from, to>> \in {<<"DRAFT", "ACTIVE">>, <<"DRAFT", "DELETED">>, <<"ACTIVE", "INACTIVE">>,
                    <<"INACTIVE", "ACTIVE">>, <<"INACTIVE", "DRAFT">>, <<"INACTIVE", "DELETED">>}

\* The status a command sets.
NewStatus(q) ==
  CASE q.op = "activate" -> "ACTIVE"
    [] q.op = "deactivate" -> "INACTIVE"
    [] q.op = "draft" -> "DRAFT"
    [] q.op = "delete" -> "DELETED"

\* ValidateCustomPeriod of the end a request names: only a CUSTOM limit has one, and
\* it may not lie before the current day.
ValidateCustomPeriod(q) ==
  q.end # None => q.id \in Custom /\ q.end >= now

\* validateMaxAmount.
ValidateMaxAmount(q) == q.max # None => q.max > 0

\* Field f of the request, or the old value.
Given(q, f, old) == IF q[f] # None THEN q[f] ELSE old

\* Limit.Update: the limit l with the fields of the request.
Updated(q, l) ==
  [l EXCEPT !.name = Given(q, "name", @), !.max = Given(q, "max", @), !.end = Given(q, "end", @)]

\* NewLimit, NewLimitWithCustomPeriod.
NewLimit(q) ==
  [status |-> "DRAFT", gone |-> FALSE, name |-> q.name, max |-> q.max,
   end |-> Given(q, "end", 0)]

\* Limit.SetStatus in the memory of the command.
SetStatus(l, s) == [l EXCEPT !.status = s, !.gone = (s = "DELETED")]

Return(c) ==
  /\ pc' = [pc EXCEPT ![c] = "done"]
  /\ req' = [req EXCEPT ![c] = None]
  /\ mem' = [mem EXCEPT ![c] = None]

\* The command goes on to store l.
GoOn(c, q, l) ==
  /\ pc' = [pc EXCEPT ![c] = "write"]
  /\ req' = [req EXCEPT ![c] = q]
  /\ mem' = [mem EXCEPT ![c] = l]

\* A new limit has an id of its own.
CreateLimit(c, q) ==
  /\ q.op = "create"
  /\ IF limit[q.id].status = "ABSENT" /\ ValidateMaxAmount(q) /\ ValidateCustomPeriod(q)
       THEN GoOn(c, q, NewLimit(q))
       ELSE Return(c)

\* GetByID WHERE deleted_at IS NULL.
Found(q) == limit[q.id].status # "ABSENT" /\ ~limit[q.id].gone

UpdateLimit(c, q) ==
  /\ q.op = "update"
  /\ LET hasChanges == \E f \in {"name", "max", "end"} : q[f] # None IN
       IF Found(q) /\ limit[q.id].status # "DELETED" /\ hasChanges
          /\ ValidateMaxAmount(q) /\ ValidateCustomPeriod(q)
         THEN GoOn(c, q, Updated(q, limit[q.id]))
         ELSE Return(c)

\* The status of the limit is changed: the same status is a no-op, and another one must
\* be a valid transition.
ChangeStatus(c, q) ==
  IF Found(q) /\ CanTransition(limit[q.id].status, NewStatus(q))
    THEN GoOn(c, q, SetStatus(limit[q.id], NewStatus(q)))
    ELSE Return(c)

ActivateLimit(c, q) == q.op = "activate" /\ ChangeStatus(c, q)
DeactivateLimit(c, q) == q.op = "deactivate" /\ ChangeStatus(c, q)
DraftLimit(c, q) == q.op = "draft" /\ ChangeStatus(c, q)
DeleteLimit(c, q) == q.op = "delete" /\ ChangeStatus(c, q)

\* The beginning of a command: the read, the checks and the change in memory.
Begin(c) ==
  /\ pc[c] = "idle"
  /\ \E q \in RequestsOf[c] :
       \/ CreateLimit(c, q) \/ UpdateLimit(c, q)
       \/ ActivateLimit(c, q) \/ DeactivateLimit(c, q) \/ DraftLimit(c, q) \/ DeleteLimit(c, q)
  /\ UNCHANGED <<table, applied, audited, usage, charging, cleaning, now>>

\* idx_limits_name_active: another row that is not deleted has the name.
NameTaken(l, name) ==
  \E m \in Limits \ {l} : limit[m].name = name /\ limit[m].status \notin {"ABSENT", "DELETED"}

\* The row after UpdateStatus: the status, and deleted_at for DELETED.
StatusUpdated(l, s) == [limit[l] EXCEPT !.status = s, !.gone = @ \/ s = "DELETED"]

\* The row after the statement of c.  Update writes every column from memory.
Stored(c) ==
  IF req[c].op \in {"create", "update"} THEN mem[c] ELSE StatusUpdated(req[c].id, NewStatus(req[c]))

\* The statement of c finds its row (WHERE deleted_at IS NULL), or for a create none,
\* and breaks no index.
Affects(c) ==
  /\ ~limit[req[c].id].gone
  /\ req[c].op = "create" => limit[req[c].id].status = "ABSENT"
  /\ req[c].op \in {"create", "update"} => ~NameTaken(req[c].id, mem[c].name)

Larger(m, n) == IF m > n THEN m ELSE n

\* Create, Update or UpdateStatus of the repository has changed the row.
Succeeds(c) ==
  /\ Affects(c)
  /\ limit' = [limit EXCEPT ![req[c].id] = Stored(c)]
  /\ ends' = [ends EXCEPT ![req[c].id] = @ \cup {Stored(c).end}]
  /\ ceiling' = [ceiling EXCEPT ![req[c].id] = Larger(@, Stored(c).max)]
  /\ applied' = applied \cup {c}
  /\ pc' = [pc EXCEPT ![c] = "audit"]
  /\ UNCHANGED req
  /\ mem' = [mem EXCEPT ![c] = None]

\* Mutant of Write: an error of the statement is logged and the command goes on.
WriteErrorIgnored(c) ==
  /\ pc[c] = "write"
  /\ \/ Succeeds(c)
     \/ /\ pc' = [pc EXCEPT ![c] = "audit"]
        /\ mem' = [mem EXCEPT ![c] = None]
        /\ UNCHANGED <<table, req, applied>>
  /\ UNCHANGED <<audited, usage, charging, cleaning, now>>

\* A statement that fails, affects no row or is cancelled ends the command.
Write(c) ==
  /\ pc[c] = "write"
  /\ \/ Succeeds(c)
     \/ /\ Return(c)
        /\ UNCHANGED <<table, applied>>
  /\ UNCHANGED <<audited, usage, charging, cleaning, now>>

\* RecordLimitEvent; an error is logged.
Audit(c) ==
  /\ pc[c] = "audit"
  /\ audited' \in {audited, audited \cup {c}}
  /\ Return(c)
  /\ UNCHANGED <<table, applied, usage, charging, cleaning, now>>
-----------------------------------------------------------------------------
(* Charges.                                                                *)

\* CalculatePeriodKey on day t; "custom" is 0.
PeriodKey(l, t) == IF l \in Custom THEN 0 ELSE t \div Period

\* CalculateResetAt: the first day of the next period.
ResetAt(t) == (t \div Period + 1) * Period

\* Mutant of ExpiresAt: the retention is forgotten.
ExpiresAtOnce(r) == IF r.id \in Custom THEN r.end ELSE ResetAt(r.at)

\* Mutant of ExpiresAt: a counter expires by its last charge, not by its period.
ExpiresAtCharge(r) == r.at

\* calculateCounterExpiresAt.
ExpiresAt(r) == IF r.id \in Custom THEN r.end + Retention ELSE ResetAt(r.at) + Retention

\* getApplicableLimits: the limit must be active; the clock is read once.
ReadLimit(h) ==
  /\ reading[h] = None /\ h \notin charged
  /\ \E l \in ChargeOf[h] :
       /\ limit[l].status = "ACTIVE" /\ ~limit[l].gone
       /\ reading' = [reading EXCEPT ![h] =
                         [id |-> l, max |-> limit[l].max, end |-> limit[l].end, at |-> now]]
  /\ UNCHANGED <<table, commands, usage, charged, cleaning, now>>

\* IsWithinCustomPeriod.
WithinPeriod(r) == r.id \in Custom => r.at < r.end

\* The usage a counter shows.
Usage(k) == IF counter[k] = None THEN 0 ELSE counter[k].usage

\* The end of custom limit l was once moved so far that a counter which was charged before
\* may expire while the limit can be charged: neither Update nor ValidateCustomPeriod looks
\* at the counters, and expires_at is only renewed by the next upsert.
Stretched(l) == l \in Custom /\ \E e, f \in ends[l] : f + Lag > e + Retention

\* UpsertAndIncrementAtomic and the commit of its transaction.  Out of the period, and
\* above the maximum, nothing is charged; a transaction may also fail or be refused for
\* another reason.
Upsert(h) ==
  /\ reading[h] # None
  /\ LET r == reading[h]
         k == <<r.id, PeriodKey(r.id, r.at)>> IN
       \/ /\ WithinPeriod(r)
          /\ Usage(k) + Amount[h] <= r.max
          /\ counter' = [counter EXCEPT ![k] = [usage |-> Usage(k) + Amount[h],
                                                expires |-> ExpiresAt(r)]]
          /\ spent' = IF Stretched(r.id) THEN spent ELSE [spent EXCEPT ![k] = @ + Amount[h]]
          /\ granted' = granted \cup {h}
       \/ UNCHANGED usage
  /\ reading' = [reading EXCEPT ![h] = None]
  /\ charged' = charged \cup {h}
  /\ UNCHANGED <<table, commands, cleaning, now>>
-----------------------------------------------------------------------------
(* The clean-up.                                                           *)

\* Mutant of StartCycle: only the cycle at the start of the worker is run.
StartCycleOnce ==
  /\ cleaner = "waiting" /\ asOf = 0
  /\ cleaner' = "cycle"
  /\ asOf' = now
  /\ UNCHANGED <<table, commands, usage, charging, batch, now>>

\* The worker starts, or its ticker fires: RunOnce reads the clock.
StartCycle ==
  /\ cleaner = "waiting"
  /\ cleaner' = "cycle"
  /\ asOf' = now
  /\ UNCHANGED <<table, commands, usage, charging, batch, now>>

\* The counters the subselect of DELETE may return.
Expired == {k \in Keys : counter[k] # None /\ counter[k].expires < asOf}

\* The snapshot of a DELETE statement: up to BatchSize expired counters.
SelectBatch ==
  /\ cleaner = "cycle"
  /\ cleaner' = "deleting"
  /\ batch' \in {b \in SUBSET Expired :
                   Cardinality(b) = BatchSize \/ (b = Expired /\ Cardinality(b) <= BatchSize)}
  /\ UNCHANGED <<table, commands, usage, charging, asOf, now>>

\* The rows of the snapshot are deleted, also one that an upsert had locked and renewed
\* meanwhile.  No row deleted ends the cycle.
DeleteBatch ==
  /\ cleaner = "deleting"
  /\ cleaner' = IF batch = {} THEN "waiting" ELSE "cycle"
  /\ counter' = [k \in Keys |-> IF k \in batch THEN None ELSE counter[k]]
  /\ batch' = {}
  /\ UNCHANGED <<table, commands, spent, granted, charging, asOf, now>>

\* A statement fails or the worker is stopped: the cycle is given up.
FailCycle ==
  /\ cleaner # "waiting"
  /\ cleaner' = "waiting"
  /\ batch' = {}
  /\ UNCHANGED <<table, commands, usage, charging, asOf, now>>
-----------------------------------------------------------------------------
\* A day passes, as far as Lag allows.
Tick ==
  /\ now < MaxTime
  /\ \A h \in Charges : reading[h] # None => now < reading[h].at + Lag
  /\ now' = now + 1
  /\ UNCHANGED <<table, commands, usage, charging, cleaning>>

Command(c) == Begin(c) \/ Write(c) \/ Audit(c)

Charge(h) == ReadLimit(h) \/ Upsert(h)

Clean == StartCycle \/ SelectBatch \/ DeleteBatch

Next ==
  \/ \E c \in Commands : Command(c)
  \/ \E h \in Charges : Charge(h)
  \/ Clean
  \/ FailCycle
  \/ Tick

Spec == Init /\ [][Next]_vars

\* The ticker of the worker goes on firing, and its statements succeed again and again:
\* WF alone would let FailCycle starve each of them.
FairSpec == Spec /\ WF_vars(StartCycle) /\ SF_vars(SelectBatch) /\ SF_vars(DeleteBatch)
-----------------------------------------------------------------------------
(* Properties.                                                             *)

\* A limit is DELETED exactly when deleted_at is set (Limit.Validate,
\* ErrLimitDeletedAtInvariant), although Update writes the status it read before and
\* never writes deleted_at.
DeletedAtAgrees == \A l \in Limits : limit[l].gone <=> limit[l].status = "DELETED"

\* A deleted limit stays as it is, whatever commands read it before it was deleted.
DeletedIsFinal ==
  [][\A l \in Limits : limit[l].status = "DELETED" => limit'[l] = limit[l]]_vars

\* Two limits in use never have the same name, whatever creates and renames race.
NamesUnique == \A l, m \in Limits : l # m => ~SameName(limit, l, m)

\* An audit event of a limit is about a change that was stored: the event comes after
\* the statement and only when the statement has changed the row.
AuditedWasApplied == audited \subseteq applied

\* What was charged in one period, counters that have been deleted included, is within
\* the highest maximum of the limit, up to the moment an update stretches the period beyond
\* the retention: the clean-up forgets no spending of a period in which more can be charged
\* (calculateCounterExpiresAt, DeleteExpiredCounters).
SpentWithinCeiling == \A k \in Keys : spent[k] <= ceiling[k[1]]

\* The ledger of SpendLedger with the whole periods of a limit as its counters: a charge is
\* a request, allowed when it reaches its counter.
Ledger == INSTANCE SpendLedger WITH
  Requests <- Charges,
  Buckets <- 0 .. MaxTime \div Period,
  Undecided <- None,
  usage <- spent,
  verdict <- [h \in Charges |-> IF h \notin charged THEN None
                                ELSE IF h \in granted THEN "ALLOW" ELSE "DENY"]

\* Deleting counters cannot be told from keeping them for ever: charges, the commands that
\* change maxima and ends, and the clean-up are the ledger in which no counter goes
\* (DeleteExpiredCounters, calculateCounterExpiresAt, UpsertAndIncrementAtomic).  What is
\* charged to a limit that has been Stretched is outside of the ledger.
ImplementsLedger == Ledger!LedgerSpec

\* A counter that has expired is removed in the end, or an extension of its limit has
\* renewed it (the loop of batches, the ticker).
ExpiredIsRemoved ==
  \A k \in Keys :
    (counter[k] # None /\ counter[k].expires < now) ~>
      (counter[k] = None \/ counter[k].expires >= now)

\* No counter of a limit that is in use is deleted before its period ends, whatever updates
\* move the end while the clean-up is under way, unless one of them has stretched the period
\* beyond the retention (calculateCounterExpiresAt, DeleteExpiredCounters).
OpenPeriodKept ==
  [][\A k \in Keys :
       /\ k[1] \in Custom
       /\ limit[k[1]].status = "ACTIVE" /\ now < limit[k[1]].end
       /\ counter[k] # None /\ counter'[k] = None
       => Stretched(k[1])]_vars
=============================================================================
