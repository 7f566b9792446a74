----------------------------- MODULE Validation -----------------------------
(***************************************************************************)
(* POST /v1/validations: ValidationService.Validate with the limit checker *)
(* and the PostgreSQL repositories it calls.                               *)
(*                                                                         *)
(* Every call of Validate is an attempt.  Two attempts with the same       *)
(* request_id are a client's retry or a duplicate sent concurrently.  An   *)
(* attempt is a goroutine: each of its actions is one statement sent to    *)
(* the database, so the statements of several attempts interleave.         *)
(*                                                                         *)
(* The database is READ COMMITTED: counter, record and audit are the       *)
(* committed rows, pending and locked are what the open transaction of an  *)
(* attempt has written and locked.  A statement that meets a row written   *)
(* by an open transaction waits, which is a conjunct of its guard.  The    *)
(* identifier of a validation is the attempt that created it (uuid.New).   *)
(***************************************************************************)
EXTENDS Integers, FiniteSetsExt

CONSTANTS
  Attempts,     \* calls of Validate
  Requests,     \* request_ids
  Limits,       \* limits, numbered in the order limitRepo.List returns them
  Times,        \* readings of the server clock, in increasing order
  Req,          \* Req[h]: the request_id attempt h carries
  Amount,       \* Amount[r]: the amount of request r
  Matches,      \* Matches[r]: the limits whose currency and scopes match r
  PerTransaction, \* the limits of type PER_TRANSACTION, which have no counter
  Window,       \* Window[l]: the times within l's time window and custom period
  Buckets,      \* pairs of scope_key and period_key
  Bucket,       \* Bucket[r][l][t]: the scope key of limit l's first scope that
                \* matches request r, with the period key of limit l at time t
  RuleDecisions, \* the decisions the active rules can come to
  Managed,      \* the limits administrators change while attempts run
  MaxAmounts,   \* MaxAmounts[l]: the maxima administrators give limit l
  Faults,       \* TRUE when statements, commits and processes may fail
  None          \* no record, no answer, no event

Decisions == {"ALLOW", "DENY", "REVIEW"}

\* A usage counter is found by limit_id, scope_key and period_key.
Keys == Limits \X Buckets

\* A row of transaction_validations.  charged abstracts limit_usage_details to
\* the counters the transaction incremented.
Records == [id : Attempts, decision : Decisions, charged : SUBSET Keys]

\* ValidateResult: the response and IsDuplicate.
Answers == [id : Attempts, decision : Decisions, dup : BOOLEAN]

ASSUME ValidationAssumption ==
  /\ Limits \subseteq Nat
  /\ Times \subseteq Nat
  /\ Req \in [Attempts -> Requests]
  /\ Amount \in [Requests -> Nat \ {0}]
  /\ Matches \in [Requests -> SUBSET Limits]
  /\ PerTransaction \subseteq Limits
  /\ Window \in [Limits -> SUBSET Times]
  /\ Bucket \in [Requests -> [Limits -> [Times -> Buckets]]]
  /\ RuleDecisions \subseteq Decisions
  /\ Managed \subseteq Limits
  /\ MaxAmounts \in [Limits -> SUBSET (Nat \ {0})]
  /\ Faults \in BOOLEAN
  /\ None \notin Records
  /\ None \notin Answers
  /\ None \notin Decisions

VARIABLES
  \* committed rows
  counter,      \* usage_counters: counter[k] is current_usage, 0 when no row exists
  record,       \* transaction_validations: record[r] is the row with request_id r
  audit,        \* audit_events: audit[v] is the result of the event about validation v
  active,       \* limits with status ACTIVE
  maxAmount,    \* limits: max_amount
  \* the attempts
  pc,           \* the statement attempt h is about to send
  decision,     \* response.Decision
  todo,         \* limits the loop of checkLimitsInternal has still to process
  maxRead,      \* maxRead[h][l]: MaxAmount of limit l as getApplicableLimits read it
  at,           \* serverNow of checkLimitsInternal
  exceeded,     \* len(exceededLimitIDs) > 0
  pending,      \* counters the open transaction of h has incremented
  locked,       \* counters the open transaction of h has locked
  answer,       \* what Validate returned, None before that or for an error
  \* environment
  now,          \* the server clock
  ceiling       \* history: the highest maximum each limit has had

database == <<counter, record, audit>>
limits == <<active, maxAmount, ceiling>>
locals == <<decision, todo, maxRead, at, exceeded>>
vars == <<counter, record, audit, active, maxAmount, pc, decision, todo, maxRead,
          at, exceeded, pending, locked, answer, now, ceiling>>

\* idle       Validate not called yet
\* rules      before ruleEvaluator.Execute
\* list       before BeginTx and limitRepo.List
\* limits     in the loop over the applicable limits
\* insertTx   before InsertWithTx          auditTx  before RecordValidationEventWithTx
\* commit     before Commit                refetch  in handleConcurrentDuplicate
\* insert     before the best-effort Insert of a refusal, outside a transaction
\* audit      before the best-effort RecordValidationEvent of a refusal
\* answered, failed, crashed   the call is over
InTx == {"list", "limits", "insertTx", "auditTx", "commit", "refetch"}
Over == {"answered", "failed", "crashed"}
Points == InTx \cup Over \cup {"idle", "rules", "insert", "audit"}

\* Every variable has its type; in particular no rollback of Validate takes a
\* usage counter below zero (the CHECK of usage_counters.current_usage).
TypeOK ==
  /\ counter \in [Keys -> Nat]
  /\ record \in [Requests -> Records \cup {None}]
  /\ audit \in [Attempts -> Decisions \cup {None}]
  /\ active \subseteq Limits
  /\ maxAmount \in [Limits -> Nat]
  /\ pc \in [Attempts -> Points]
  /\ decision \in [Attempts -> Decisions]
  /\ todo \in [Attempts -> SUBSET Limits]
  /\ maxRead \in [Attempts -> [Limits -> Nat]]
  /\ at \in [Attempts -> Times]
  /\ exceeded \in [Attempts -> BOOLEAN]
  /\ pending \in [Attempts -> SUBSET Keys]
  /\ locked \in [Attempts -> SUBSET Keys]
  /\ answer \in [Attempts -> Answers \cup {None}]
  /\ now \in Times
  /\ ceiling \in [Limits -> Nat]

Init ==
  /\ counter = [k \in Keys |-> 0]
  /\ record = [r \in Requests |-> None]
  /\ audit = [v \in Attempts |-> None]
  /\ active \in SUBSET Limits
  /\ maxAmount \in [Limits -> UNION {MaxAmounts[l] : l \in Limits}]
  /\ \A l \in Limits : maxAmount[l] \in MaxAmounts[l]
  /\ ceiling = maxAmount
  /\ pc = [h \in Attempts |-> "idle"]
  /\ decision = [h \in Attempts |-> "ALLOW"]
  /\ todo = [h \in Attempts |-> {}]
  /\ maxRead = [h \in Attempts |-> [l \in Limits |-> 0]]
  /\ now \in Times /\ \A t \in Times : now <= t
  /\ at = [h \in Attempts |-> now]
  /\ exceeded = [h \in Attempts |-> FALSE]
  /\ pending = [h \in Attempts |-> {}]
  /\ locked = [h \in Attempts |-> {}]
  /\ answer = [h \in Attempts |-> None]
-----------------------------------------------------------------------------
(* What the statements of an open transaction keep others from doing.      *)

\* No other open transaction has inserted or updated the usage counter k.
CounterFree(h, k) == \A g \in Attempts \ {h} : k \notin locked[g]

\* No other open transaction has inserted a row with h's request_id.
RequestFree(h) ==
  \A g \in Attempts \ {h} : pc[g] \in {"auditTx", "commit"} => Req[g] # Req[h]

\* No other open transaction holds the advisory lock that the trigger of
\* audit_events takes until the end of the transaction.
AuditFree(h) == \A g \in Attempts \ {h} : pc[g] # "commit"

\* What the counters are once the increments of h are installed.
Charged(h) ==
  [k \in Keys |-> IF k \in pending[h] THEN counter[k] + Amount[Req[h]] ELSE counter[k]]

\* The transaction of h ends: its locks are released and what it wrote is
\* either installed by the action that uses this operator or gone.
EndTx(h) ==
  /\ pending' = [pending EXCEPT ![h] = {}]
  /\ locked' = [locked EXCEPT ![h] = {}]

\* The local variables of CheckLimits are dead.
DropLocals(h) ==
  /\ todo' = [todo EXCEPT ![h] = {}]
  /\ maxRead' = [maxRead EXCEPT ![h] = [l \in Limits |-> 0]]
  /\ exceeded' = [exceeded EXCEPT ![h] = FALSE]
  /\ UNCHANGED at

\* Validate returns: a ValidateResult, or an error when result is None.
Return(h, result) ==
  /\ pc' = [pc EXCEPT ![h] = IF result = None THEN "failed" ELSE "answered"]
  /\ answer' = [answer EXCEPT ![h] = result]

\* ToValidationResponse of a stored row, with IsDuplicate set.
Cached(row) == [id |-> row.id, decision |-> row.decision, dup |-> TRUE]

\* The response of this attempt itself.
Fresh(h, d) == [id |-> h, decision |-> d, dup |-> FALSE]

-----------------------------------------------------------------------------
(* Before the transaction.                                                 *)

\* Step 0, FindByRequestID: a stored row is the answer.
CheckDuplicate(h) ==
  /\ pc[h] = "idle"
  /\ LET row == record[Req[h]] IN
       IF row # None
         THEN Return(h, Cached(row))
         ELSE /\ pc' = [pc EXCEPT ![h] = "rules"]
              /\ UNCHANGED answer
  /\ UNCHANGED <<database, limits, locals, pending, locked, now>>

\* Step 1, ruleEvaluator.Execute: the decision is any the active rules give.
\* DENY goes straight to the best-effort persistence, without limits.
EvaluateRules(h) ==
  /\ pc[h] = "rules"
  /\ \E d \in RuleDecisions :
       /\ decision' = [decision EXCEPT ![h] = d]
       /\ pc' = [pc EXCEPT ![h] = IF d = "DENY" THEN "insert" ELSE "list"]
  /\ UNCHANGED <<database, limits, todo, maxRead, at, exceeded, pending, locked, answer, now>>

-----------------------------------------------------------------------------
(* The transaction: limits.                                                *)

\* Step 2 and getApplicableLimits: BeginTx, then the active limits that match,
\* read through a connection of their own, outside the transaction.
ListLimits(h) ==
  /\ pc[h] = "list"
  /\ todo' = [todo EXCEPT ![h] = active \cap Matches[Req[h]]]
  /\ maxRead' = [maxRead EXCEPT ![h] =
                   [l \in Limits |-> IF l \in active \cap Matches[Req[h]] THEN maxAmount[l] ELSE 0]]
  /\ at' = [at EXCEPT ![h] = now]
  /\ pc' = [pc EXCEPT ![h] = "limits"]
  /\ UNCHANGED <<database, limits, decision, exceeded, pending, locked, answer, now>>

\* Mutant of NextLimit: List returns the limits in no particular order.
NextLimitUnordered(h, l) == l \in todo[h]

\* The limits are processed in the order of the list.
NextLimit(h, l) == l \in todo[h] /\ \A m \in todo[h] : l <= m

\* The counter of limit l for the request and the serverNow of h.
KeyOf(h, l) == <<l, Bucket[Req[h]][l][at[h]]>>

\* skipIfOutsideTimeWindow, skipIfOutsideCustomPeriod.
Skipped(h, l) == at[h] \notin Window[l]

\* The amount alone is above the maximum: for a PER_TRANSACTION limit the whole
\* check, for the others the check before the upsert, whose INSERT has no guard.
AmountTooLarge(h, l) == Amount[Req[h]] > maxRead[h][l]

\* Mutant of UpsertFits: the guard forgets the amount that is being added.
UpsertFitsBefore(h, l) == counter[KeyOf(h, l)] <= maxRead[h][l]

\* The guard of ON CONFLICT DO UPDATE; a missing row is inserted without guard.
UpsertFits(h, l) ==
  LET k == KeyOf(h, l) IN
    counter[k] = 0 \/ counter[k] + Amount[Req[h]] <= maxRead[h][l]

\* processLimitAtomic for a limit that needs no counter.
CheckWithoutCounter(h) ==
  /\ pc[h] = "limits"
  /\ \E l \in todo[h] :
       /\ NextLimit(h, l)
       /\ Skipped(h, l) \/ l \in PerTransaction \/ AmountTooLarge(h, l)
       /\ todo' = [todo EXCEPT ![h] = @ \ {l}]
       /\ exceeded' = [exceeded EXCEPT ![h] = @ \/ (~Skipped(h, l) /\ AmountTooLarge(h, l))]
  /\ UNCHANGED <<database, limits, pc, decision, maxRead, at, pending, locked, answer, now>>

\* processLimitAtomic for a limit with a counter: UpsertAndIncrementAtomic.
\* The row stays locked to the end of the transaction even when the guard of
\* the update refuses the increment.
UpsertAndIncrement(h) ==
  /\ pc[h] = "limits"
  /\ \E l \in todo[h] :
       /\ NextLimit(h, l)
       /\ ~(Skipped(h, l) \/ l \in PerTransaction \/ AmountTooLarge(h, l))
       /\ CounterFree(h, KeyOf(h, l))
       /\ todo' = [todo EXCEPT ![h] = @ \ {l}]
       /\ locked' = [locked EXCEPT ![h] = @ \cup {KeyOf(h, l)}]
       /\ IF UpsertFits(h, l)
            THEN /\ pending' = [pending EXCEPT ![h] = @ \cup {KeyOf(h, l)}]
                 /\ UNCHANGED exceeded
            ELSE /\ exceeded' = [exceeded EXCEPT ![h] = TRUE]
                 /\ UNCHANGED pending
  /\ UNCHANGED <<database, limits, pc, decision, maxRead, at, answer, now>>

\* Mutant of RollbackRefused: the refused attempt commits its increments.
RollbackRefusedCommits(h) ==
  /\ pc[h] = "limits" /\ todo[h] = {}
  /\ exceeded[h] \/ decision[h] = "REVIEW"
  /\ counter' = Charged(h)
  /\ decision' = [decision EXCEPT ![h] = IF exceeded[h] THEN "DENY" ELSE "REVIEW"]
  /\ pc' = [pc EXCEPT ![h] = "insert"]
  /\ EndTx(h)
  /\ DropLocals(h)
  /\ UNCHANGED <<record, audit, limits, answer, now>>

\* A limit is exceeded, or the rules said REVIEW: rollbackAndPersist undoes the
\* increments and leaves the transaction.
RollbackRefused(h) ==
  /\ pc[h] = "limits" /\ todo[h] = {}
  /\ exceeded[h] \/ decision[h] = "REVIEW"
  /\ decision' = [decision EXCEPT ![h] = IF exceeded[h] THEN "DENY" ELSE "REVIEW"]
  /\ pc' = [pc EXCEPT ![h] = "insert"]
  /\ EndTx(h)
  /\ DropLocals(h)
  /\ UNCHANGED <<database, limits, answer, now>>

\* Mutant of LimitsPassed: a REVIEW whose limits pass is committed with its
\* increments.
LimitsPassedReview(h) ==
  /\ pc[h] = "limits" /\ todo[h] = {}
  /\ ~exceeded[h]
  /\ pc' = [pc EXCEPT ![h] = "insertTx"]
  /\ DropLocals(h)
  /\ UNCHANGED <<database, limits, decision, pending, locked, answer, now>>

\* No limit is exceeded and the rules said ALLOW.
LimitsPassed(h) ==
  /\ pc[h] = "limits" /\ todo[h] = {}
  /\ ~exceeded[h] /\ decision[h] = "ALLOW"
  /\ pc' = [pc EXCEPT ![h] = "insertTx"]
  /\ DropLocals(h)
  /\ UNCHANGED <<database, limits, decision, pending, locked, answer, now>>

-----------------------------------------------------------------------------
(* The transaction: record, audit event, commit.                           *)

\* Mutant of UniqueViolation: no unique index on request_id.
UniqueViolationNever(h) == FALSE

\* The unique index on request_id refuses a second row.
UniqueViolation(h) == record[Req[h]] # None

\* InsertWithTx: ErrDuplicateValidation when a row was committed meanwhile.
InsertWithTx(h) ==
  /\ pc[h] = "insertTx"
  /\ RequestFree(h)
  /\ pc' = [pc EXCEPT ![h] = IF UniqueViolation(h) THEN "refetch" ELSE "auditTx"]
  /\ UNCHANGED <<database, limits, locals, pending, locked, answer, now>>

\* Mutant of HandleConcurrentDuplicate: the loser of the race flags its own
\* response as a duplicate instead of reading the stored one.
HandleConcurrentDuplicateOwn(h) ==
  /\ pc[h] = "refetch"
  /\ Return(h, [Fresh(h, decision[h]) EXCEPT !.dup = TRUE])
  /\ EndTx(h)
  /\ UNCHANGED <<database, limits, locals, now>>

\* handleConcurrentDuplicate: FindByRequestID again, then the deferred rollback.
HandleConcurrentDuplicate(h) ==
  /\ pc[h] = "refetch"
  /\ Return(h, Cached(record[Req[h]]))
  /\ EndTx(h)
  /\ UNCHANGED <<database, limits, locals, now>>

\* Mutant of AuditWithTx: the event goes through a connection of its own.
AuditOutsideTx(h) ==
  /\ pc[h] = "auditTx"
  /\ AuditFree(h)
  /\ audit' = [audit EXCEPT ![h] = decision[h]]
  /\ pc' = [pc EXCEPT ![h] = "commit"]
  /\ UNCHANGED <<counter, record, limits, locals, pending, locked, answer, now>>

\* RecordValidationEventWithTx.
AuditWithTx(h) ==
  /\ pc[h] = "auditTx"
  /\ AuditFree(h)
  /\ pc' = [pc EXCEPT ![h] = "commit"]
  /\ UNCHANGED <<database, limits, locals, pending, locked, answer, now>>

\* Mutant of Commit: the error of a commit that failed is only logged.
CommitErrorIgnored(h) ==
  /\ pc[h] = "commit"
  /\ \/ /\ counter' = Charged(h)
        /\ record' = [record EXCEPT ![Req[h]] =
                        [id |-> h, decision |-> decision[h], charged |-> pending[h]]]
        /\ audit' = [audit EXCEPT ![h] = decision[h]]
     \/ Faults /\ UNCHANGED database
  /\ Return(h, Fresh(h, decision[h]))
  /\ EndTx(h)
  /\ UNCHANGED <<limits, locals, now>>

\* Commit installs the increments, the row and the audit event together.  With
\* faults the reply of the server may be lost: the rows are durable and the
\* caller gets an error.
Commit(h) ==
  /\ pc[h] = "commit"
  /\ counter' = Charged(h)
  /\ record' = [record EXCEPT ![Req[h]] =
                  [id |-> h, decision |-> decision[h], charged |-> pending[h]]]
  /\ audit' = [audit EXCEPT ![h] = decision[h]]
  /\ \/ Return(h, Fresh(h, decision[h]))
     \/ Faults /\ Return(h, None)
  /\ EndTx(h)
  /\ UNCHANGED <<limits, locals, now>>

-----------------------------------------------------------------------------
(* Refusals: best-effort persistence outside the transaction.              *)

\* persistTransactionValidation: one statement of its own.  A unique violation
\* and a database error are logged, and the call goes on.
PersistRefusal(h) ==
  /\ pc[h] = "insert"
  /\ RequestFree(h)
  /\ \/ /\ ~UniqueViolation(h)
        /\ record' = [record EXCEPT ![Req[h]] =
                        [id |-> h, decision |-> decision[h], charged |-> {}]]
     \/ /\ UniqueViolation(h) \/ Faults
        /\ UNCHANGED record
  /\ pc' = [pc EXCEPT ![h] = "audit"]
  /\ UNCHANGED <<counter, audit, limits, locals, pending, locked, answer, now>>

\* persistAuditEvent, and the response, whatever was persisted.
AuditRefusal(h) ==
  /\ pc[h] = "audit"
  /\ AuditFree(h)
  /\ \/ audit' = [audit EXCEPT ![h] = decision[h]]
     \/ Faults /\ UNCHANGED audit
  /\ Return(h, Fresh(h, decision[h]))
  /\ UNCHANGED <<counter, record, limits, locals, pending, locked, now>>

-----------------------------------------------------------------------------
(* Failures and the environment.                                           *)

\* Mutant of Fail: the increments were not part of the transaction.
FailKeepsIncrements(h) ==
  /\ Faults
  /\ pc[h] \in InTx \cup {"idle", "rules"}
  /\ counter' = Charged(h)
  /\ Return(h, None)
  /\ EndTx(h)
  /\ DropLocals(h)
  /\ UNCHANGED <<record, audit, limits, decision, now>>

\* FindByRequestID, the rule evaluation, a statement of the transaction or its
\* ten-second context fails: Validate returns the error and the deferred
\* Rollback runs.
Fail(h) ==
  /\ Faults
  /\ pc[h] \in InTx \cup {"idle", "rules"}
  /\ Return(h, None)
  /\ EndTx(h)
  /\ DropLocals(h)
  /\ UNCHANGED <<database, limits, decision, now>>

\* The process stops.  The server rolls back the open transaction.
Crash(h) ==
  /\ Faults
  /\ pc[h] \notin Over \cup {"idle"}
  /\ pc' = [pc EXCEPT ![h] = "crashed"]
  /\ EndTx(h)
  /\ DropLocals(h)
  /\ UNCHANGED <<database, limits, decision, answer, now>>

\* The limit commands: a limit is given another maximum, activated or
\* deactivated, at any moment and by one statement.
UpdateLimit(l) ==
  /\ \E m \in MaxAmounts[l] :
       /\ m # maxAmount[l]
       /\ maxAmount' = [maxAmount EXCEPT ![l] = m]
       /\ ceiling' = [ceiling EXCEPT ![l] = IF m > @ THEN m ELSE @]
  /\ UNCHANGED <<database, active, pc, locals, pending, locked, answer, now>>

ActivateLimit(l) ==
  /\ l \notin active
  /\ active' = active \cup {l}
  /\ UNCHANGED <<database, maxAmount, ceiling, pc, locals, pending, locked, answer, now>>

DeactivateLimit(l) ==
  /\ l \in active
  /\ active' = active \ {l}
  /\ UNCHANGED <<database, maxAmount, ceiling, pc, locals, pending, locked, answer, now>>

\* The server clock moves on, possibly into another period.
Tick ==
  /\ \E t \in Times : t > now /\ now' = t
  /\ UNCHANGED <<database, limits, pc, locals, pending, locked, answer>>

-----------------------------------------------------------------------------
\* The next statement of attempt h.
Step(h) ==
  \/ CheckDuplicate(h)
  \/ EvaluateRules(h)
  \/ ListLimits(h)
  \/ CheckWithoutCounter(h)
  \/ UpsertAndIncrement(h)
  \/ RollbackRefused(h)
  \/ LimitsPassed(h)
  \/ InsertWithTx(h)
  \/ HandleConcurrentDuplicate(h)
  \/ AuditWithTx(h)
  \/ Commit(h)
  \/ PersistRefusal(h)
  \/ AuditRefusal(h)

Next ==
  \/ \E h \in Attempts : Step(h) \/ Fail(h) \/ Crash(h)
  \/ \E l \in Managed : UpdateLimit(l) \/ ActivateLimit(l) \/ DeactivateLimit(l)
  \/ Tick

Spec == Init /\ [][Next]_vars

\* A goroutine that can run does run, and the database does not ignore a
\* statement that nothing blocks.
FairSpec == Spec /\ \A h \in Attempts : WF_vars(Step(h))
-----------------------------------------------------------------------------
(* Properties.                                                             *)

\* The committed usage of a counter is the sum of the amounts of the stored
\* ALLOW validations that were charged to it: a retry or a concurrent duplicate
\* is not counted twice (validation_service.go, Step 0 and the unique index),
\* and a refused, failed or interrupted attempt leaves no increment behind
\* (the rollbacks of Validate).
CountersReconcile ==
  \A k \in Keys :
    counter[k] = MapThenSumSet(LAMBDA r : Amount[r],
                   {r \in Requests : record[r] # None /\ k \in record[r].charged})

\* No committed counter is above the highest maximum its limit has had, however
\* many attempts increment it at once and whenever an administrator changes the
\* limit (the guard of upsertAndIncrementCTEQuery and the check before it).
UsageWithinCeiling == \A k \in Keys : counter[k] <= ceiling[k[1]]

\* Whoever is told ALLOW, by the attempt that decided or by the copy of a stored
\* response, is told what the one stored row of the request says, and the audit
\* event of that row is stored too: no race, lost reply or crash takes back an
\* ALLOW that a client has seen (Steps 0 and 5 of Validate).
AllowIsBacked ==
  \A h \in Attempts :
    answer[h] # None /\ answer[h].decision = "ALLOW" =>
      /\ record[Req[h]] # None
      /\ record[Req[h]].id = answer[h].id
      /\ record[Req[h]].decision = "ALLOW"
      /\ audit[answer[h].id] = "ALLOW"

\* An answer flagged IsDuplicate repeats the stored row of the same request, also
\* when the duplicate was only met inside the transaction
\* (handleConcurrentDuplicate).
DuplicateRepeatsRecord ==
  \A h \in Attempts :
    answer[h] # None /\ answer[h].dup =>
      /\ record[Req[h]] # None
      /\ answer[h] = Cached(record[Req[h]])

\* An ALLOW validation and its ALLOW audit event are committed together or not at
\* all (Step 5 of Validate: one transaction for counters, row and event).
AllowTrailAtomic ==
  \A h \in Attempts :
    audit[h] = "ALLOW" <=>
      (record[Req[h]] # None /\ record[Req[h]].id = h /\ record[Req[h]].decision = "ALLOW")

\* Two open transactions never have increments on the same counter, and an
\* attempt that is not in a transaction holds no increment and no lock (the row
\* locks of the upsert, and every path of Validate that ends the transaction).
IncrementsIsolated ==
  /\ \A g, h \in Attempts : g # h => locked[g] \cap locked[h] = {}
  /\ \A h \in Attempts : pending[h] \subseteq locked[h]
  /\ \A h \in Attempts : pc[h] \notin InTx \ {"list"} => locked[h] = {}

\* A stored validation is never changed or removed and an audit event is never
\* rewritten (the insert-only repositories).
TrailImmutable ==
  [][/\ \A r \in Requests : record[r] # None => record'[r] = record[r]
     /\ \A h \in Attempts : audit[h] # None => audit'[h] = audit[h]]_vars

\* The service implements the ledger: verdicts are the stored decisions.
Ledger == INSTANCE SpendLedger WITH
            usage <- counter,
            verdict <- [r \in Requests |-> IF record[r] = None THEN None ELSE record[r].decision],
            Undecided <- None

\* Every step of the service is a step of the ledger or changes nothing the
\* ledger sees: all counters of an allowed request are charged in one instant,
\* together with the decision, and a refusal charges none.
ImplementsLedger == Ledger!LedgerSpec

\* The statement of Validate's doc comment on duplicates, "Returns ValidateResult
\* with IsDuplicate=true for duplicate requests": two answers to the same request
\* give the same decision, because one of them is the copy of the other.
OneDecisionPerRequest ==
  \A g, h \in Attempts :
    Req[g] = Req[h] /\ answer[g] # None /\ answer[h] # None =>
      answer[g].decision = answer[h].decision

\* Every call of Validate returns or its process stops: attempts that wait for
\* rows, request_ids and the audit lock of one another never wait in a circle,
\* because all of them take these in the same order.
EveryCallEnds ==
  \A h \in Attempts : pc[h] # "idle" ~> pc[h] \in Over
=============================================================================
