-------------------------- MODULE ValidationProofs --------------------------
(***************************************************************************)
(* Proofs about Validation, for every value of its constants.              *)
(***************************************************************************)
EXTENDS Validation, SumTheorems

\* The initial state has the types of the model.
LEMMA InitTypeOK == Init => TypeOK
  BY ValidationAssumption DEF Init, TypeOK, Decisions, Points, InTx, Over

\* An attempt in handleConcurrentDuplicate finds a stored row: the unique index
\* refused its own one.
RefetchFinds == \A h \in Attempts : pc[h] = "refetch" => record[Req[h]] # None

\* The two kinds of ValidateResult are answers.
LEMMA AnswerTypes ==
  /\ \A row \in Records : Cached(row) \in Answers
  /\ \A h \in Attempts, d \in Decisions : Fresh(h, d) \in Answers
  BY DEF Cached, Fresh, Records, Answers

\* Validate returns a value of its result type.
LEMMA ReturnTypes ==
  ASSUME TypeOK, NEW h \in Attempts, NEW result \in Answers \cup {None}, Return(h, result)
  PROVE  pc' \in [Attempts -> Points] /\ answer' \in [Attempts -> Answers \cup {None}]
  BY DEF Return, TypeOK, Points, Over

\* Limit l has a counter for the request and the serverNow of h.
LEMMA KeyTypes ==
  ASSUME at \in [Attempts -> Times], NEW h \in Attempts, NEW l \in Limits
  PROVE  KeyOf(h, l) \in Keys
<1>1. at[h] \in Times /\ Req[h] \in Requests
  BY ValidationAssumption
<1>2. Bucket[Req[h]] \in [Limits -> [Times -> Buckets]]
  BY <1>1, ValidationAssumption
<1>3. Bucket[Req[h]][l][at[h]] \in Buckets
  BY <1>1, <1>2
<1> QED BY <1>3 DEF KeyOf, Keys

\* Every statement of every attempt keeps the types of the model.
LEMMA StepTypeOK ==
  ASSUME TypeOK, RefetchFinds, NEW h \in Attempts, Step(h)
  PROVE  TypeOK'
<1> USE ValidationAssumption
<1> USE DEF TypeOK, database, limits, locals, Points, InTx, Over
<1>1. CASE CheckDuplicate(h)
  <2>1. record[Req[h]] # None => Cached(record[Req[h]]) \in Answers
    BY AnswerTypes
  <2>2. CASE record[Req[h]] # None
    <3>1. Return(h, Cached(record[Req[h]]))
      BY <1>1, <2>2 DEF CheckDuplicate
    <3> QED BY <1>1, <2>1, <2>2, <3>1, ReturnTypes DEF CheckDuplicate
  <2>3. CASE record[Req[h]] = None
    BY <1>1, <2>3 DEF CheckDuplicate
  <2> QED BY <2>2, <2>3
<1>2. CASE EvaluateRules(h)
  BY <1>2 DEF EvaluateRules
<1>3. CASE ListLimits(h)
  BY <1>3 DEF ListLimits
<1>4. CASE CheckWithoutCounter(h)
  BY <1>4 DEF CheckWithoutCounter
<1>5. CASE UpsertAndIncrement(h)
  <2>1. PICK l \in todo[h] :
          /\ todo' = [todo EXCEPT ![h] = @ \ {l}]
          /\ locked' = [locked EXCEPT ![h] = @ \cup {KeyOf(h, l)}]
          /\ IF UpsertFits(h, l)
               THEN /\ pending' = [pending EXCEPT ![h] = @ \cup {KeyOf(h, l)}]
                    /\ UNCHANGED exceeded
               ELSE /\ exceeded' = [exceeded EXCEPT ![h] = TRUE]
                    /\ UNCHANGED pending
    BY <1>5 DEF UpsertAndIncrement
  <2>2. KeyOf(h, l) \in Keys
    <3>1. l \in Limits
      OBVIOUS
    <3> QED BY <3>1, KeyTypes
  <2>3. /\ locked' \in [Attempts -> SUBSET Keys]
        /\ pending' = pending \/ pending' = [pending EXCEPT ![h] = @ \cup {KeyOf(h, l)}]
    BY <2>1, <2>2
  <2>5. pending' \in [Attempts -> SUBSET Keys]
    <3>1. CASE pending' = pending
      BY <3>1
    <3>2. CASE pending' = [pending EXCEPT ![h] = @ \cup {KeyOf(h, l)}]
      BY <3>2, <2>2
    <3> QED BY <2>3, <3>1, <3>2
  <2>4. todo' \in [Attempts -> SUBSET Limits] /\ exceeded' \in [Attempts -> BOOLEAN]
    BY <2>1
  <2> QED BY <1>5, <2>3, <2>4, <2>5 DEF UpsertAndIncrement
<1>6. CASE RollbackRefused(h)
  BY <1>6 DEF RollbackRefused, EndTx, DropLocals, Decisions
<1>7. CASE LimitsPassed(h)
  BY <1>7 DEF LimitsPassed, DropLocals
<1>8. CASE InsertWithTx(h)
  BY <1>8 DEF InsertWithTx
<1>9. CASE HandleConcurrentDuplicate(h)
  <2>1. Cached(record[Req[h]]) \in Answers
    BY <1>9, AnswerTypes DEF HandleConcurrentDuplicate, RefetchFinds
  <2> QED BY <1>9, <2>1, ReturnTypes DEF HandleConcurrentDuplicate, EndTx
<1>10. CASE AuditWithTx(h)
  BY <1>10 DEF AuditWithTx
<1>11. CASE Commit(h)
  <2>1. pc' \in [Attempts -> Points] /\ answer' \in [Attempts -> Answers \cup {None}]
    BY <1>11, ReturnTypes, AnswerTypes DEF Commit
  <2>2. counter' \in [Keys -> Nat]
    BY <1>11 DEF Commit, Charged
  <2>3. [id |-> h, decision |-> decision[h], charged |-> pending[h]] \in Records
    BY DEF Records
  <2>4. record' \in [Requests -> Records \cup {None}]
    BY <1>11, <2>3 DEF Commit
  <2>5. audit' \in [Attempts -> Decisions \cup {None}]
    BY <1>11 DEF Commit
  <2>6. pending' \in [Attempts -> SUBSET Keys] /\ locked' \in [Attempts -> SUBSET Keys]
    BY <1>11 DEF Commit, EndTx
  <2>7. UNCHANGED <<limits, locals, now>>
    BY <1>11 DEF Commit
  <2> QED BY <2>1, <2>2, <2>4, <2>5, <2>6, <2>7
<1>12. CASE PersistRefusal(h)
  <2>1. [id |-> h, decision |-> decision[h], charged |-> {}] \in Records
    BY DEF Records
  <2>2. record' \in [Requests -> Records \cup {None}]
    BY <1>12, <2>1 DEF PersistRefusal
  <2> QED BY <1>12, <2>2 DEF PersistRefusal
<1>13. CASE AuditRefusal(h)
  <2>1. pc' \in [Attempts -> Points] /\ answer' \in [Attempts -> Answers \cup {None}]
    BY <1>13, ReturnTypes, AnswerTypes DEF AuditRefusal
  <2> QED BY <1>13, <2>1 DEF AuditRefusal
<1> QED BY <1>1, <1>2, <1>3, <1>4, <1>5, <1>6, <1>7, <1>8, <1>9, <1>10, <1>11,
           <1>12, <1>13 DEF Step

\* The failures, the administrators and the clock keep the types of the model.
LEMMA OtherTypeOK ==
  ASSUME TypeOK, [Next]_vars, ~ \E h \in Attempts : Step(h)
  PROVE  TypeOK'
<1> USE ValidationAssumption
<1> USE DEF TypeOK, database, limits, locals, Points, InTx, Over
<1>1. CASE \E h \in Attempts : Fail(h)
  <2>1. PICK h \in Attempts : Fail(h)
    BY <1>1
  <2>2. pc' \in [Attempts -> Points] /\ answer' \in [Attempts -> Answers \cup {None}]
    BY <2>1, ReturnTypes DEF Fail
  <2>3. pending' \in [Attempts -> SUBSET Keys] /\ locked' \in [Attempts -> SUBSET Keys]
    BY <2>1 DEF Fail, EndTx
  <2> QED BY <2>1, <2>2, <2>3 DEF Fail, DropLocals
<1>2. CASE \E h \in Attempts : Crash(h)
  <2>1. PICK h \in Attempts : Crash(h)
    BY <1>2
  <2>3. pending' \in [Attempts -> SUBSET Keys] /\ locked' \in [Attempts -> SUBSET Keys]
    BY <2>1 DEF Crash, EndTx
  <2> QED BY <2>1, <2>3 DEF Crash, DropLocals
<1>3. CASE \E l \in Managed : UpdateLimit(l)
  BY <1>3 DEF UpdateLimit
<1>4. CASE \E l \in Managed : ActivateLimit(l)
  BY <1>4 DEF ActivateLimit
<1>5. CASE \E l \in Managed : DeactivateLimit(l)
  BY <1>5 DEF DeactivateLimit
<1>6. CASE Tick
  BY <1>6 DEF Tick
<1>7. CASE UNCHANGED vars
  BY <1>7 DEF vars
<1> QED BY <1>1, <1>2, <1>3, <1>4, <1>5, <1>6, <1>7 DEF Next

\* A stored row stays stored: no step of the service takes a row out of
\* transaction_validations.
LEMMA RowsStay ==
  ASSUME TypeOK, [Next]_vars, NEW r \in Requests, record[r] # None
  PROVE  record'[r] # None
<1> USE ValidationAssumption
<1>1. ASSUME NEW h \in Attempts, Commit(h)
      PROVE  record'[r] # None
  <2>1. [id |-> h, decision |-> decision[h], charged |-> pending[h]] \in Records
    BY DEF Records, TypeOK
  <2> QED BY <1>1, <2>1 DEF Commit, TypeOK
<1>2. ASSUME NEW h \in Attempts, PersistRefusal(h)
      PROVE  record'[r] # None
  <2>1. [id |-> h, decision |-> decision[h], charged |-> {}] \in Records
    BY DEF Records, TypeOK
  <2> QED BY <1>2, <2>1 DEF PersistRefusal, TypeOK
<1>3. ASSUME record' = record
      PROVE  record'[r] # None
  BY <1>3
<1> QED BY <1>1, <1>2, <1>3 DEF Next, vars, Step, CheckDuplicate, EvaluateRules, ListLimits,
     CheckWithoutCounter, UpsertAndIncrement, RollbackRefused, LimitsPassed, InsertWithTx,
     HandleConcurrentDuplicate, AuditWithTx, AuditRefusal, Fail, Crash, UpdateLimit,
     ActivateLimit, DeactivateLimit, Tick, database

\* A step of one attempt leaves the local state, the locks and the answer of the
\* others alone.
LEMMA OthersAlone ==
  ASSUME TypeOK, NEW h \in Attempts, Step(h) \/ Fail(h) \/ Crash(h),
         NEW g \in Attempts, g # h
  PROVE  /\ pc'[g] = pc[g]
         /\ decision'[g] = decision[g]
         /\ maxRead'[g] = maxRead[g]
         /\ at'[g] = at[g]
         /\ pending'[g] = pending[g]
         /\ locked'[g] = locked[g]
         /\ answer'[g] = answer[g]
         /\ audit'[g] = audit[g]
<1> USE DEF TypeOK, database, limits, locals
<1>1. CASE CheckDuplicate(h)
  BY <1>1 DEF CheckDuplicate, Return
<1>2. CASE EvaluateRules(h)
  BY <1>2 DEF EvaluateRules
<1>3. CASE ListLimits(h)
  BY <1>3 DEF ListLimits
<1>4. CASE CheckWithoutCounter(h)
  BY <1>4 DEF CheckWithoutCounter
<1>5. CASE UpsertAndIncrement(h)
  BY <1>5 DEF UpsertAndIncrement
<1>6. CASE RollbackRefused(h)
  BY <1>6 DEF RollbackRefused, EndTx, DropLocals
<1>7. CASE LimitsPassed(h)
  BY <1>7 DEF LimitsPassed, DropLocals
<1>8. CASE InsertWithTx(h)
  BY <1>8 DEF InsertWithTx
<1>9. CASE HandleConcurrentDuplicate(h)
  BY <1>9 DEF HandleConcurrentDuplicate, Return, EndTx
<1>10. CASE AuditWithTx(h)
  BY <1>10 DEF AuditWithTx
<1>11. CASE Commit(h)
  BY <1>11 DEF Commit, Return, EndTx
<1>12. CASE PersistRefusal(h)
  BY <1>12 DEF PersistRefusal
<1>13. CASE AuditRefusal(h)
  BY <1>13 DEF AuditRefusal, Return
<1>14. CASE Fail(h)
  BY <1>14 DEF Fail, Return, EndTx, DropLocals
<1>15. CASE Crash(h)
  BY <1>15 DEF Crash, EndTx, DropLocals
<1> QED BY <1>1, <1>2, <1>3, <1>4, <1>5, <1>6, <1>7, <1>8, <1>9, <1>10, <1>11,
           <1>12, <1>13, <1>14, <1>15 DEF Step

\* The steps of administrators and of the clock.
Environment ==
  \/ \E l \in Managed : UpdateLimit(l) \/ ActivateLimit(l) \/ DeactivateLimit(l)
  \/ Tick
  \/ UNCHANGED vars

\* The administrators and the clock leave the attempts and the rows alone.
LEMMA EnvironmentAlone ==
  ASSUME Environment
  PROVE  UNCHANGED <<counter, record, audit, pc, decision, todo, maxRead, at, exceeded,
                     pending, locked, answer>>
  BY DEF Environment, UpdateLimit, ActivateLimit, DeactivateLimit, Tick, vars, database, locals

\* A step is a step of one attempt or of the environment.
LEMMA WhoSteps ==
  ASSUME [Next]_vars
  PROVE  Environment \/ \E h \in Attempts : Step(h) \/ Fail(h) \/ Crash(h)
  BY DEF Next, Environment

\* Only InsertWithTx leads to handleConcurrentDuplicate, when the row is there.
LEMMA RefetchStep ==
  ASSUME TypeOK, RefetchFinds, [Next]_vars
  PROVE  RefetchFinds'
<1> SUFFICES ASSUME NEW g \in Attempts, pc'[g] = "refetch"
             PROVE  record'[Req[g]] # None
  BY DEF RefetchFinds
<1>1. Req[g] \in Requests
  BY ValidationAssumption
<1>2. CASE pc[g] = "refetch"
  BY <1>1, <1>2, RowsStay DEF RefetchFinds
<1>3. CASE pc[g] # "refetch"
  <2>1. Step(g) \/ Fail(g) \/ Crash(g)
    BY <1>3, WhoSteps, OthersAlone, EnvironmentAlone
  <2>2. InsertWithTx(g) /\ UniqueViolation(g)
    BY <1>3, <2>1 DEF Step, TypeOK, CheckDuplicate, EvaluateRules, ListLimits,
       CheckWithoutCounter, UpsertAndIncrement, RollbackRefused, LimitsPassed, InsertWithTx,
       HandleConcurrentDuplicate, AuditWithTx, Commit, PersistRefusal, AuditRefusal, Fail,
       Crash, Return
  <2> QED BY <1>1, <2>2, RowsStay DEF UniqueViolation
<1> QED BY <1>2, <1>3

\* TypeOK is an invariant of the service.  It is inductive only together with
\* RefetchFinds: handleConcurrentDuplicate copies a stored row.
THEOREM TypeCorrect == Spec => [](TypeOK /\ RefetchFinds)
<1>1. Init => TypeOK /\ RefetchFinds
  BY InitTypeOK DEF Init, RefetchFinds
<1>2. TypeOK /\ RefetchFinds /\ [Next]_vars => (TypeOK /\ RefetchFinds)'
  BY StepTypeOK, OtherTypeOK, RefetchStep
<1> QED BY <1>1, <1>2, PTL DEF Spec

-----------------------------------------------------------------------------
(* Row locks.                                                              *)

\* What a step of an attempt does to its locks: nothing, and then it stays in the
\* transaction or was not in one; or it ends the transaction; or it is an upsert.
LEMMA LockMoves ==
  ASSUME TypeOK, NEW h \in Attempts, Step(h) \/ Fail(h) \/ Crash(h)
  PROVE  \/ /\ UNCHANGED <<locked, pending>>
            /\ pc[h] \in InTx \ {"list"} => pc'[h] \in InTx \ {"list"}
         \/ EndTx(h)
         \/ UpsertAndIncrement(h)
  BY DEF Step, TypeOK, InTx, CheckDuplicate, EvaluateRules, ListLimits,
     CheckWithoutCounter, RollbackRefused, LimitsPassed, InsertWithTx,
     HandleConcurrentDuplicate, AuditWithTx, Commit, PersistRefusal, AuditRefusal, Fail, Crash

\* The upsert locks one more counter, which nobody else has locked, and increments
\* it only when the increment fits.
LEMMA UpsertMoves ==
  ASSUME TypeOK, NEW h \in Attempts, UpsertAndIncrement(h)
  PROVE  \E l \in Limits :
           /\ locked' = [locked EXCEPT ![h] = @ \cup {KeyOf(h, l)}]
           /\ CounterFree(h, KeyOf(h, l))
           /\ ~AmountTooLarge(h, l)
           /\ \/ pending' = [pending EXCEPT ![h] = @ \cup {KeyOf(h, l)}] /\ UpsertFits(h, l)
              \/ pending' = pending
  BY DEF UpsertAndIncrement, TypeOK

\* Row locks keep open transactions apart.
LEMMA IsolationStep ==
  ASSUME TypeOK, IncrementsIsolated, [Next]_vars
  PROVE  IncrementsIsolated'
<1>1. CASE Environment
  BY <1>1, EnvironmentAlone DEF IncrementsIsolated
<1>2. ASSUME NEW h \in Attempts, Step(h) \/ Fail(h) \/ Crash(h)
      PROVE  IncrementsIsolated'
  <2>1. \A g \in Attempts \ {h} : pc'[g] = pc[g] /\ locked'[g] = locked[g] /\ pending'[g] = pending[g]
    BY <1>2, OthersAlone
  <2>2. CASE /\ UNCHANGED <<locked, pending>>
             /\ pc[h] \in InTx \ {"list"} => pc'[h] \in InTx \ {"list"}
    BY <2>1, <2>2 DEF IncrementsIsolated
  <2>3. CASE EndTx(h)
    <3>1. locked'[h] = {} /\ pending'[h] = {}
      BY <2>3 DEF EndTx, TypeOK
    <3> QED BY <2>1, <3>1 DEF IncrementsIsolated
  <2>4. CASE UpsertAndIncrement(h)
    <3>1. PICK l \in Limits :
            /\ locked' = [locked EXCEPT ![h] = @ \cup {KeyOf(h, l)}]
            /\ CounterFree(h, KeyOf(h, l))
            /\ \/ pending' = [pending EXCEPT ![h] = @ \cup {KeyOf(h, l)}]
               \/ pending' = pending
      BY <2>4, UpsertMoves
    <3>2. locked'[h] = locked[h] \cup {KeyOf(h, l)}
      BY <3>1 DEF TypeOK
    <3>3. pending'[h] \subseteq pending[h] \cup {KeyOf(h, l)}
      BY <3>1 DEF TypeOK
    <3>4. pc'[h] = "limits"
      BY <2>4 DEF UpsertAndIncrement, TypeOK
    <3>5. \A g \in Attempts \ {h} : KeyOf(h, l) \notin locked[g]
      BY <3>1 DEF CounterFree
    <3>6. \A f, g \in Attempts : f # g => locked'[f] \cap locked'[g] = {}
      BY <2>1, <3>2, <3>5 DEF IncrementsIsolated
    <3>7. \A g \in Attempts : pending'[g] \subseteq locked'[g]
      BY <2>1, <3>2, <3>3 DEF IncrementsIsolated
    <3>8. \A g \in Attempts : pc'[g] \notin InTx \ {"list"} => locked'[g] = {}
      BY <2>1, <3>4 DEF IncrementsIsolated, InTx
    <3> QED BY <3>6, <3>7, <3>8 DEF IncrementsIsolated
  <2> QED BY <1>2, <2>2, <2>3, <2>4, LockMoves
<1> QED BY <1>1, <1>2, WhoSteps

\* IncrementsIsolated holds for any number of attempts, limits and counters.
THEOREM IsolationHolds == Spec => []IncrementsIsolated
<1>1. Init => IncrementsIsolated
  BY DEF Init, IncrementsIsolated
<1>2. TypeOK /\ IncrementsIsolated /\ [Next]_vars => IncrementsIsolated'
  BY IsolationStep
<1> QED BY <1>1, <1>2, TypeCorrect, PTL DEF Spec

-----------------------------------------------------------------------------
(* Usage and maxima.                                                       *)

\* Maxima, and the copies of them that attempts have read, are not above the
\* ceiling: a maximum that was lowered after it was read is still one the limit had.
MaximaWithinCeiling ==
  /\ \A l \in Limits : maxAmount[l] <= ceiling[l]
  /\ \A h \in Attempts, l \in Limits : maxRead[h][l] <= ceiling[l]

\* An increment of an open transaction fits its counter as it is committed now: the
\* counter cannot have moved since the upsert, because the row is locked.
PendingFits ==
  \A h \in Attempts : \A k \in pending[h] : counter[k] + Amount[Req[h]] <= ceiling[k[1]]

\* The inductive strengthening of UsageWithinCeiling.
CounterInv == MaximaWithinCeiling /\ PendingFits /\ UsageWithinCeiling

\* UpdateLimit sets one maximum and raises its ceiling when it has to.
LEMMA UpdateMoves ==
  ASSUME TypeOK, NEW n \in Managed, UpdateLimit(n), NEW l \in Limits
  PROVE  /\ ceiling'[l] >= ceiling[l]
         /\ maxAmount'[l] = maxAmount[l] \/ maxAmount'[l] <= ceiling'[l]
<1>1. n \in Limits /\ MaxAmounts[n] \subseteq Nat
  BY ValidationAssumption
<1>2. PICK m \in MaxAmounts[n] :
        /\ maxAmount' = [maxAmount EXCEPT ![n] = m]
        /\ ceiling' = [ceiling EXCEPT ![n] = IF m > @ THEN m ELSE @]
  BY DEF UpdateLimit
<1>3. m \in Nat /\ ceiling[l] \in Nat /\ ceiling[n] \in Nat
  BY <1>1 DEF TypeOK
<1>4. CASE l = n
  <2>1. maxAmount'[l] = m /\ ceiling'[l] = IF m > ceiling[l] THEN m ELSE ceiling[l]
    BY <1>1, <1>2, <1>4 DEF TypeOK
  <2> QED BY <1>3, <2>1
<1>5. CASE l # n
  <2>1. maxAmount'[l] = maxAmount[l] /\ ceiling'[l] = ceiling[l]
    BY <1>2, <1>5 DEF TypeOK
  <2> QED BY <1>3, <2>1
<1> QED BY <1>4, <1>5

\* Ceilings only rise.
LEMMA CeilingsRise ==
  ASSUME TypeOK, [Next]_vars, NEW l \in Limits
  PROVE  ceiling'[l] >= ceiling[l]
<1>1. CASE Environment
  <2>1. ASSUME NEW n \in Managed, UpdateLimit(n)
        PROVE  ceiling'[l] >= ceiling[l]
    BY <2>1, UpdateMoves
  <2>2. CASE UNCHANGED ceiling
    BY <2>2 DEF TypeOK
  <2> QED BY <1>1, <2>1, <2>2 DEF Environment, ActivateLimit, DeactivateLimit, Tick, vars, limits
<1>2. CASE \E h \in Attempts : Step(h) \/ Fail(h) \/ Crash(h)
  <2>1. ceiling' = ceiling
    BY <1>2 DEF Step, limits, CheckDuplicate, EvaluateRules, ListLimits, CheckWithoutCounter,
       UpsertAndIncrement, RollbackRefused, LimitsPassed, InsertWithTx,
       HandleConcurrentDuplicate, AuditWithTx, Commit, PersistRefusal, AuditRefusal, Fail, Crash
  <2> QED BY <2>1 DEF TypeOK
<1> QED BY <1>1, <1>2, WhoSteps

\* Only Commit changes committed counters.
LEMMA CounterMoves ==
  ASSUME [Next]_vars
  PROVE  counter' = counter \/ \E h \in Attempts : Commit(h)
  BY DEF Next, vars, Step, CheckDuplicate, EvaluateRules, ListLimits,
     CheckWithoutCounter, UpsertAndIncrement, RollbackRefused, LimitsPassed, InsertWithTx,
     HandleConcurrentDuplicate, AuditWithTx, PersistRefusal, AuditRefusal, Fail, Crash,
     UpdateLimit, ActivateLimit, DeactivateLimit, Tick, database

\* What administrators do and what attempts read stays within the ceiling.
LEMMA MaximaStep ==
  ASSUME TypeOK, TypeOK', MaximaWithinCeiling, [Next]_vars
  PROVE  MaximaWithinCeiling'
<1> USE ValidationAssumption
<1>1. \A l \in Limits : maxAmount'[l] <= ceiling'[l]
  <2>1. ASSUME NEW n \in Managed, UpdateLimit(n), NEW l \in Limits
        PROVE  maxAmount'[l] <= ceiling'[l]
    BY <2>1, UpdateMoves DEF MaximaWithinCeiling, TypeOK
  <2>2. CASE UNCHANGED maxAmount
    BY <2>2, CeilingsRise DEF MaximaWithinCeiling, TypeOK
  <2> QED BY <2>1, <2>2 DEF Next, vars, limits, Step, CheckDuplicate, EvaluateRules, ListLimits,
       CheckWithoutCounter, UpsertAndIncrement, RollbackRefused, LimitsPassed, InsertWithTx,
       HandleConcurrentDuplicate, AuditWithTx, Commit, PersistRefusal, AuditRefusal, Fail,
       Crash, ActivateLimit, DeactivateLimit, Tick
<1>2. ASSUME NEW g \in Attempts, NEW l \in Limits
      PROVE  maxRead'[g][l] <= ceiling'[l]
  <2>1. CASE maxRead'[g] = maxRead[g]
    BY <2>1, CeilingsRise DEF MaximaWithinCeiling, TypeOK
  <2>2. CASE maxRead'[g] # maxRead[g]
    <3>1. Step(g) \/ Fail(g) \/ Crash(g)
      BY <2>2, WhoSteps, OthersAlone, EnvironmentAlone
    <3>2. CASE ListLimits(g)
      <4>1. maxRead'[g][l] = IF l \in active \cap Matches[Req[g]] THEN maxAmount[l] ELSE 0
        BY <3>2 DEF ListLimits, TypeOK
      <4>2. ceiling' = ceiling
        BY <3>2 DEF ListLimits, limits
      <4> QED BY <4>1, <4>2 DEF MaximaWithinCeiling, TypeOK
    <3>3. CASE DropLocals(g)
      <4>1. maxRead'[g][l] = 0
        BY <3>3 DEF DropLocals, TypeOK
      <4> QED BY <4>1 DEF TypeOK
    <3> QED BY <2>2, <3>1, <3>2, <3>3 DEF Step, locals, CheckDuplicate, EvaluateRules,
         CheckWithoutCounter, UpsertAndIncrement, RollbackRefused, LimitsPassed, InsertWithTx,
         HandleConcurrentDuplicate, AuditWithTx, Commit, PersistRefusal, AuditRefusal, Fail, Crash
  <2> QED BY <2>1, <2>2
<1> QED BY <1>1, <1>2 DEF MaximaWithinCeiling

\* Increments of open transactions go on fitting.
LEMMA PendingStep ==
  ASSUME TypeOK, TypeOK', IncrementsIsolated, MaximaWithinCeiling, PendingFits, [Next]_vars
  PROVE  PendingFits'
<1> USE ValidationAssumption
<1> SUFFICES ASSUME NEW g \in Attempts, NEW k \in pending'[g]
             PROVE  counter'[k] + Amount[Req[g]] <= ceiling'[k[1]]
  BY DEF PendingFits
<1>1. k \in Keys /\ k[1] \in Limits /\ Amount[Req[g]] \in Nat /\ counter[k] \in Nat
  BY DEF TypeOK, Keys
<1>2. ceiling'[k[1]] >= ceiling[k[1]] /\ ceiling[k[1]] \in Nat /\ ceiling'[k[1]] \in Nat
  BY <1>1, CeilingsRise DEF TypeOK
<1>3. CASE k \in pending[g]
  <2>1. counter[k] + Amount[Req[g]] <= ceiling[k[1]]
    BY <1>3 DEF PendingFits
  <2>2. counter'[k] = counter[k]
    <3>1. CASE counter' = counter
      BY <3>1
    <3>2. ASSUME NEW h \in Attempts, Commit(h)
          PROVE  counter'[k] = counter[k]
      <4>1. pending'[h] = {}
        BY <3>2 DEF Commit, EndTx, TypeOK
      <4>2. h # g
        BY <4>1
      <4>3. k \notin pending[h]
        BY <1>3, <4>2 DEF IncrementsIsolated
      <4> QED BY <1>1, <3>2, <4>3 DEF Commit, Charged
    <3> QED BY <3>1, <3>2, CounterMoves
  <2> QED BY <1>1, <1>2, <2>1, <2>2
<1>4. CASE k \notin pending[g]
  <2>1. UpsertAndIncrement(g)
    <3>1. Step(g) \/ Fail(g) \/ Crash(g)
      BY <1>4, WhoSteps, OthersAlone, EnvironmentAlone
    <3> QED BY <1>4, <3>1, LockMoves DEF EndTx, TypeOK
  <2>2. PICK l \in Limits : k = KeyOf(g, l) /\ ~AmountTooLarge(g, l) /\ UpsertFits(g, l)
    BY <1>4, <2>1, UpsertMoves DEF TypeOK
  <2>3. k[1] = l
    BY <2>2 DEF KeyOf
  <2>4. counter[k] + Amount[Req[g]] <= maxRead[g][l]
    BY <1>1, <2>2 DEF AmountTooLarge, UpsertFits, TypeOK
  <2>5. maxRead[g][l] <= ceiling[l] /\ maxRead[g][l] \in Nat
    BY DEF MaximaWithinCeiling, TypeOK
  <2>6. counter' = counter
    BY <2>1 DEF UpsertAndIncrement, database
  <2> QED BY <1>1, <1>2, <2>3, <2>4, <2>5, <2>6
<1> QED BY <1>3, <1>4

\* A commit installs only increments that fit.
LEMMA UsageStep ==
  ASSUME TypeOK, TypeOK', PendingFits, UsageWithinCeiling, [Next]_vars
  PROVE  UsageWithinCeiling'
<1> SUFFICES ASSUME NEW k \in Keys
             PROVE  counter'[k] <= ceiling'[k[1]]
  BY DEF UsageWithinCeiling
<1>1. k[1] \in Limits
  BY DEF Keys
<1>2. ceiling'[k[1]] >= ceiling[k[1]] /\ ceiling[k[1]] \in Nat /\ ceiling'[k[1]] \in Nat
  BY <1>1, CeilingsRise DEF TypeOK
<1>3. counter[k] \in Nat /\ counter[k] <= ceiling[k[1]]
  BY DEF TypeOK, UsageWithinCeiling
<1>4. CASE counter' = counter
  BY <1>2, <1>3, <1>4
<1>5. ASSUME NEW h \in Attempts, Commit(h)
      PROVE  counter'[k] <= ceiling'[k[1]]
  <2>1. Amount[Req[h]] \in Nat
    BY ValidationAssumption
  <2>2. counter'[k] = IF k \in pending[h] THEN counter[k] + Amount[Req[h]] ELSE counter[k]
    BY <1>5 DEF Commit, Charged
  <2>3. k \in pending[h] => counter[k] + Amount[Req[h]] <= ceiling[k[1]]
    BY DEF PendingFits
  <2> QED BY <1>2, <1>3, <2>1, <2>2, <2>3
<1> QED BY <1>4, <1>5, CounterMoves

\* Counters, increments and maxima stay within the ceilings.
LEMMA CounterHolds == Spec => []CounterInv
<1>1. Init => CounterInv
  <2> SUFFICES ASSUME Init PROVE CounterInv
    OBVIOUS
  <2>1. \A l \in Limits : maxAmount[l] \in Nat /\ ceiling[l] = maxAmount[l]
    BY InitTypeOK DEF Init, TypeOK
  <2>2. MaximaWithinCeiling /\ PendingFits
    BY <2>1 DEF Init, MaximaWithinCeiling, PendingFits
  <2>3. UsageWithinCeiling
    BY <2>1 DEF Init, UsageWithinCeiling, Keys
  <2> QED BY <2>2, <2>3 DEF CounterInv
<1>2. TypeOK /\ TypeOK' /\ IncrementsIsolated /\ CounterInv /\ [Next]_vars => CounterInv'
  BY MaximaStep, PendingStep, UsageStep DEF CounterInv
<1> QED BY <1>1, <1>2, TypeCorrect, IsolationHolds, PTL DEF Spec

\* No interleaving of attempts, failures and administrators takes a usage counter
\* above the highest maximum its limit has had.
THEOREM UsageHolds == Spec => []UsageWithinCeiling
<1>1. CounterInv => UsageWithinCeiling
  BY DEF CounterInv
<1> QED BY <1>1, CounterHolds, PTL

-----------------------------------------------------------------------------
(* The stored validations and audit events.                                *)

\* An open transaction that has inserted its row is the only one with that
\* request_id, and no row with it is committed.
RequestHeld ==
  \A h \in Attempts :
    pc[h] \in {"auditTx", "commit"} => record[Req[h]] = None /\ RequestFree(h)

\* Only ALLOW is persisted inside the transaction, only refusals outside.
Decided ==
  \A h \in Attempts :
    /\ pc[h] \in {"insertTx", "auditTx", "commit"} => decision[h] = "ALLOW"
    /\ pc[h] \in {"insert", "audit"} => decision[h] \in {"DENY", "REVIEW"}

\* A stored row was written by an attempt with that request_id, which is past
\* the statement that writes it.
OwnRow ==
  \A r \in Requests :
    record[r] # None =>
      /\ record[r].id \in Attempts
      /\ Req[record[r].id] = r
      /\ pc[record[r].id] \in Over \cup {"audit"}

\* The audit event is the last thing an attempt writes.
NoEventYet == \A h \in Attempts : pc[h] \notin Over => audit[h] = None

\* Attempts keep to the decision that fits the place where they are.
LEMMA DecidedStep ==
  ASSUME TypeOK, Decided, [Next]_vars
  PROVE  Decided'
<1> SUFFICES ASSUME NEW g \in Attempts
             PROVE  /\ pc'[g] \in {"insertTx", "auditTx", "commit"} => decision'[g] = "ALLOW"
                    /\ pc'[g] \in {"insert", "audit"} => decision'[g] \in {"DENY", "REVIEW"}
  BY DEF Decided
<1>1. CASE pc'[g] = pc[g] /\ decision'[g] = decision[g]
  BY <1>1 DEF Decided
<1>2. CASE Step(g) \/ Fail(g) \/ Crash(g)
  <2> USE DEF TypeOK, locals
  <2>1. CASE CheckDuplicate(g)
    BY <2>1 DEF CheckDuplicate, Return
  <2>2. CASE EvaluateRules(g)
    BY <2>2, ValidationAssumption DEF EvaluateRules
  <2>3. CASE ListLimits(g)
    BY <2>3 DEF ListLimits
  <2>4. CASE CheckWithoutCounter(g) \/ UpsertAndIncrement(g)
    BY <2>4 DEF CheckWithoutCounter, UpsertAndIncrement
  <2>5. CASE RollbackRefused(g)
    BY <2>5 DEF RollbackRefused
  <2>6. CASE LimitsPassed(g)
    BY <2>6 DEF LimitsPassed
  <2>7. CASE InsertWithTx(g)
    BY <2>7 DEF InsertWithTx, Decided
  <2>8. CASE HandleConcurrentDuplicate(g)
    BY <2>8 DEF HandleConcurrentDuplicate, Return
  <2>9. CASE AuditWithTx(g)
    BY <2>9 DEF AuditWithTx, Decided
  <2>10. CASE Commit(g)
    BY <2>10 DEF Commit, Return
  <2>11. CASE PersistRefusal(g)
    BY <2>11 DEF PersistRefusal, Decided
  <2>12. CASE AuditRefusal(g)
    BY <2>12 DEF AuditRefusal, Return
  <2>13. CASE Fail(g) \/ Crash(g)
    BY <2>13 DEF Fail, Crash, Return
  <2> QED BY <1>2, <2>1, <2>2, <2>3, <2>4, <2>5, <2>6, <2>7, <2>8, <2>9, <2>10, <2>11,
             <2>12, <2>13 DEF Step
<1> QED BY <1>1, <1>2, WhoSteps, OthersAlone, EnvironmentAlone

\* The row an attempt stores: by Commit with an ALLOW, by PersistRefusal with a
\* refusal, and only where no row was.
LEMMA RecordMoves ==
  ASSUME TypeOK, RequestHeld, [Next]_vars
  PROVE  \/ record' = record
         \/ \E h \in Attempts :
              /\ record[Req[h]] = None
              /\ \/ /\ Commit(h)
                    /\ record' = [record EXCEPT ![Req[h]] =
                                    [id |-> h, decision |-> decision[h], charged |-> pending[h]]]
                 \/ /\ PersistRefusal(h)
                    /\ record' = [record EXCEPT ![Req[h]] =
                                    [id |-> h, decision |-> decision[h], charged |-> {}]]
<1>1. ASSUME NEW h \in Attempts, Commit(h)
      PROVE  /\ record[Req[h]] = None
             /\ record' = [record EXCEPT ![Req[h]] =
                             [id |-> h, decision |-> decision[h], charged |-> pending[h]]]
  BY <1>1 DEF Commit, RequestHeld
<1>2. ASSUME NEW h \in Attempts, PersistRefusal(h), record' # record
      PROVE  /\ record[Req[h]] = None
             /\ record' = [record EXCEPT ![Req[h]] =
                             [id |-> h, decision |-> decision[h], charged |-> {}]]
  BY <1>2 DEF PersistRefusal, UniqueViolation
<1> QED BY <1>1, <1>2 DEF Next, vars, Step, CheckDuplicate, EvaluateRules, ListLimits,
     CheckWithoutCounter, UpsertAndIncrement, RollbackRefused, LimitsPassed, InsertWithTx,
     HandleConcurrentDuplicate, AuditWithTx, AuditRefusal, Fail, Crash, UpdateLimit,
     ActivateLimit, DeactivateLimit, Tick, database

\* A stored row is never changed.
LEMMA RowsImmutable ==
  ASSUME TypeOK, RequestHeld, [Next]_vars, NEW r \in Requests, record[r] # None
  PROVE  record'[r] = record[r]
  BY RecordMoves, ValidationAssumption DEF TypeOK

\* A row that appears carries the identity and the decision of its attempt.
LEMMA RowAppears ==
  ASSUME TypeOK, RequestHeld, [Next]_vars, NEW r \in Requests, record'[r] # record[r]
  PROVE  \E h \in Attempts :
           /\ Req[h] = r
           /\ record'[r].id = h
           /\ record'[r].decision = decision[h]
           /\ Commit(h) \/ PersistRefusal(h)
<1> USE ValidationAssumption
<1>1. record' # record
  OBVIOUS
<1>2. PICK h \in Attempts :
        \/ /\ Commit(h)
           /\ record' = [record EXCEPT ![Req[h]] =
                           [id |-> h, decision |-> decision[h], charged |-> pending[h]]]
        \/ /\ PersistRefusal(h)
           /\ record' = [record EXCEPT ![Req[h]] =
                           [id |-> h, decision |-> decision[h], charged |-> {}]]
  BY <1>1, RecordMoves
<1>3. Req[h] = r
  BY <1>2 DEF TypeOK
<1>4. record'[r].id = h /\ record'[r].decision = decision[h]
  BY <1>2, <1>3 DEF TypeOK
<1> QED BY <1>2, <1>3, <1>4

\* The lock of the unique index keeps transactions with the same request_id apart.
LEMMA RequestHeldStep ==
  ASSUME TypeOK, RequestHeld, [Next]_vars
  PROVE  RequestHeld'
<1> USE ValidationAssumption
<1> DEFINE Holds(h) == pc[h] \in {"auditTx", "commit"}
<1>1. CASE Environment
  BY <1>1, EnvironmentAlone DEF RequestHeld, RequestFree
<1>2. ASSUME NEW h \in Attempts, Step(h) \/ Fail(h) \/ Crash(h)
      PROVE  RequestHeld'
  <2>1. \A g \in Attempts \ {h} : pc'[g] = pc[g]
    BY <1>2, OthersAlone
  <2>2. CASE InsertWithTx(h)
    <3>1. record' = record /\ RequestFree(h) /\ (pc'[h] = "auditTx" => record[Req[h]] = None)
      BY <2>2 DEF InsertWithTx, database, UniqueViolation, TypeOK
    <3> QED BY <2>1, <2>2, <3>1 DEF RequestHeld, RequestFree, InsertWithTx, TypeOK
  <2>3. CASE ~InsertWithTx(h)
    <3>1. Holds(h)' => Holds(h)
      BY <1>2, <2>3 DEF Step, TypeOK, CheckDuplicate, EvaluateRules, ListLimits,
         CheckWithoutCounter, UpsertAndIncrement, RollbackRefused, LimitsPassed,
         HandleConcurrentDuplicate, AuditWithTx, Commit, PersistRefusal, AuditRefusal, Fail,
         Crash, Return
    <3>2. ASSUME NEW g \in Attempts, Holds(g)'
          PROVE  record'[Req[g]] = None
      <4>1. Holds(g) /\ record[Req[g]] = None /\ RequestFree(g)
        BY <2>1, <3>1, <3>2 DEF RequestHeld
      <4>2. ASSUME NEW f \in Attempts, Commit(f)
            PROVE  Req[f] # Req[g]
        <5>1. Holds(f) /\ ~Holds(f)'
          BY <4>2 DEF Commit, Return, TypeOK
        <5> QED BY <3>2, <4>1, <5>1 DEF RequestFree
      <4>3. ASSUME NEW f \in Attempts, PersistRefusal(f)
            PROVE  Req[f] # Req[g]
        <5>1. ~Holds(f) /\ RequestFree(f)
          BY <4>3 DEF PersistRefusal
        <5> QED BY <4>1, <5>1 DEF RequestFree
      <4> QED BY <4>1, <4>2, <4>3, RecordMoves DEF TypeOK
    <3>3. \A g \in Attempts : Holds(g)' => RequestFree(g)'
      BY <2>1, <3>1 DEF RequestHeld, RequestFree
    <3> QED BY <3>2, <3>3 DEF RequestHeld
  <2> QED BY <2>2, <2>3
<1> QED BY <1>1, <1>2, WhoSteps

\* Who has finished stays finished, and who has written its row stays past it.
LEMMA OverStays ==
  ASSUME TypeOK, [Next]_vars, NEW g \in Attempts
  PROVE  /\ pc[g] \in Over => pc'[g] \in Over /\ answer'[g] = answer[g]
         /\ pc[g] \in Over \cup {"audit"} => pc'[g] \in Over \cup {"audit"}
<1>1. CASE pc'[g] = pc[g] /\ answer'[g] = answer[g]
  BY <1>1
<1>2. CASE Step(g) \/ Fail(g) \/ Crash(g)
  BY <1>2 DEF Step, TypeOK, Over, InTx, CheckDuplicate, EvaluateRules, ListLimits,
     CheckWithoutCounter, UpsertAndIncrement, RollbackRefused, LimitsPassed, InsertWithTx,
     HandleConcurrentDuplicate, AuditWithTx, Commit, PersistRefusal, AuditRefusal, Fail,
     Crash, Return
<1> QED BY <1>1, <1>2, WhoSteps, OthersAlone, EnvironmentAlone

\* The row of a request names an attempt that carries it.
LEMMA OwnRowStep ==
  ASSUME TypeOK, RequestHeld, OwnRow, [Next]_vars
  PROVE  OwnRow'
<1> USE ValidationAssumption
<1> SUFFICES ASSUME NEW r \in Requests, record'[r] # None
             PROVE  /\ record'[r].id \in Attempts
                    /\ Req[record'[r].id] = r
                    /\ pc'[record'[r].id] \in Over \cup {"audit"}
  BY DEF OwnRow
<1>1. CASE record[r] # None
  <2>1. record'[r] = record[r]
    BY <1>1, RowsImmutable
  <2>2. record[r].id \in Attempts /\ Req[record[r].id] = r
        /\ pc[record[r].id] \in Over \cup {"audit"}
    BY <1>1 DEF OwnRow
  <2> QED BY <2>1, <2>2, OverStays
<1>2. CASE record[r] = None
  <2>1. PICK h \in Attempts :
          /\ Req[h] = r /\ record'[r].id = h
          /\ Commit(h) \/ PersistRefusal(h)
    BY <1>2, RowAppears
  <2>2. pc'[h] \in Over \cup {"audit"}
    BY <2>1 DEF Commit, PersistRefusal, Return, TypeOK, Over
  <2> QED BY <2>1, <2>2
<1> QED BY <1>1, <1>2

\* What a step does to the audit events.
LEMMA AuditMoves ==
  ASSUME TypeOK, [Next]_vars, NEW g \in Attempts
  PROVE  \/ audit'[g] = audit[g]
         \/ /\ Commit(g) \/ AuditRefusal(g)
            /\ pc[g] \notin Over /\ pc'[g] \in Over
            /\ audit'[g] = decision[g]
<1>1. CASE Step(g) \/ Fail(g) \/ Crash(g)
  BY <1>1 DEF Step, TypeOK, Over, database, CheckDuplicate, EvaluateRules, ListLimits,
     CheckWithoutCounter, UpsertAndIncrement, RollbackRefused, LimitsPassed, InsertWithTx,
     HandleConcurrentDuplicate, AuditWithTx, Commit, PersistRefusal, AuditRefusal, Fail,
     Crash, Return
<1> QED BY <1>1, WhoSteps, OthersAlone, EnvironmentAlone

\* No attempt has an audit event before its last statement.
LEMMA NoEventStep ==
  ASSUME TypeOK, NoEventYet, [Next]_vars
  PROVE  NoEventYet'
  BY AuditMoves, OverStays DEF NoEventYet

\* An ALLOW row and its event appear together.
LEMMA AtomicStep ==
  ASSUME TypeOK, RequestHeld, Decided, OwnRow, NoEventYet, AllowTrailAtomic, [Next]_vars
  PROVE  AllowTrailAtomic'
<1> USE ValidationAssumption
<1> SUFFICES ASSUME NEW g \in Attempts
             PROVE  audit'[g] = "ALLOW" <=>
                      /\ record'[Req[g]] # None
                      /\ record'[Req[g]].id = g
                      /\ record'[Req[g]].decision = "ALLOW"
  BY DEF AllowTrailAtomic
<1>0. Req[g] \in Requests
  OBVIOUS
<1>1. CASE Commit(g)
  <2>1. decision[g] = "ALLOW"
    BY <1>1 DEF Commit, Decided
  <2>2. audit'[g] = "ALLOW"
    BY <1>1, <2>1 DEF Commit, TypeOK
  <2>3. record'[Req[g]] = [id |-> g, decision |-> "ALLOW", charged |-> pending[g]]
    BY <1>0, <1>1, <2>1 DEF Commit, TypeOK
  <2>4. [id |-> g, decision |-> "ALLOW", charged |-> pending[g]] \in Records
    BY DEF Records, Decisions, TypeOK
  <2> QED BY <2>2, <2>3, <2>4
<1>2. CASE ~Commit(g)
  <2>1. audit'[g] = "ALLOW" <=> audit[g] = "ALLOW"
    <3>1. CASE audit'[g] = audit[g]
      BY <3>1
    <3>2. CASE AuditRefusal(g) /\ pc[g] \notin Over /\ audit'[g] = decision[g]
      <4>1. decision[g] \in {"DENY", "REVIEW"}
        BY <3>2 DEF AuditRefusal, Decided
      <4>2. audit[g] = None
        BY <3>2 DEF NoEventYet
      <4> QED BY <3>2, <4>1, <4>2 DEF Decisions
    <3> QED BY <1>2, <3>1, <3>2, AuditMoves
  <2>2. CASE record'[Req[g]] = record[Req[g]]
    BY <2>1, <2>2 DEF AllowTrailAtomic
  <2>3. CASE record'[Req[g]] # record[Req[g]]
    <3>1. record[Req[g]] = None
      BY <1>0, <2>3, RowsImmutable
    <3>2. audit[g] # "ALLOW"
      BY <3>1 DEF AllowTrailAtomic
    <3>3. PICK h \in Attempts :
            /\ record'[Req[g]].id = h /\ record'[Req[g]].decision = decision[h]
            /\ Commit(h) \/ PersistRefusal(h)
      BY <1>0, <2>3, RowAppears
    <3>4. CASE Commit(h)
      BY <1>2, <2>1, <3>2, <3>3, <3>4
    <3>5. CASE PersistRefusal(h)
      <4>1. decision[h] # "ALLOW"
        BY <3>5 DEF PersistRefusal, Decided
      <4> QED BY <2>1, <3>2, <3>3, <4>1
    <3> QED BY <3>3, <3>4, <3>5
  <2> QED BY <2>2, <2>3
<1> QED BY <1>1, <1>2

\* What Validate can return: the copy of a stored row, its own ALLOW after the
\* commit, its own refusal, or an error.
LEMMA AnswerMoves ==
  ASSUME TypeOK, RefetchFinds, [Next]_vars, NEW g \in Attempts
  PROVE  \/ answer'[g] = answer[g]
         \/ record[Req[g]] # None /\ answer'[g] = Cached(record[Req[g]])
         \/ Commit(g) /\ answer'[g] = Fresh(g, decision[g])
         \/ AuditRefusal(g) /\ answer'[g] = Fresh(g, decision[g])
         \/ answer'[g] = None
<1>1. CASE Step(g) \/ Fail(g) \/ Crash(g)
  BY <1>1 DEF Step, TypeOK, RefetchFinds, CheckDuplicate, EvaluateRules, ListLimits,
     CheckWithoutCounter, UpsertAndIncrement, RollbackRefused, LimitsPassed, InsertWithTx,
     HandleConcurrentDuplicate, AuditWithTx, Commit, PersistRefusal, AuditRefusal, Fail,
     Crash, Return
<1> QED BY <1>1, WhoSteps, OthersAlone, EnvironmentAlone

\* An answer flagged as a duplicate repeats the stored row.
LEMMA DuplicateStep ==
  ASSUME TypeOK, RefetchFinds, RequestHeld, DuplicateRepeatsRecord, [Next]_vars
  PROVE  DuplicateRepeatsRecord'
<1> USE ValidationAssumption
<1> SUFFICES ASSUME NEW g \in Attempts, answer'[g] # None, answer'[g].dup
             PROVE  record'[Req[g]] # None /\ answer'[g] = Cached(record'[Req[g]])
  BY DEF DuplicateRepeatsRecord, Cached
<1>1. CASE answer'[g] = answer[g]
  BY <1>1, RowsImmutable DEF DuplicateRepeatsRecord
<1>2. CASE record[Req[g]] # None /\ answer'[g] = Cached(record[Req[g]])
  BY <1>2, RowsImmutable
<1>3. CASE answer'[g] = Fresh(g, decision[g])
  BY <1>3 DEF Fresh
<1> QED BY <1>1, <1>2, <1>3, AnswerMoves

\* An ALLOW that a client has seen is backed by a row and an event.
LEMMA BackedStep ==
  ASSUME TypeOK, RefetchFinds, RequestHeld, Decided, OwnRow, AllowTrailAtomic,
         AllowTrailAtomic', AllowIsBacked, [Next]_vars
  PROVE  AllowIsBacked'
<1> USE ValidationAssumption
<1> SUFFICES ASSUME NEW g \in Attempts, answer'[g] # None, answer'[g].decision = "ALLOW"
             PROVE  /\ record'[Req[g]] # None
                    /\ record'[Req[g]].id = answer'[g].id
                    /\ record'[Req[g]].decision = "ALLOW"
                    /\ audit'[answer'[g].id] = "ALLOW"
  BY DEF AllowIsBacked
<1>0. Req[g] \in Requests
  OBVIOUS
<1>1. CASE record[Req[g]] # None /\ record[Req[g]].id = answer'[g].id
           /\ record[Req[g]].decision = "ALLOW"
  <2>1. record'[Req[g]] = record[Req[g]]
    BY <1>0, <1>1, RowsImmutable
  <2>2. record[Req[g]].id \in Attempts /\ Req[record[Req[g]].id] = Req[g]
    BY <1>0, <1>1 DEF OwnRow
  <2>3. audit'[record[Req[g]].id] = "ALLOW"
    BY <1>1, <2>1, <2>2 DEF AllowTrailAtomic
  <2> QED BY <1>1, <2>1, <2>3
<1>2. CASE answer'[g] = answer[g]
  BY <1>1, <1>2 DEF AllowIsBacked
<1>3. CASE record[Req[g]] # None /\ answer'[g] = Cached(record[Req[g]])
  BY <1>1, <1>3 DEF Cached
<1>4. CASE Commit(g) /\ answer'[g] = Fresh(g, decision[g])
  <2>1. decision[g] = "ALLOW"
    BY <1>4 DEF Commit, Decided
  <2>2. audit'[g] = "ALLOW"
    BY <1>4, <2>1 DEF Commit, TypeOK
  <2>3. answer'[g].id = g
    BY <1>4 DEF Fresh
  <2> QED BY <2>2, <2>3 DEF AllowTrailAtomic
<1>5. CASE AuditRefusal(g) /\ answer'[g] = Fresh(g, decision[g])
  <2>1. decision[g] # "ALLOW"
    BY <1>5 DEF AuditRefusal, Decided
  <2> QED BY <1>5, <2>1 DEF Fresh
<1> QED BY <1>2, <1>3, <1>4, <1>5, AnswerMoves

\* The inductive invariant about rows, events and answers.
TrailInv ==
  /\ RequestHeld
  /\ Decided
  /\ OwnRow
  /\ NoEventYet
  /\ AllowTrailAtomic
  /\ AllowIsBacked
  /\ DuplicateRepeatsRecord

\* Rows, events and answers agree in every reachable state.
LEMMA TrailHolds == Spec => []TrailInv
<1>1. Init => TrailInv
  BY ValidationAssumption DEF Init, TrailInv, RequestHeld, Decided, OwnRow, NoEventYet,
     AllowTrailAtomic, AllowIsBacked, DuplicateRepeatsRecord, Decisions
<1>2. TypeOK /\ RefetchFinds /\ TrailInv /\ [Next]_vars => TrailInv'
  BY RequestHeldStep, DecidedStep, OwnRowStep, NoEventStep, AtomicStep, BackedStep,
     DuplicateStep DEF TrailInv
<1> QED BY <1>1, <1>2, TypeCorrect, PTL DEF Spec

\* An ALLOW validation, its counters' row and its audit event are all or nothing.
THEOREM AtomicHolds == Spec => []AllowTrailAtomic
<1>1. TrailInv => AllowTrailAtomic
  BY DEF TrailInv
<1> QED BY <1>1, TrailHolds, PTL

\* Whoever is told ALLOW is told what is stored.
THEOREM BackedHolds == Spec => []AllowIsBacked
<1>1. TrailInv => AllowIsBacked
  BY DEF TrailInv
<1> QED BY <1>1, TrailHolds, PTL

\* Whoever is told it is a duplicate is told what is stored.
THEOREM DuplicateHolds == Spec => []DuplicateRepeatsRecord
<1>1. TrailInv => DuplicateRepeatsRecord
  BY DEF TrailInv
<1> QED BY <1>1, TrailHolds, PTL

\* Rows and events are written once.
THEOREM ImmutableHolds == Spec => TrailImmutable
<1>1. TypeOK /\ TrailInv /\ [Next]_vars =>
        /\ \A r \in Requests : record[r] # None => record'[r] = record[r]
        /\ \A h \in Attempts : audit[h] # None => audit'[h] = audit[h]
  BY RowsImmutable, AuditMoves DEF TrailInv, NoEventYet
<1> QED BY <1>1, TrailHolds, TypeCorrect, PTL DEF Spec, TrailImmutable

-----------------------------------------------------------------------------
(* The counters are the sums of what was charged.                          *)

\* The requests that were charged to counter k.
ChargedTo(rows, k) == {r \in Requests : rows[r] # None /\ k \in rows[r].charged}

\* The rows of transaction_validations are finitely many: every step adds at most
\* one.  Nothing is assumed about the number of requests.
FinitelyStored == IsFiniteSet({r \in Requests : record[r] # None})

\* A row that is stored charges the counters it names, for its request only.
LEMMA ChargedMoves ==
  ASSUME TypeOK, NEW h \in Attempts, NEW row \in Records, record[Req[h]] = None,
         record' = [record EXCEPT ![Req[h]] = row], NEW k \in Keys
  PROVE  /\ Req[h] \notin ChargedTo(record, k)
         /\ ChargedTo(record', k) = IF k \in row.charged THEN ChargedTo(record, k) \cup {Req[h]}
                                    ELSE ChargedTo(record, k)
<1>1. Req[h] \in Requests /\ row # None
  BY ValidationAssumption
<1>2. \A r \in Requests : record'[r] = IF r = Req[h] THEN row ELSE record[r]
  BY <1>1 DEF TypeOK
<1> QED BY <1>1, <1>2 DEF ChargedTo

\* Every step stores at most one more row.
LEMMA FinitelyStep ==
  ASSUME TypeOK, RequestHeld, FinitelyStored, [Next]_vars
  PROVE  FinitelyStored'
<1> DEFINE Stored == {r \in Requests : record[r] # None}
<1>1. ASSUME NEW h \in Attempts, NEW row \in Records, record' = [record EXCEPT ![Req[h]] = row]
      PROVE  Stored' \subseteq Stored \cup {Req[h]}
  BY <1>1, ValidationAssumption DEF TypeOK
<1>2. IsFiniteSet(Stored)
  BY DEF FinitelyStored
<1>3. \A h \in Attempts : IsFiniteSet(Stored \cup {Req[h]})
  BY <1>2, FS_AddElement
<1>4. \A h \in Attempts : /\ [id |-> h, decision |-> decision[h], charged |-> pending[h]] \in Records
                          /\ [id |-> h, decision |-> decision[h], charged |-> {}] \in Records
  BY DEF TypeOK, Records
<1>5. CASE record' = record
  BY <1>2, <1>5 DEF FinitelyStored
<1>6. CASE \E h \in Attempts : \E row \in Records : record' = [record EXCEPT ![Req[h]] = row]
  <2>1. PICK h \in Attempts : Stored' \subseteq Stored \cup {Req[h]}
    BY <1>1, <1>6
  <2>2. IsFiniteSet(Stored')
    BY <1>3, <2>1, FS_Subset
  <2> QED BY <2>2 DEF FinitelyStored
<1> QED BY <1>4, <1>5, <1>6, RecordMoves

\* The amounts of a finite set of requests have a sum, and one more request adds its
\* amount to it.
LEMMA SumOfAmounts ==
  ASSUME NEW R \in SUBSET Requests, IsFiniteSet(R), NEW r \in Requests, r \notin R
  PROVE  SumFunctionOnSet(Amount, R \cup {r}) = SumFunctionOnSet(Amount, R) + Amount[r]
<1>1. \A q \in Requests : Amount[q] \in Nat
  BY ValidationAssumption
<1>2. IsFiniteSet(R \cup {r}) /\ (R \cup {r}) \ {r} = R /\ r \in R \cup {r}
  BY FS_AddElement
<1>3. SumFunctionOnSet(Amount, R \cup {r}) = Amount[r] + SumFunctionOnSet(Amount, R)
  BY <1>1, <1>2, SumTake
<1>4. SumFunctionOnSet(Amount, R) \in Nat
  BY <1>1, SumNat
<1> QED BY <1>1, <1>3, <1>4

\* The counters, in the form in which the sums are reasoned about.
LEMMA ReconcileForm ==
  CountersReconcile <=> \A k \in Keys : counter[k] = SumFunctionOnSet(Amount, ChargedTo(record, k))
<1>1. \A k \in Keys : MapThenSumSet(LAMBDA r : Amount[r], ChargedTo(record, k))
                        = SumFunctionOnSet(Amount, ChargedTo(record, k))
  BY SumOfMap
<1> QED BY <1>1 DEF CountersReconcile, ChargedTo

\* Counters and rows move together: Commit charges every counter of the row it
\* stores, and a stored refusal charges none.
LEMMA ReconcileStep ==
  ASSUME TypeOK, RequestHeld, FinitelyStored, [Next]_vars, NEW k \in Keys,
         counter[k] = SumFunctionOnSet(Amount, ChargedTo(record, k))
  PROVE  counter'[k] = SumFunctionOnSet(Amount, ChargedTo(record', k))
<1>1. IsFiniteSet(ChargedTo(record, k)) /\ ChargedTo(record, k) \in SUBSET Requests
  <2>1. ChargedTo(record, k) \subseteq {r \in Requests : record[r] # None}
    BY DEF ChargedTo
  <2> QED BY <2>1, FS_Subset DEF FinitelyStored
<1>2. ASSUME NEW h \in Attempts, Commit(h)
      PROVE  counter'[k] = SumFunctionOnSet(Amount, ChargedTo(record', k))
  <2> DEFINE row == [id |-> h, decision |-> decision[h], charged |-> pending[h]]
  <2>1. /\ row \in Records /\ row.charged = pending[h] /\ record[Req[h]] = None
        /\ record' = [record EXCEPT ![Req[h]] = row]
    BY <1>2 DEF TypeOK, Records, Commit, RequestHeld
  <2>2. counter'[k] = IF k \in pending[h] THEN counter[k] + Amount[Req[h]] ELSE counter[k]
    BY <1>2 DEF Commit, Charged
  <2>3. Req[h] \in Requests
    BY ValidationAssumption
  <2> HIDE DEF row
  <2>4. /\ Req[h] \notin ChargedTo(record, k)
        /\ ChargedTo(record', k) = IF k \in pending[h] THEN ChargedTo(record, k) \cup {Req[h]}
                                   ELSE ChargedTo(record, k)
    BY <2>1, ChargedMoves
  <2> QED BY <1>1, <2>2, <2>3, <2>4, SumOfAmounts
<1>3. ASSUME NEW h \in Attempts, PersistRefusal(h), record[Req[h]] = None,
             record' = [record EXCEPT ![Req[h]] =
                          [id |-> h, decision |-> decision[h], charged |-> {}]]
      PROVE  counter'[k] = SumFunctionOnSet(Amount, ChargedTo(record', k))
  <2> DEFINE row == [id |-> h, decision |-> decision[h], charged |-> {}]
  <2>1. row \in Records /\ row.charged = {} /\ record' = [record EXCEPT ![Req[h]] = row]
    BY <1>3 DEF TypeOK, Records
  <2>2. counter' = counter
    BY <1>3 DEF PersistRefusal
  <2> HIDE DEF row
  <2>3. ChargedTo(record', k) = ChargedTo(record, k)
    BY <1>3, <2>1, ChargedMoves
  <2> QED BY <2>2, <2>3
<1>4. CASE record' = record /\ counter' = counter
  BY <1>4
<1> QED BY <1>2, <1>3, <1>4, RecordMoves, CounterMoves

\* The committed usage of every counter is the sum of the amounts of the stored ALLOW
\* validations charged to it: no retry, concurrent duplicate, refusal, failure or crash
\* leaves an increment behind or takes one away.
THEOREM ReconcileHolds == Spec => []CountersReconcile
<1> DEFINE Sums == \A k \in Keys : counter[k] = SumFunctionOnSet(Amount, ChargedTo(record, k))
<1>1. Init => FinitelyStored /\ Sums
  <2> SUFFICES ASSUME Init PROVE FinitelyStored /\ Sums
    OBVIOUS
  <2>1. {r \in Requests : record[r] # None} = {} /\ \A k \in Keys : ChargedTo(record, k) = {}
    BY DEF Init, ChargedTo
  <2>2. \A k \in Keys : counter[k] = 0
    BY DEF Init
  <2> QED BY <2>1, <2>2, FS_EmptySet, SumEmpty DEF FinitelyStored
<1>2. TypeOK /\ TrailInv /\ FinitelyStored /\ Sums /\ [Next]_vars => FinitelyStored' /\ Sums'
  <2> SUFFICES ASSUME TypeOK, TrailInv, FinitelyStored, Sums, [Next]_vars
               PROVE  FinitelyStored' /\ Sums'
    OBVIOUS
  <2> QED BY FinitelyStep, ReconcileStep DEF TrailInv
<1>3. Sums => CountersReconcile
  BY ReconcileForm
<1> QED BY <1>1, <1>2, <1>3, TypeCorrect, TrailHolds, PTL DEF Spec

-----------------------------------------------------------------------------
(* Validation implements SpendLedger.                                      *)

\* An open transaction has at most one counter of each limit: the loop of
\* checkLimitsInternal computes serverNow once, before the first limit.
OneKeyPerLimit == \A h \in Attempts : \A k \in locked[h] : k = KeyOf(h, k[1])

\* The clock of an attempt moves only while it holds no lock.
LEMMA ClockMoves ==
  ASSUME TypeOK, NEW h \in Attempts, Step(h) \/ Fail(h) \/ Crash(h), at'[h] # at[h]
  PROVE  pc[h] = "list" /\ locked' = locked
  BY DEF Step, TypeOK, locals, CheckDuplicate, EvaluateRules, ListLimits,
     CheckWithoutCounter, UpsertAndIncrement, RollbackRefused, LimitsPassed, InsertWithTx,
     HandleConcurrentDuplicate, AuditWithTx, Commit, PersistRefusal, AuditRefusal, Fail,
     Crash, DropLocals

\* Every step keeps the counters of a transaction to one for each limit.
LEMMA OneKeyStep ==
  ASSUME TypeOK, IncrementsIsolated, OneKeyPerLimit, [Next]_vars
  PROVE  OneKeyPerLimit'
<1> SUFFICES ASSUME NEW g \in Attempts, NEW k \in locked'[g]
             PROVE  k = <<k[1], Bucket[Req[g]][k[1]][at'[g]]>>
  BY DEF OneKeyPerLimit, KeyOf
<1>1. CASE at'[g] = at[g] /\ locked'[g] = locked[g]
  BY <1>1 DEF OneKeyPerLimit, KeyOf
<1>2. CASE Step(g) \/ Fail(g) \/ Crash(g)
  <2>1. CASE at'[g] # at[g]
    BY <1>2, <2>1, ClockMoves DEF IncrementsIsolated
  <2>2. CASE at'[g] = at[g] /\ EndTx(g)
    BY <2>2 DEF EndTx, TypeOK
  <2>3. CASE at'[g] = at[g] /\ UpsertAndIncrement(g)
    <3>1. PICK l \in Limits : locked' = [locked EXCEPT ![g] = @ \cup {KeyOf(g, l)}]
      BY <2>3, UpsertMoves
    <3>2. k \in locked[g] \/ k = KeyOf(g, l)
      BY <3>1 DEF TypeOK
    <3>3. CASE k \in locked[g]
      BY <2>3, <3>3 DEF OneKeyPerLimit, KeyOf
    <3>4. CASE k = KeyOf(g, l)
      BY <2>3, <3>4 DEF KeyOf
    <3> QED BY <3>2, <3>3, <3>4
  <2>4. CASE at'[g] = at[g] /\ locked' = locked
    BY <1>1, <2>4
  <2> QED BY <1>2, <2>1, <2>2, <2>3, <2>4, LockMoves
<1> QED BY <1>1, <1>2, WhoSteps, OthersAlone, EnvironmentAlone

\* The decision of a request as the ledger sees it.
Verdict(rows) == [r \in Requests |-> IF rows[r] = None THEN None ELSE rows[r].decision]

\* A row that is stored decides its request and no other.
LEMMA VerdictMoves ==
  ASSUME TypeOK, NEW h \in Attempts, NEW row \in Records,
         record' = [record EXCEPT ![Req[h]] = row]
  PROVE  Verdict(record') = [Verdict(record) EXCEPT ![Req[h]] = row.decision]
<1>1. Req[h] \in Requests /\ row # None
  BY ValidationAssumption
<1>2. \A r \in Requests : record'[r] = IF r = Req[h] THEN row ELSE record[r]
  BY <1>1 DEF TypeOK
<1>3. \A r \in Requests :
        Verdict(record')[r] = IF r = Req[h] THEN row.decision ELSE Verdict(record)[r]
  BY <1>1, <1>2 DEF Verdict
<1>4. Verdict(record') = [r \in Requests |-> Verdict(record')[r]]
  BY DEF Verdict
<1>5. [Verdict(record) EXCEPT ![Req[h]] = row.decision] =
        [r \in Requests |-> IF r = Req[h] THEN row.decision ELSE Verdict(record)[r]]
  BY DEF Verdict
<1> HIDE DEF Verdict
<1> QED BY <1>3, <1>4, <1>5

\* A commit of an ALLOW is a grant of the ledger.
LEMMA CommitGrants ==
  ASSUME TypeOK, RequestHeld, Decided, PendingFits, IncrementsIsolated, OneKeyPerLimit,
         NEW h \in Attempts, Commit(h)
  PROVE  Ledger!Grant(Req[h])
<1>1. Req[h] \in Requests /\ record[Req[h]] = None /\ decision[h] = "ALLOW"
  BY ValidationAssumption DEF Commit, RequestHeld, Decided
<1>2. Verdict(record)[Req[h]] = None
  BY <1>1 DEF Verdict
<1>3. ASSUME NEW j \in pending[h], NEW k \in pending[h], j[1] = k[1]
      PROVE  j = k
  <2>1. j = KeyOf(h, j[1]) /\ k = KeyOf(h, k[1])
    BY DEF OneKeyPerLimit, IncrementsIsolated
  <2> QED BY <1>3, <2>1
<1>4. \A k \in pending[h] : counter[k] + Amount[Req[h]] <= ceiling[k[1]]
  BY DEF PendingFits
<1>5. counter' = Charged(h) /\ ceiling' = ceiling
  BY DEF Commit, limits
<1>6. [id |-> h, decision |-> decision[h], charged |-> pending[h]] \in Records
  BY DEF TypeOK, Records
<1>7. Verdict(record') = [Verdict(record) EXCEPT ![Req[h]] = "ALLOW"]
  <2>1. record' = [record EXCEPT ![Req[h]] =
                     [id |-> h, decision |-> decision[h], charged |-> pending[h]]]
    BY DEF Commit
  <2>2. [id |-> h, decision |-> decision[h], charged |-> pending[h]].decision = "ALLOW"
    BY <1>1
  <2> QED BY <1>6, <2>1, <2>2, VerdictMoves
<1>8. Ledger!Charge(Req[h], pending[h]) /\ pending[h] \in SUBSET Ledger!Keys
  BY <1>3, <1>4, <1>5 DEF Ledger!Charge, Ledger!Keys, Keys, Charged, TypeOK
<1> QED BY <1>2, <1>5, <1>7, <1>8 DEF Ledger!Grant, Verdict

\* A refusal that is stored is a refusal of the ledger.
LEMMA RefusalRefuses ==
  ASSUME TypeOK, Decided, NEW h \in Attempts, PersistRefusal(h), record[Req[h]] = None,
         record' = [record EXCEPT ![Req[h]] =
                      [id |-> h, decision |-> decision[h], charged |-> {}]]
  PROVE  Ledger!Refuse(Req[h])
<1>1. Req[h] \in Requests /\ decision[h] \in {"DENY", "REVIEW"}
  BY ValidationAssumption DEF PersistRefusal, Decided
<1>2. Verdict(record)[Req[h]] = None
  BY <1>1 DEF Verdict
<1>3. [id |-> h, decision |-> decision[h], charged |-> {}] \in Records
  BY DEF TypeOK, Records
<1>4. Verdict(record') = [Verdict(record) EXCEPT ![Req[h]] = decision[h]]
  <2>1. [id |-> h, decision |-> decision[h], charged |-> {}].decision = decision[h]
    OBVIOUS
  <2> QED BY <1>3, <2>1, VerdictMoves
<1>5. UNCHANGED <<counter, ceiling>>
  BY DEF PersistRefusal, limits
<1> QED BY <1>1, <1>2, <1>4, <1>5 DEF Ledger!Refuse, Verdict

\* A new maximum raises the ceiling or is invisible to the ledger.
LEMMA UpdateRaises ==
  ASSUME TypeOK, NEW l \in Managed, UpdateLimit(l)
  PROVE  Ledger!RaiseCeiling(l) \/ UNCHANGED <<counter, record, ceiling>>
<1>1. l \in Limits /\ MaxAmounts[l] \subseteq Nat
  BY ValidationAssumption
<1>2. PICK m \in MaxAmounts[l] : ceiling' = [ceiling EXCEPT ![l] = IF m > @ THEN m ELSE @]
  BY DEF UpdateLimit
<1>3. UNCHANGED <<counter, record>>
  BY DEF UpdateLimit, database
<1>4. m \in Nat /\ ceiling[l] \in Nat
  BY <1>1 DEF TypeOK
<1>5. CASE m > ceiling[l]
  <2>1. ceiling' = [ceiling EXCEPT ![l] = m]
    BY <1>2, <1>5 DEF TypeOK
  <2>2. ceiling'[l] = m
    BY <1>1, <2>1 DEF TypeOK
  <2> QED BY <1>3, <1>4, <1>5, <2>1, <2>2 DEF Ledger!RaiseCeiling
<1>6. CASE ~(m > ceiling[l])
  <2>1. ceiling' = [ceiling EXCEPT ![l] = ceiling[l]]
    BY <1>2, <1>6
  <2>2. ceiling' = ceiling
    BY <2>1 DEF TypeOK
  <2> QED BY <1>3, <2>2
<1> QED BY <1>5, <1>6

\* Only administrators move the ceilings.
LEMMA CeilingMoves ==
  ASSUME [Next]_vars
  PROVE  ceiling' = ceiling \/ \E l \in Managed : UpdateLimit(l)
  BY DEF Next, vars, limits, Step, CheckDuplicate, EvaluateRules, ListLimits,
     CheckWithoutCounter, UpsertAndIncrement, RollbackRefused, LimitsPassed, InsertWithTx,
     HandleConcurrentDuplicate, AuditWithTx, Commit, PersistRefusal, AuditRefusal, Fail, Crash,
     ActivateLimit, DeactivateLimit, Tick

\* Every step of the service is a step of the ledger or a stutter of it.
LEMMA LedgerStep ==
  ASSUME TypeOK, RequestHeld, Decided, PendingFits, IncrementsIsolated, OneKeyPerLimit,
         [Next]_vars
  PROVE  [Ledger!LedgerNext]_(Ledger!ledgerVars)
<1> USE ValidationAssumption
<1>1. ASSUME NEW h \in Attempts, Commit(h)
      PROVE  Ledger!LedgerNext
  BY <1>1, CommitGrants DEF Ledger!LedgerNext
<1>2. ASSUME NEW h \in Attempts, PersistRefusal(h), record[Req[h]] = None,
             record' = [record EXCEPT ![Req[h]] =
                          [id |-> h, decision |-> decision[h], charged |-> {}]]
      PROVE  Ledger!LedgerNext
  BY <1>2, RefusalRefuses DEF Ledger!LedgerNext
<1>3. ASSUME NEW l \in Managed, UpdateLimit(l)
      PROVE  Ledger!LedgerNext \/ UNCHANGED <<counter, record, ceiling>>
  BY <1>3, UpdateRaises DEF Ledger!LedgerNext
<1>4. ASSUME UNCHANGED <<counter, record, ceiling>>
      PROVE  UNCHANGED Ledger!ledgerVars
  BY <1>4 DEF Ledger!ledgerVars
<1> QED BY <1>1, <1>2, <1>3, <1>4, RecordMoves, CounterMoves, CeilingMoves

\* The service implements the ledger: what POST /v1/validations does to the usage
\* counters and the stored decisions, one statement at a time and from any number of
\* goroutines, is what the ledger does in single instants.
THEOREM LedgerRefined == Spec => ImplementsLedger
<1>1. Init => Ledger!LedgerInit
  BY InitTypeOK DEF Init, TypeOK, Ledger!LedgerInit, Ledger!Keys, Keys
<1>2. Init => OneKeyPerLimit
  BY DEF Init, OneKeyPerLimit
<1>3. TypeOK /\ IncrementsIsolated /\ OneKeyPerLimit /\ [Next]_vars => OneKeyPerLimit'
  BY OneKeyStep
<1>4. TypeOK /\ TrailInv /\ CounterInv /\ IncrementsIsolated /\ OneKeyPerLimit /\ [Next]_vars
        => [Ledger!LedgerNext]_(Ledger!ledgerVars)
  BY LedgerStep DEF TrailInv, CounterInv
<1> QED BY <1>1, <1>2, <1>3, <1>4, TypeCorrect, IsolationHolds, TrailHolds, CounterHolds, PTL
        DEF Spec, ImplementsLedger, Ledger!LedgerSpec
=============================================================================
