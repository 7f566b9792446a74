--------------------------- MODULE RuleSyncProofs ---------------------------
(***************************************************************************)
(* Theorems about RuleSync, for any number of rules and commands, any      *)
(* overlap buffer and any delays: types, that the cache holds committed    *)
(* active rows only, that a deleted rule stays deleted, and that the next  *)
(* poll reaches what the cache has not seen.                               *)
(***************************************************************************)
EXTENDS RuleSync, TLAPS

\* A command that runs has a rule in memory, and one that activates has set its
\* status before it writes.
DraftInv ==
  \A c \in Commands :
    /\ Running(c) => draft[c] \in Rows
    /\ pc[c] \in {"write", "cache"} /\ Op[c] = "activate" => draft[c].status = "ACTIVE"

\* The inductive strengthening of TypeOK.
TypeInv == TypeOK /\ DraftInv

LEMMA InitTypeInv == Init => TypeInv
<1> SUFFICES ASSUME Init PROVE TypeInv
  OBVIOUS
<1> USE RuleSyncAssumption
<1>1. row \in [Rules -> Rows]
  BY DEF Init, Rows, Statuses
<1>2. versions \subseteq Rules \X Rows
  BY <1>1 DEF Init
<1>3. TypeOK
  BY <1>1, <1>2 DEF Init, TypeOK, NoRow, Serving, CommandPoints, WorkerPoints
<1>4. DraftInv
  BY DEF Init, DraftInv, Running
<1> QED BY <1>3, <1>4 DEF TypeInv

\* What NewStatus gives is a status, and ACTIVE for an activate.
LEMMA NewStatusType ==
  ASSUME NEW c \in Commands, NEW s \in Statuses
  PROVE  NewStatus(c, s) \in Statuses /\ (Op[c] = "activate" => NewStatus(c, s) = "ACTIVE")
BY RuleSyncAssumption DEF NewStatus, Statuses, Ops

LEMMA ReadTypeInv ==
  ASSUME TypeInv, NEW c \in Commands, Read(c)
  PROVE  TypeInv'
<1> USE RuleSyncAssumption DEF TypeInv, TypeOK, Read, Return, database, cached, polling
<1>1. row[Target[c]] \in Rows
  OBVIOUS
<1>2. /\ pc' \in [Commands -> CommandPoints]
      /\ draft' \in [Commands -> Rows \cup {None}]
  BY <1>1 DEF CommandPoints
<1>3. TypeOK'
  BY <1>2 DEF Serving
<1>4. DraftInv'
  BY <1>1, NoneIsNoRow DEF DraftInv, Running
<1> QED BY <1>3, <1>4

LEMMA StampTypeInv ==
  ASSUME TypeInv, NEW c \in Commands, Stamp(c)
  PROVE  TypeInv'
<1> USE RuleSyncAssumption DEF TypeInv
<1> DEFINE new == [status |-> NewStatus(c, draft[c].status), at |-> now,
                   body |-> IF Op[c] \in {"create", "edit", "editExpression"} THEN c ELSE draft[c].body]
<1>1. draft[c] \in Rows
  BY DEF Stamp, DraftInv, Running
<1>2. new \in Rows /\ (Op[c] = "activate" => new.status = "ACTIVE")
  BY <1>1, NewStatusType DEF Rows, TypeOK
<1>3. draft' = [draft EXCEPT ![c] = new] /\ pc' = [pc EXCEPT ![c] = "write"]
  BY DEF Stamp
<1> HIDE DEF new
<1>4. TypeOK'
  BY <1>2, <1>3 DEF Stamp, TypeOK, Serving, CommandPoints, database, cached, polling
<1>5. DraftInv'
  BY <1>2, <1>3 DEF DraftInv, Running, TypeOK
<1> QED BY <1>4, <1>5

LEMMA WrittenType ==
  ASSUME TypeInv, NEW c \in Commands, pc[c] = "write"
  PROVE  Written(c) \in Rows
<1>1. draft[c] \in Rows /\ row[Target[c]] \in Rows
  BY RuleSyncAssumption DEF TypeInv, TypeOK, DraftInv, Running
<1> QED BY <1>1 DEF Written, Rows, Statuses

LEMMA WriteTypeInv ==
  ASSUME TypeInv, NEW c \in Commands, Write(c)
  PROVE  TypeInv'
<1> USE RuleSyncAssumption DEF TypeInv
<1>1. Written(c) \in Rows
  BY WrittenType DEF Write
<1>2. row' \in [Rules -> Rows] /\ versions' \subseteq Rules \X Rows
  BY <1>1 DEF Write, TypeOK, database
<1>3. /\ pc' \in [Commands -> CommandPoints]
      /\ draft' \in [Commands -> Rows \cup {None}]
  BY DEF Write, AfterWrite, Return, TypeOK, CommandPoints
<1>4. TypeOK'
  BY <1>2, <1>3 DEF Write, TypeOK, Serving, cached, polling
<1>5. DraftInv'
  BY DEF Write, AfterWrite, Return, DraftInv, Running, TypeOK
<1> QED BY <1>4, <1>5

LEMMA WriteThroughTypeInv ==
  ASSUME TypeInv, NEW c \in Commands, WriteThrough(c)
  PROVE  TypeInv'
<1> USE RuleSyncAssumption DEF TypeInv
<1>1. cache' \in [Rules -> Rows \cup {None}]
  BY DEF WriteThrough, TypeOK
<1>2. TypeOK'
  BY <1>1 DEF WriteThrough, Return, TypeOK, Serving, CommandPoints, database, polling
<1>3. DraftInv'
  BY DEF WriteThrough, Return, DraftInv, Running, TypeOK
<1> QED BY <1>2, <1>3

\* The polling side never touches a command.
LEMMA DraftInvKept ==
  ASSUME DraftInv, UNCHANGED commands
  PROVE  DraftInv'
BY DEF DraftInv, Running, commands

LEMMA EndCycleType ==
  ASSUME TypeOK, EndCycle
  PROVE  /\ worker' = "idle" /\ touched' \in Nat /\ lastSync' \in Nat
         /\ fetched' \in [Rules -> Rows \cup {None}]
         /\ upserts' \subseteq Rules /\ removals' \subseteq Rules /\ asked' \in Nat
<1>1. \A r \in Fetched : fetched[r].at \in Nat
  BY DEF Fetched, TypeOK, Rows
<1>2. Stamps \subseteq Nat
  BY <1>1 DEF Stamps, TypeOK
<1> QED BY <1>2 DEF EndCycle, UpdateLastSync, TypeOK, NoRow

LEMMA WorkerTypeInv ==
  ASSUME TypeInv, Worker
  PROVE  TypeInv'
<1> USE DEF TypeInv
<1>1. UNCHANGED <<commands, database, now, restarts>>
  BY DEF Worker, WarmUpQuery, WarmUpApply, StartWorker, QueryDelta, Classify, Apply, commands, database
<1>2. DraftInv'
  BY <1>1, DraftInvKept
<1>3. CASE WarmUpQuery
  BY <1>1, <1>2, <1>3 DEF WarmUpQuery, TypeOK, Serving, WorkerPoints, database, commands, cached
<1>4. CASE WarmUpApply
  BY <1>1, <1>2, <1>4 DEF WarmUpApply, TypeOK, Serving, WorkerPoints, database, commands, NoRow
<1>5. CASE StartWorker
  BY <1>1, <1>2, <1>5 DEF StartWorker, TypeOK, Serving, WorkerPoints, database, commands, cached
<1>6. CASE QueryDelta
  BY <1>1, <1>2, <1>6 DEF QueryDelta, TypeOK, Serving, WorkerPoints, database, commands, cached
<1>7. CASE Classify
  <2>1. CASE EndCycle
    BY <1>1, <1>2, <1>7, <2>1, EndCycleType
       DEF Classify, TypeOK, Serving, WorkerPoints, database, commands
  <2>2. CASE ~EndCycle
    BY <1>1, <1>2, <1>7, <2>2
       DEF Classify, TypeOK, Serving, WorkerPoints, database, commands, Upserted, Removed, Fetched
  <2> QED BY <2>1, <2>2
<1>8. CASE Apply
  <2>1. cache' \in [Rules -> Rows \cup {None}]
    BY <1>8 DEF Apply, TypeOK
  <2> QED
    BY <1>1, <1>2, <1>8, <2>1, EndCycleType
       DEF Apply, TypeOK, Serving, WorkerPoints, database, commands
<1> QED BY <1>3, <1>4, <1>5, <1>6, <1>7, <1>8 DEF Worker

LEMMA RestartTypeInv ==
  ASSUME TypeInv, Restart
  PROVE  TypeInv'
<1> USE RuleSyncAssumption DEF TypeInv
<1>1. /\ pc' \in [Commands -> CommandPoints]
      /\ draft' \in [Commands -> Rows \cup {None}]
  BY DEF Restart, TypeOK, CommandPoints
<1>2. restarts' \in Nat /\ touched' \in Nat /\ asked' \in Nat /\ lastSync' \in Nat /\ now' \in Nat
  BY DEF Restart, TypeOK
<1>4. /\ cache' \in [Rules -> Rows \cup {None}] /\ fetched' \in [Rules -> Rows \cup {None}]
      /\ upserts' \subseteq Rules /\ removals' \subseteq Rules
  BY DEF Restart, NoRow
<1>5. worker' \in WorkerPoints /\ ready' = Serving'
  BY DEF Restart, Serving, WorkerPoints
<1>6. row' \in [Rules -> Rows] /\ versions' \subseteq Rules \X Rows
  BY DEF Restart, TypeOK, database
<1>3. DraftInv'
  BY DEF Restart, DraftInv, Running, TypeOK
<1> QED BY <1>1, <1>2, <1>3, <1>4, <1>5, <1>6 DEF TypeOK

LEMMA NextTypeInv == TypeInv /\ [Next]_vars => TypeInv'
<1> SUFFICES ASSUME TypeInv, [Next]_vars PROVE TypeInv'
  OBVIOUS
<1>1. ASSUME NEW c \in Commands, Command(c) PROVE TypeInv'
  BY <1>1, ReadTypeInv, StampTypeInv, WriteTypeInv, WriteThroughTypeInv DEF Command
<1>2. CASE Tick
  BY <1>2, RuleSyncAssumption, DraftInvKept
     DEF Tick, TypeInv, TypeOK, Serving, database, cached, commands, polling
<1>3. CASE UNCHANGED vars
  BY <1>3 DEF vars, TypeInv, TypeOK, DraftInv, Running, Serving
<1> QED BY <1>1, <1>2, <1>3, WorkerTypeInv, RestartTypeInv DEF Next

\* Every variable keeps its type, and the cache is ready exactly while the instance
\* serves requests, whatever commands, worker and restarts do.
THEOREM TypeCorrect == Spec => []TypeOK
<1>1. TypeInv => TypeOK
  BY DEF TypeInv
<1> QED BY <1>1, InitTypeInv, NextTypeInv, PTL DEF Spec

-----------------------------------------------------------------------------
(* The cache holds what was committed.                                     *)

\* Every row of the table, every row the last query returned and the rule of every
\* command that is about to write through was committed; what the worker is about to
\* put into the cache is active.
CommittedInv ==
  /\ \A r \in Rules : <<r, row[r]>> \in versions
  /\ \A r \in Rules : fetched[r] # None => <<r, fetched[r]>> \in versions
  /\ worker = "warming" => \A r \in Fetched : fetched[r].status = "ACTIVE"
  /\ worker # "apply" => upserts = {}
  /\ upserts \subseteq Fetched
  /\ \A r \in upserts : fetched[r].status = "ACTIVE"
  /\ \A c \in Commands : pc[c] = "cache" => <<Target[c], draft[c]>> \in versions

CacheInv == CommittedInv /\ CacheWasCommitted

LEMMA InitCacheInv == Init => CacheInv
BY DEF Init, CacheInv, CommittedInv, CacheWasCommitted, NoRow, Fetched

LEMMA CommandCacheInv ==
  ASSUME TypeInv, CacheInv, NEW c \in Commands, Command(c)
  PROVE  CacheInv'
<1> USE RuleSyncAssumption DEF TypeInv, CacheInv
<1>1. CASE Read(c)
  BY <1>1 DEF Read, Return, CommittedInv, CacheWasCommitted, TypeOK, Fetched, database, cached, polling
<1>2. CASE Stamp(c)
  BY <1>2 DEF Stamp, CommittedInv, CacheWasCommitted, TypeOK, Fetched, database, cached, polling
<1>3. CASE Write(c)
  <2>1. versions \subseteq versions' /\ \A r \in Rules : <<r, row'[r]>> \in versions'
    BY <1>3 DEF Write, CommittedInv, TypeOK, database
  <2>2. UNCHANGED <<cache, fetched, upserts, worker>>
    BY <1>3 DEF Write, cached, polling
  <2>3. \A d \in Commands : pc'[d] = "cache" => <<Target[d], draft'[d]>> \in versions'
    <3> SUFFICES ASSUME NEW d \in Commands, pc'[d] = "cache"
                 PROVE  <<Target[d], draft'[d]>> \in versions'
      OBVIOUS
    <3>1. CASE d # c
      BY <1>3, <2>1, <3>1 DEF Write, AfterWrite, Return, CommittedInv, TypeOK
    <3>2. CASE d = c
      <4>1. WritesThrough(c) /\ UNCHANGED draft /\ <<Target[c], Written(c)>> \in versions'
        BY <1>3, <3>2 DEF Write, AfterWrite, Return, TypeOK
      <4>2. Written(c) = draft[c]
        BY <4>1 DEF WritesThrough, Written
      <4> QED BY <3>2, <4>1, <4>2
    <3> QED BY <3>1, <3>2
  <2> QED BY <2>1, <2>2, <2>3 DEF CommittedInv, CacheWasCommitted, Fetched
<1>4. CASE WriteThrough(c)
  <2>1. UNCHANGED <<row, versions, fetched, upserts, worker>>
    BY <1>4 DEF WriteThrough, database, polling
  <2>2. \A d \in Commands : pc'[d] = "cache" => pc[d] = "cache" /\ draft'[d] = draft[d]
    BY <1>4 DEF WriteThrough, Return, TypeOK
  <2>3. \A r \in Rules : cache'[r] = cache[r] \/ cache'[r] = None
                          \/ (r = Target[c] /\ Op[c] = "activate" /\ cache'[r] = draft[c])
    BY <1>4 DEF WriteThrough, TypeOK
  <2>4. /\ <<Target[c], draft[c]>> \in versions
        /\ Op[c] = "activate" => draft[c].status = "ACTIVE"
    BY <1>4 DEF WriteThrough, CommittedInv, DraftInv
  <2> QED BY <2>1, <2>2, <2>3, <2>4 DEF CommittedInv, CacheWasCommitted, Fetched
<1> QED BY <1>1, <1>2, <1>3, <1>4 DEF Command

LEMMA EndCycleCommitted ==
  ASSUME CommittedInv, EndCycle, UNCHANGED <<row, versions, pc, draft>>
  PROVE  CommittedInv'
BY DEF CommittedInv, EndCycle, NoRow, Fetched

LEMMA WorkerCacheInv ==
  ASSUME TypeInv, CacheInv, Worker
  PROVE  CacheInv'
<1> USE DEF TypeInv, CacheInv
<1>1. UNCHANGED <<row, versions, pc, draft>>
  BY DEF Worker, WarmUpQuery, WarmUpApply, StartWorker, QueryDelta, Classify, Apply, commands, database
<1>2. CASE WarmUpQuery
  <2>1. \A r \in Rules : fetched'[r] # None => fetched'[r] = row[r] /\ row[r].status = "ACTIVE"
    BY <1>2 DEF WarmUpQuery
  <2>2. UNCHANGED <<cache, upserts>> /\ upserts = {}
    BY <1>2 DEF WarmUpQuery, CommittedInv, cached
  <2> QED BY <1>1, <2>1, <2>2 DEF CommittedInv, CacheWasCommitted, Fetched
<1>3. CASE WarmUpApply
  <2>1. /\ cache' = fetched /\ UNCHANGED upserts /\ upserts = {} /\ worker' = "warm"
        /\ \A r \in Rules : fetched'[r] = None
    BY <1>3 DEF WarmUpApply, CommittedInv, NoRow
  <2>2. \A r \in Rules : fetched[r] # None =>
          fetched[r].status = "ACTIVE" /\ <<r, fetched[r]>> \in versions
    BY <1>3 DEF WarmUpApply, CommittedInv, Fetched
  <2> QED BY <1>1, <2>1, <2>2 DEF CommittedInv, CacheWasCommitted, Fetched
<1>4. CASE StartWorker
  BY <1>1, <1>4 DEF StartWorker, CommittedInv, CacheWasCommitted, Fetched, cached
<1>5. CASE QueryDelta
  <2>1. \A r \in Rules : fetched'[r] # None => fetched'[r] = row[r]
    BY <1>5 DEF QueryDelta
  <2>2. UNCHANGED <<cache, upserts>> /\ upserts = {} /\ worker' = "fetched"
    BY <1>5 DEF QueryDelta, CommittedInv, cached
  <2> QED BY <1>1, <2>1, <2>2 DEF CommittedInv, CacheWasCommitted, Fetched
<1>6. CASE Classify
  <2>1. CASE EndCycle
    BY <1>1, <1>6, <2>1, EndCycleCommitted DEF Classify, CacheWasCommitted
  <2>2. CASE ~EndCycle
    BY <1>1, <1>6, <2>2 DEF Classify, CommittedInv, CacheWasCommitted, Upserted, Fetched
  <2> QED BY <2>1, <2>2
<1>7. CASE Apply
  <2>1. CommittedInv'
    BY <1>1, <1>7, EndCycleCommitted DEF Apply
  <2>2. \A r \in Rules : cache'[r] = cache[r] \/ cache'[r] = None
                          \/ (r \in upserts /\ cache'[r] = fetched[r])
    BY <1>7 DEF Apply
  <2>3. \A r \in upserts : fetched[r].status = "ACTIVE" /\ <<r, fetched[r]>> \in versions
    BY DEF CommittedInv, TypeOK, Fetched
  <2> QED BY <1>1, <2>1, <2>2, <2>3 DEF CacheWasCommitted
<1> QED BY <1>2, <1>3, <1>4, <1>5, <1>6, <1>7 DEF Worker

LEMMA NextCacheInv == TypeInv /\ CacheInv /\ [Next]_vars => CacheInv'
<1> SUFFICES ASSUME TypeInv, CacheInv, [Next]_vars PROVE CacheInv'
  OBVIOUS
<1>1. CASE Restart
  <2>1. UNCHANGED <<row, versions>>
    BY <1>1 DEF Restart, database
  <2>2. \A c \in Commands : pc'[c] = "cache" => pc[c] = "cache" /\ draft'[c] = draft[c]
    BY <1>1 DEF Restart, Running
  <2> QED BY <1>1, <2>1, <2>2 DEF Restart, CacheInv, CommittedInv, CacheWasCommitted, NoRow, Fetched
<1>2. CASE Tick
  BY <1>2 DEF Tick, CacheInv, CommittedInv, CacheWasCommitted, Fetched, database, cached, commands, polling
<1>3. CASE UNCHANGED vars
  BY <1>3 DEF vars, CacheInv, CommittedInv, CacheWasCommitted, Fetched
<1> QED BY <1>1, <1>2, <1>3, CommandCacheInv, WorkerCacheInv DEF Next

\* The cache that every validation reads holds active rows that were committed, and
\* nothing else: no failed statement, no stale snapshot of the worker and no restart
\* brings in a rule that never existed (Update before UpsertRule, ClassifyChanges).
THEOREM CommittedHolds == Spec => []CacheWasCommitted
<1>1. Init => TypeInv /\ CacheInv
  BY InitTypeInv, InitCacheInv
<1>2. TypeInv /\ CacheInv /\ [Next]_vars => (TypeInv /\ CacheInv)'
  BY NextTypeInv, NextCacheInv
<1>3. CacheInv => CacheWasCommitted
  BY DEF CacheInv
<1> QED BY <1>1, <1>2, <1>3, PTL DEF Spec

-----------------------------------------------------------------------------
\* A deleted rule is never brought back or changed again, by any command that read it
\* before (WHERE deleted_at IS NULL of Update and Delete).
THEOREM DeletedHolds == Spec => DeletedIsFinal
<1> DEFINE Kept == \A r \in Rules : row[r].status = "DELETED" => row'[r] = row[r]
<1>1. TypeOK /\ [Next]_vars => [Kept]_vars
  <2> SUFFICES ASSUME TypeOK, Next PROVE Kept
    OBVIOUS
  <2>1. ASSUME NEW c \in Commands, Command(c) PROVE Kept
    <3>1. CASE Write(c)
      BY <3>1, RuleSyncAssumption DEF Write, TypeOK, database
    <3>2. CASE ~Write(c)
      BY <2>1, <3>2 DEF Command, Read, Stamp, WriteThrough, database
    <3> QED BY <3>1, <3>2
  <2>2. ASSUME Worker \/ Restart \/ Tick PROVE Kept
    BY <2>2 DEF Worker, WarmUpQuery, WarmUpApply, StartWorker, QueryDelta, Classify, Apply,
                Restart, Tick, database
  <2> QED BY <2>1, <2>2 DEF Next
<1> QED BY <1>1, TypeCorrect, PTL DEF Spec, DeletedIsFinal
-----------------------------------------------------------------------------
(* What the cache has not seen is within reach of the next poll, when the  *)
(* overlap buffer covers both delays.                                      *)

Timely == Lag + Cycle <= Overlap

\* No time stamp is ahead of the clock, a command that has stamped ends within Lag and a
\* poll within Cycle.
TimeInv ==
  /\ \A r \in Rules : row[r].at <= now
  /\ \A r \in Fetched : fetched[r].at <= now
  /\ touched <= now /\ lastSync <= now /\ asked <= now
  /\ \A c \in Commands : pc[c] \in {"write", "cache"} => draft[c].at <= now /\ now <= draft[c].at + Lag
  /\ worker \notin {"cold", "idle"} => now <= asked + Cycle

LEMMA InitTimeInv == Init => TimeInv
BY RuleSyncAssumption DEF Init, TimeInv, NoRow, Fetched

LEMMA CommandTimeInv ==
  ASSUME TypeInv, TimeInv, NEW c \in Commands, Command(c)
  PROVE  TimeInv'
<1> USE RuleSyncAssumption DEF TypeInv
<1>1. CASE Read(c)
  BY <1>1 DEF Read, Return, TimeInv, TypeOK, Fetched, database, cached, polling
<1>2. CASE Stamp(c)
  <2>1. UNCHANGED <<row, fetched, touched, lastSync, asked, now, worker>>
    BY <1>2 DEF Stamp, database, cached, polling
  <2>2. \A d \in Commands : pc'[d] \in {"write", "cache"} =>
          \/ pc[d] \in {"write", "cache"} /\ draft'[d] = draft[d]
          \/ draft'[d].at = now
    BY <1>2 DEF Stamp, TypeOK
  <2>3. now \in Nat /\ now <= now + Lag
    BY DEF TypeOK
  <2> QED BY <2>1, <2>2, <2>3 DEF TimeInv, Fetched
<1>3. CASE Write(c)
  <2>1. UNCHANGED <<fetched, touched, lastSync, asked, now, worker>>
    BY <1>3 DEF Write, cached, polling
  <2>2. draft[c] \in Rows /\ row[Target[c]] \in Rows /\ draft[c].at <= now
    BY <1>3 DEF Write, TypeOK, DraftInv, Running, TimeInv
  <2>3. Written(c).at = draft[c].at
    BY <2>2 DEF Written, Rows
  <2>4. \A r \in Rules : row'[r] = row[r] \/ row'[r].at = draft[c].at
    BY <1>3, <2>3 DEF Write, TypeOK, database
  <2>5. \A d \in Commands : pc'[d] \in {"write", "cache"} =>
          pc[d] \in {"write", "cache"} /\ draft'[d] = draft[d]
    BY <1>3 DEF Write, AfterWrite, Return, TypeOK
  <2> QED BY <2>1, <2>2, <2>4, <2>5 DEF TimeInv, Fetched
<1>4. CASE WriteThrough(c)
  <2>1. UNCHANGED <<row, fetched, lastSync, asked, now, worker>> /\ touched' = now
    BY <1>4 DEF WriteThrough, database, polling
  <2>2. \A d \in Commands : pc'[d] \in {"write", "cache"} =>
          pc[d] \in {"write", "cache"} /\ draft'[d] = draft[d]
    BY <1>4 DEF WriteThrough, Return, TypeOK
  <2>3. now <= now
    BY DEF TypeOK
  <2> QED BY <2>1, <2>2, <2>3 DEF TimeInv, Fetched
<1> QED BY <1>1, <1>2, <1>3, <1>4 DEF Command

\* lastSync never moves past the clock.
LEMMA EndCycleTime ==
  ASSUME TypeOK, TimeInv, EndCycle
  PROVE  lastSync' <= now /\ touched' = now /\ asked' = asked /\ worker' = "idle"
         /\ \A r \in Rules : fetched'[r] = None
<1>1. \A t \in Stamps : t <= now
  BY DEF Stamps, TimeInv
<1>2. now <= now
  BY DEF TypeOK
<1> QED BY <1>1, <1>2 DEF EndCycle, UpdateLastSync, NoRow

LEMMA WorkerTimeInv ==
  ASSUME TypeInv, TimeInv, Worker
  PROVE  TimeInv'
<1> USE RuleSyncAssumption DEF TypeInv
<1>1. UNCHANGED <<row, pc, draft, now>>
  BY DEF Worker, WarmUpQuery, WarmUpApply, StartWorker, QueryDelta, Classify, Apply, commands, database
<1>2. now \in Nat /\ now <= now /\ now <= now + Cycle
  BY DEF TypeOK
<1>3. CASE WarmUpQuery
  BY <1>1, <1>2, <1>3 DEF WarmUpQuery, TimeInv, Fetched, cached
<1>4. CASE WarmUpApply
  BY <1>1, <1>2, <1>4 DEF WarmUpApply, TimeInv, Fetched, NoRow
<1>5. CASE StartWorker
  BY <1>1, <1>5 DEF StartWorker, TimeInv, Fetched, cached
<1>6. CASE QueryDelta
  BY <1>1, <1>2, <1>6 DEF QueryDelta, TimeInv, Fetched, cached
<1>7. CASE EndCycle
  BY <1>1, <1>2, <1>7, EndCycleTime DEF TimeInv, Fetched
<1>8. CASE Classify /\ ~EndCycle
  BY <1>1, <1>8 DEF Classify, TimeInv, Fetched
<1> QED BY <1>3, <1>4, <1>5, <1>6, <1>7, <1>8 DEF Worker, Apply

LEMMA NextTimeInv == TypeInv /\ TimeInv /\ [Next]_vars => TimeInv'
<1> SUFFICES ASSUME TypeInv, TimeInv, [Next]_vars PROVE TimeInv'
  OBVIOUS
<1>1. CASE Restart
  <2>1. UNCHANGED <<row, now>> /\ now \in Nat
    BY <1>1 DEF Restart, database, TypeInv, TypeOK
  <2>2. \A c \in Commands : pc'[c] \in {"write", "cache"} => pc[c] = pc'[c] /\ draft'[c] = draft[c]
    BY <1>1 DEF Restart, Running
  <2>3. touched' = 0 /\ lastSync' = 0 /\ asked' = 0 /\ worker' = "cold" /\ Fetched' = {}
    BY <1>1 DEF Restart, Fetched, NoRow
  <2> QED BY <2>1, <2>2, <2>3 DEF TimeInv
<1>2. CASE Tick
  <2>1. UNCHANGED <<row, fetched, touched, lastSync, asked, pc, draft, worker>> /\ now' = now + 1
    BY <1>2 DEF Tick, database, cached, commands, polling
  <2>2. /\ now \in Nat /\ touched \in Nat /\ lastSync \in Nat /\ asked \in Nat
        /\ \A r \in Rules : row[r].at \in Nat
        /\ \A r \in Fetched : fetched[r].at \in Nat
        /\ \A c \in Commands : pc[c] \in {"write", "cache"} => draft[c].at \in Nat
    BY DEF TypeInv, TypeOK, DraftInv, Running, Rows, Fetched
  <2>3. /\ \A c \in Commands : pc[c] \in {"write", "cache"} => now < draft[c].at + Lag
        /\ worker \notin {"cold", "idle"} => now < asked + Cycle
    BY <1>2 DEF Tick
  <2>4. /\ \A r \in Rules : row'[r].at <= now'
        /\ \A r \in Fetched' : fetched'[r].at <= now'
        /\ touched' <= now' /\ lastSync' <= now' /\ asked' <= now'
    BY <2>1, <2>2 DEF TimeInv, Fetched
  <2>5. \A c \in Commands : pc'[c] \in {"write", "cache"} =>
          draft'[c].at <= now' /\ now' <= draft'[c].at + Lag
    BY <2>1, <2>2, <2>3, RuleSyncAssumption DEF TimeInv
  <2>6. worker' \notin {"cold", "idle"} => now' <= asked' + Cycle
    BY <2>1, <2>2, <2>3, RuleSyncAssumption
  <2> QED BY <2>4, <2>5, <2>6 DEF TimeInv
<1>3. CASE UNCHANGED vars
  BY <1>3 DEF vars, TimeInv, Fetched
<1> QED BY <1>1, <1>2, <1>3, CommandTimeInv, WorkerTimeInv DEF Next

\* What a command has in memory is a row it may go on with, then a row it may write; only
\* an activate or a deactivate writes through.
MemoryOf(c) ==
  /\ pc[c] = "read" => Proceeds(c, draft[c].status)
  /\ pc[c] \in {"write", "cache"} =>
       /\ draft[c].status # "ABSENT"
       /\ Op[c] = "deactivate" => draft[c].status = "INACTIVE"
  /\ pc[c] = "cache" => WritesThrough(c)

MemoryInv == \A c \in Commands : MemoryOf(c)

\* A rule that does not exist was never stamped.
AbsentInv == \A r \in Rules : row[r].status = "ABSENT" => row[r].at = 0

OrderInv == MemoryInv /\ AbsentInv

LEMMA InitOrderInv == Init => OrderInv
BY DEF Init, OrderInv, MemoryInv, MemoryOf, AbsentInv

LEMMA MemoryKept ==
  ASSUME NEW d \in Commands, MemoryOf(d), pc'[d] = pc[d], draft'[d] = draft[d]
  PROVE  MemoryOf(d)'
BY DEF MemoryOf, Proceeds, WritesThrough

\* What does not touch the commands and the table keeps it.
LEMMA OrderInvKept ==
  ASSUME OrderInv, UNCHANGED <<row, pc, draft>>
  PROVE  OrderInv'
BY DEF OrderInv, MemoryInv, MemoryOf, AbsentInv, Proceeds, WritesThrough

\* A command that proceeds gives its rule a status.
LEMMA StampStatus ==
  ASSUME NEW c \in Commands, NEW s \in Statuses, Proceeds(c, s)
  PROVE  /\ NewStatus(c, s) # "ABSENT"
         /\ Op[c] = "deactivate" => NewStatus(c, s) = "INACTIVE"
BY RuleSyncAssumption DEF NewStatus, Proceeds, Statuses, Ops, UpdateRule, UpdateExpression

LEMMA CommandOrderInv ==
  ASSUME TypeInv, OrderInv, NEW c \in Commands, Command(c)
  PROVE  OrderInv'
<1> USE RuleSyncAssumption DEF OrderInv, TypeInv
<1>1. \A d \in Commands : d # c => pc'[d] = pc[d] /\ draft'[d] = draft[d]
  BY DEF Command, Read, Stamp, Write, WriteThrough, AfterWrite, Return, TypeOK
<1>2. CASE Read(c)
  <2>1. (pc'[c] = "read" /\ Proceeds(c, draft'[c].status)) \/ pc'[c] = "done"
    BY <1>2 DEF Read, Return, TypeOK
  <2>2. MemoryOf(c)' /\ UNCHANGED row
    BY <1>2, <2>1 DEF Read, MemoryOf, Proceeds, database
  <2> QED BY <1>1, <2>2, MemoryKept DEF MemoryInv, AbsentInv
<1>3. CASE Stamp(c)
  <2>1. draft[c].status \in Statuses /\ Proceeds(c, draft[c].status)
    BY <1>3 DEF Stamp, MemoryInv, MemoryOf, DraftInv, Running, Rows
  <2>2. pc'[c] = "write" /\ draft'[c].status = NewStatus(c, draft[c].status) /\ UNCHANGED row
    BY <1>3 DEF Stamp, TypeOK, database
  <2>3. MemoryOf(c)'
    BY <2>1, <2>2, StampStatus DEF MemoryOf
  <2> QED BY <1>1, <2>2, <2>3, MemoryKept DEF MemoryInv, AbsentInv
<1>4. CASE Write(c)
  <2>1. pc[c] = "write" /\ draft[c] \in Rows /\ row[Target[c]] \in Rows
    BY <1>4 DEF Write, TypeOK, DraftInv, Running
  <2>2. pc'[c] = "done" \/ (pc'[c] = "cache" /\ WritesThrough(c) /\ draft'[c] = draft[c])
    BY <1>4 DEF Write, AfterWrite, Return, TypeOK
  <2>3. MemoryOf(c)'
    BY <2>1, <2>2 DEF MemoryInv, MemoryOf, WritesThrough
  <2>4. Written(c).status # "ABSENT"
    BY <2>1 DEF Written, Rows, MemoryInv, MemoryOf
  <2>5. \A r \in Rules : row'[r] = row[r] \/ row'[r] = Written(c)
    BY <1>4 DEF Write, TypeOK, database
  <2>6. AbsentInv'
    BY <2>4, <2>5 DEF AbsentInv
  <2> QED BY <1>1, <2>3, <2>6, MemoryKept DEF MemoryInv
<1>5. CASE WriteThrough(c)
  <2>1. pc'[c] = "done" /\ UNCHANGED row
    BY <1>5 DEF WriteThrough, Return, TypeOK, database
  <2>2. MemoryOf(c)'
    BY <2>1 DEF MemoryOf
  <2> QED BY <1>1, <2>1, <2>2, MemoryKept DEF MemoryInv, AbsentInv
<1> QED BY <1>2, <1>3, <1>4, <1>5 DEF Command

LEMMA RestartOrderInv ==
  ASSUME TypeInv, OrderInv, Restart
  PROVE  OrderInv'
<1>1. UNCHANGED row
  BY DEF Restart, database
<1>2. \A d \in Commands : Running(d)' => pc'[d] = pc[d] /\ draft'[d] = draft[d]
  BY DEF Restart, Running
<1> QED BY <1>1, <1>2 DEF OrderInv, MemoryInv, MemoryOf, AbsentInv, Proceeds, WritesThrough, Running

LEMMA NextOrderInv == TypeInv /\ OrderInv /\ [Next]_vars => OrderInv'
<1> SUFFICES ASSUME TypeInv, OrderInv, [Next]_vars PROVE OrderInv'
  OBVIOUS
<1>1. CASE Worker \/ Tick \/ UNCHANGED vars
  BY <1>1, OrderInvKept DEF Worker, WarmUpQuery, WarmUpApply, StartWorker, QueryDelta, Classify,
     Apply, Tick, vars, commands, database
<1> QED BY <1>1, CommandOrderInv, RestartOrderInv DEF Next

\* The row of rule r was stamped after the last query, or so little before it that the
\* query may have come before its commit.
Recent(r) == row[r].at >= asked - Lag

\* Where each rule is that is not recent: what was fetched is the row, and what was not
\* fetched is in the cache as it should be.
Placed(r) ==
  CASE worker = "cold" -> TRUE
    [] worker = "warming" -> fetched[r] = Current(r)
    [] worker = "warm" -> cache[r] = Current(r)
    [] worker = "idle" -> TRUE
    [] worker = "fetched" -> fetched[r] = row[r] \/ (fetched[r] = None /\ cache[r] = Current(r))
    [] worker = "apply" ->
         CASE r \in removals -> Current(r) = None
           [] r \notin removals /\ r \in upserts -> fetched[r] = Current(r)
           [] OTHER -> cache[r] = Current(r)

ReachInv == (\A r \in Rules : RowIsLatest(r) => Recent(r) \/ Placed(r)) /\ StaleIsInReach

LEMMA InitReachInv == Init => ReachInv
BY DEF Init, ReachInv, Placed, StaleIsInReach

\* A row that is the latest after a step that leaves it was so before.
LEMMA LatestBefore ==
  ASSUME NEW r \in Rules, row'[r] = row[r], versions \subseteq versions', RowIsLatest(r)'
  PROVE  RowIsLatest(r)
BY DEF RowIsLatest

\* A row that is written is recent, and within the overlap buffer.
LEMMA WriteReachInv ==
  ASSUME Timely, TypeInv, TimeInv, ReachInv, NEW c \in Commands, Write(c)
  PROVE  ReachInv'
<1> USE RuleSyncAssumption DEF TypeInv
<1>1. UNCHANGED <<cache, worker, fetched, upserts, removals, asked, lastSync>> /\ pc[c] = "write"
  BY DEF Write, cached, polling
<1>2. /\ draft[c] \in Rows /\ row[Target[c]] \in Rows
      /\ now <= draft[c].at + Lag /\ lastSync <= now /\ asked <= now
  BY <1>1 DEF TypeOK, DraftInv, Running, TimeInv
<1>3. Written(c).at = draft[c].at
  BY <1>2 DEF Written, Rows
<1>4. /\ \A r \in Rules : row'[r] = row[r] \/ row'[r].at = draft[c].at
      /\ versions \subseteq versions'
  BY <1>3 DEF Write, TypeOK, database
<1>5. draft[c].at \in Nat /\ now \in Nat /\ lastSync \in Nat /\ asked \in Nat
  BY <1>2 DEF TypeOK, Rows
<1>6. draft[c].at >= asked - Lag /\ draft[c].at >= lastSync - Overlap
  BY <1>2, <1>5 DEF Timely
<1>7. ASSUME NEW r \in Rules, RowIsLatest(r)' PROVE (Recent(r) \/ Placed(r))'
  <2>1. CASE row'[r] = row[r]
    <3>1. RowIsLatest(r)
      BY <1>4, <1>7, <2>1, LatestBefore
    <3> QED BY <1>1, <2>1, <3>1 DEF ReachInv, Recent, Placed, Current
  <2>2. CASE row'[r].at = draft[c].at
    BY <1>1, <1>6, <2>2 DEF Recent
  <2> QED BY <1>4, <2>1, <2>2
<1>8. ASSUME NEW r \in Rules, ~InStep(r)', worker' \in {"idle", "fetched", "apply"}
      PROVE  row'[r].at >= lastSync' - Overlap
  <2>1. CASE row'[r] = row[r]
    <3>1. RowIsLatest(r)
      BY <1>4, <1>8, <2>1, LatestBefore DEF InStep
    <3>2. ~InStep(r)
      BY <1>1, <1>8, <2>1, <3>1 DEF InStep, Current
    <3> QED BY <1>1, <1>8, <2>1, <3>2 DEF ReachInv, StaleIsInReach
  <2>2. CASE row'[r].at = draft[c].at
    BY <1>1, <1>6, <2>2
  <2> QED BY <1>4, <2>1, <2>2
<1>9. StaleIsInReach'
  BY <1>8 DEF StaleIsInReach
<1> QED BY <1>7, <1>9 DEF ReachInv

\* A write-through puts the row of the rule into the cache, or comes so late that another
\* command has stamped the rule within Lag.
LEMMA WriteThroughReachInv ==
  ASSUME Timely, TypeInv, TimeInv, OrderInv, CacheInv, ReachInv,
         NEW c \in Commands, WriteThrough(c)
  PROVE  ReachInv'
<1> USE RuleSyncAssumption DEF TypeInv
<1>1. UNCHANGED <<row, versions, worker, fetched, upserts, removals, asked, lastSync>> /\ pc[c] = "cache"
  BY DEF WriteThrough, database, polling
<1>2. /\ draft[c] \in Rows /\ <<Target[c], draft[c]>> \in versions
      /\ Op[c] \in {"activate", "deactivate"}
      /\ Op[c] = "activate" => draft[c].status = "ACTIVE"
      /\ Op[c] = "deactivate" => draft[c].status = "INACTIVE"
      /\ now <= draft[c].at + Lag /\ lastSync <= now /\ asked <= now
  BY <1>1 DEF OrderInv, MemoryInv, MemoryOf, WritesThrough, DraftInv, Running, CacheInv, CommittedInv,
              TimeInv
<1>3. ASSUME NEW r \in Rules, RowIsLatest(r)
      PROVE  \/ cache'[r] = cache[r] \/ cache'[r] = Current(r)
             \/ Recent(r) /\ row[r].at >= lastSync - Overlap
  <2>1. CASE r # Target[c]
    BY <2>1 DEF WriteThrough, TypeOK
  <2>2. CASE r = Target[c] /\ draft[c] = row[r]
    BY <1>2, <2>2 DEF WriteThrough, TypeOK, Current
  <2>3. CASE r = Target[c] /\ draft[c] # row[r]
    <3>1. draft[c].at < row[r].at
      BY <1>2, <1>3, <2>3 DEF RowIsLatest
    <3>2. /\ draft[c].at \in Nat /\ row[r].at \in Nat /\ now \in Nat
          /\ asked \in Nat /\ lastSync \in Nat
      BY <1>2 DEF TypeOK, Rows
    <3> QED BY <1>2, <3>1, <3>2 DEF Recent, Timely
  <2> QED BY <2>1, <2>2, <2>3
<1>4. \A r \in Rules : /\ Recent(r)' = Recent(r) /\ Current(r)' = Current(r)
                        /\ RowIsLatest(r)' = RowIsLatest(r)
  BY <1>1 DEF Recent, Current, RowIsLatest
<1>5. ASSUME NEW r \in Rules, RowIsLatest(r), Placed(r) PROVE Recent(r) \/ Placed(r)'
  <2> SUFFICES ASSUME cache'[r] = cache[r] \/ cache'[r] = Current(r) PROVE Placed(r)'
    BY <1>3, <1>5
  <2>1. worker \in WorkerPoints
    BY DEF TypeOK
  <2>2. worker = "warming" => (Placed(r)' <=> Placed(r))
    BY <1>1, <1>4 DEF Placed
  <2>3. worker = "warm" => (Placed(r)' <=> cache'[r] = Current(r)) /\ (Placed(r) <=> cache[r] = Current(r))
    BY <1>1, <1>4 DEF Placed
  <2>4. worker = "fetched" => Placed(r)'
    BY <1>1, <1>4, <1>5 DEF Placed
  <2>5. worker = "apply" => Placed(r)'
    BY <1>1, <1>4, <1>5 DEF Placed
  <2>6. worker \in {"cold", "idle"} => Placed(r)'
    BY <1>1 DEF Placed
  <2> QED BY <1>5, <2>1, <2>2, <2>3, <2>4, <2>5, <2>6 DEF WorkerPoints
<1>6. ASSUME NEW r \in Rules, ~InStep(r)', worker' \in {"idle", "fetched", "apply"}
      PROVE  row'[r].at >= lastSync' - Overlap
  <2>1. RowIsLatest(r) /\ cache'[r] # Current(r)
    BY <1>4, <1>6 DEF InStep
  <2>2. cache'[r] = cache[r] => ~InStep(r)
    BY <2>1 DEF InStep
  <2> QED BY <1>1, <1>3, <1>6, <2>1, <2>2 DEF ReachInv, StaleIsInReach
<1>7. StaleIsInReach'
  BY <1>6 DEF StaleIsInReach
<1> QED BY <1>4, <1>5, <1>7 DEF ReachInv

\* What has no part in it keeps it.
LEMMA ReachInvKept ==
  ASSUME ReachInv,
         UNCHANGED <<row, versions, cache, worker, fetched, upserts, removals, asked, lastSync>>
  PROVE  ReachInv'
BY DEF ReachInv, Recent, Placed, Current, StaleIsInReach, InStep, RowIsLatest

\* A cycle that leaves every rule recent or current ends with all that is stale in reach.
LEMMA EndCycleReach ==
  ASSUME Timely, TypeOK, TimeInv, worker \notin {"cold", "idle"},
         row' = row, versions' = versions, asked' = asked,
         worker' = "idle", lastSync' \in Nat, lastSync' <= now,
         \A r \in Rules : RowIsLatest(r) => Recent(r) \/ cache'[r] = Current(r)
  PROVE  ReachInv'
<1>1. now <= asked + Cycle
  BY DEF TimeInv
<1>2. ASSUME NEW r \in Rules, ~InStep(r)' PROVE row'[r].at >= lastSync' - Overlap
  <2>1. RowIsLatest(r) /\ cache'[r] # Current(r)
    BY <1>2 DEF InStep, RowIsLatest, Current
  <2>2. row[r].at >= asked - Lag
    BY <2>1 DEF Recent
  <2>3. row[r].at \in Nat /\ asked \in Nat /\ now \in Nat
    BY DEF TypeOK, Rows
  <2> QED BY <1>1, <2>2, <2>3, RuleSyncAssumption DEF Timely
<1>3. StaleIsInReach'
  BY <1>2 DEF StaleIsInReach
<1>4. \A r \in Rules : Placed(r)'
  BY DEF Placed
<1> QED BY <1>3, <1>4 DEF ReachInv

\* A copy in the cache is the row, or older than it, if no row was stamped later.
LEMMA CopyIsCurrent ==
  ASSUME TypeInv, OrderInv, CacheInv, NEW r \in Rules, RowIsLatest(r), cache[r] # None
  PROVE  /\ row[r].status # "ABSENT"
         /\ row[r].at <= cache[r].at => cache[r] = row[r]
<1>1. cache[r] \in Rows /\ row[r] \in Rows
  BY DEF TypeInv, TypeOK
<1>2. <<r, cache[r]>> \in versions /\ cache[r].status = "ACTIVE"
  BY DEF CacheInv, CacheWasCommitted
<1>3. cache[r] = row[r] \/ cache[r].at < row[r].at
  BY <1>2 DEF RowIsLatest
<1>4. cache[r].at \in Nat /\ row[r].at \in Nat
  BY <1>1 DEF Rows
<1>5. row[r].status = "ABSENT" => row[r].at = 0
  BY DEF OrderInv, AbsentInv
<1> QED BY <1>2, <1>3, <1>4, <1>5

LEMMA QueryReachInv ==
  ASSUME TypeInv, OrderInv, CacheInv, ReachInv, QueryDelta
  PROVE  ReachInv'
<1>1. UNCHANGED <<row, versions, cache, lastSync>> /\ worker = "idle" /\ worker' = "fetched"
  BY DEF QueryDelta, database, cached
<1>2. ASSUME NEW r \in Rules, RowIsLatest(r)
      PROVE  fetched'[r] = row[r] \/ (fetched'[r] = None /\ cache[r] = Current(r))
  <2>1. fetched'[r] = IF row[r].status # "ABSENT" /\ row[r].at >= Since THEN row[r] ELSE None
    BY DEF QueryDelta
  <2>2. CASE row[r].status = "ABSENT"
    <3>1. cache[r] = None
      BY <1>2, <2>2, CopyIsCurrent
    <3> QED BY <2>1, <2>2, <3>1 DEF Current
  <2>3. CASE ~(row[r].at >= Since)
    BY <1>1, <1>2, <2>1, <2>3 DEF ReachInv, StaleIsInReach, Since, InStep
  <2> QED BY <2>1, <2>2, <2>3
<1>3. \A r \in Rules : RowIsLatest(r)' => Placed(r)'
  BY <1>1, <1>2 DEF Placed, Current, RowIsLatest
<1>4. StaleIsInReach'
  BY <1>1 DEF ReachInv, StaleIsInReach, Current, InStep, RowIsLatest
<1> QED BY <1>3, <1>4 DEF ReachInv

\* What ClassifyChanges leaves out is in the cache as it should be.
LEMMA Classified ==
  ASSUME TypeInv, OrderInv, CacheInv, worker = "fetched",
         NEW r \in Rules, RowIsLatest(r), Placed(r)
  PROVE  /\ r \in Removed => Current(r) = None
         /\ r \notin Removed /\ r \in Upserted => fetched[r] = Current(r)
         /\ r \notin Removed /\ r \notin Upserted => cache[r] = Current(r)
<1>1. row[r] # None
  BY NoneIsNoRow DEF TypeInv, TypeOK
<1>2. CASE fetched[r] = row[r]
  <2>1. r \in Fetched
    BY <1>1, <1>2 DEF Fetched
  <2>2. CASE row[r].status = "ACTIVE"
    <3>1. r \notin Removed /\ Current(r) = row[r]
      BY <1>2, <2>2 DEF Removed, Current
    <3>2. ASSUME r \notin Upserted PROVE cache[r] = row[r]
      <4>1. cache[r] # None /\ ~(fetched[r].at > cache[r].at)
        BY <1>2, <2>1, <2>2, <3>2 DEF Upserted
      <4>2. row[r].at \in Nat /\ cache[r].at \in Nat
        BY <4>1 DEF TypeInv, TypeOK, Rows
      <4>3. row[r].at <= cache[r].at
        BY <1>2, <4>1, <4>2
      <4> QED BY <4>1, <4>3, CopyIsCurrent
    <3> QED BY <1>2, <3>1, <3>2
  <2>3. CASE row[r].status # "ACTIVE"
    <3>1. Current(r) = None /\ r \notin Upserted
      BY <1>2, <2>3 DEF Upserted, Current
    <3>2. r \notin Removed => cache[r] = None
      BY <1>2, <2>1, <2>3 DEF Removed
    <3> QED BY <3>1, <3>2
  <2> QED BY <2>2, <2>3
<1>3. CASE fetched[r] = None /\ cache[r] = Current(r)
  BY <1>3 DEF Removed, Upserted, Fetched
<1> QED BY <1>2, <1>3 DEF Placed

LEMMA ClassifyReachInv ==
  ASSUME Timely, TypeInv, TimeInv, OrderInv, CacheInv, ReachInv, Classify
  PROVE  ReachInv'
<1>1. UNCHANGED <<row, versions, cache>> /\ worker = "fetched"
  BY DEF Classify, database
<1>2. CASE Upserted \cup Removed = {}
  <2>1. EndCycle
    BY <1>2 DEF Classify
  <2>2. \A r \in Rules : RowIsLatest(r) => Recent(r) \/ cache'[r] = Current(r)
    BY <1>1, <1>2, Classified DEF ReachInv
  <2>3. lastSync' \in Nat /\ lastSync' <= now /\ worker' = "idle" /\ asked' = asked
    BY <2>1, EndCycleType, EndCycleTime DEF TypeInv
  <2> QED BY <1>1, <2>2, <2>3, EndCycleReach DEF TypeInv
<1>3. CASE Upserted \cup Removed # {}
  <2>1. /\ worker' = "apply" /\ upserts' = Upserted /\ removals' = Removed
        /\ UNCHANGED <<fetched, asked, lastSync>>
    BY <1>3 DEF Classify
  <2>2. \A r \in Rules : /\ Recent(r)' = Recent(r) /\ Current(r)' = Current(r)
                          /\ RowIsLatest(r)' = RowIsLatest(r)
    BY <1>1, <2>1 DEF Recent, Current, RowIsLatest
  <2>3. ASSUME NEW r \in Rules, RowIsLatest(r), Placed(r) PROVE Placed(r)'
    <3>1. /\ r \in removals' => Current(r)' = None
          /\ r \notin removals' /\ r \in upserts' => fetched'[r] = Current(r)'
          /\ r \notin removals' /\ r \notin upserts' => cache'[r] = Current(r)'
      BY <1>1, <2>1, <2>2, <2>3, Classified
    <3> QED BY <2>1, <3>1 DEF Placed
  <2>4. StaleIsInReach'
    BY <1>1, <2>1, <2>2 DEF ReachInv, StaleIsInReach, InStep
  <2> QED BY <2>2, <2>3, <2>4 DEF ReachInv
<1> QED BY <1>2, <1>3

LEMMA ApplyReachInv ==
  ASSUME Timely, TypeInv, TimeInv, ReachInv, Apply
  PROVE  ReachInv'
<1>1. row' = row /\ versions' = versions /\ worker = "apply" /\ EndCycle
  BY DEF Apply, database
<1>2. \A r \in Rules : RowIsLatest(r) => Recent(r) \/ cache'[r] = Current(r)
  <2> SUFFICES ASSUME NEW r \in Rules, Placed(r) PROVE cache'[r] = Current(r)
    BY DEF ReachInv
  <2>1. cache'[r] = IF r \in removals THEN None ELSE IF r \in upserts THEN fetched[r] ELSE cache[r]
    BY DEF Apply
  <2>2. CASE r \in removals
    BY <1>1, <2>1, <2>2 DEF Placed
  <2>3. CASE r \notin removals /\ r \in upserts
    BY <1>1, <2>1, <2>3 DEF Placed
  <2>4. CASE r \notin removals /\ r \notin upserts
    BY <1>1, <2>1, <2>4 DEF Placed
  <2> QED BY <2>2, <2>3, <2>4
<1>3. lastSync' \in Nat /\ lastSync' <= now /\ worker' = "idle" /\ asked' = asked
  BY <1>1, EndCycleType, EndCycleTime DEF TypeInv
<1> QED BY <1>1, <1>2, <1>3, EndCycleReach DEF TypeInv

LEMMA StartReachInv ==
  ASSUME Timely, TypeInv, TimeInv, ReachInv, WarmUpQuery \/ WarmUpApply \/ StartWorker
  PROVE  ReachInv'
<1>1. row' = row /\ versions' = versions
  BY DEF WarmUpQuery, WarmUpApply, StartWorker, database
<1>2. CASE WarmUpQuery
  <2>1. worker' = "warming" /\ \A r \in Rules : fetched'[r] = Current(r)'
    BY <1>1, <1>2 DEF WarmUpQuery, Current
  <2> QED BY <2>1 DEF ReachInv, Placed, StaleIsInReach
<1>3. CASE WarmUpApply
  <2>1. worker = "warming" /\ worker' = "warm" /\ cache' = fetched /\ asked' = asked
    BY <1>3 DEF WarmUpApply
  <2>2. \A r \in Rules : /\ Recent(r)' = Recent(r) /\ Current(r)' = Current(r)
                          /\ RowIsLatest(r)' = RowIsLatest(r)
    BY <1>1, <2>1 DEF Recent, Current, RowIsLatest
  <2>3. \A r \in Rules : Placed(r) => Placed(r)'
    BY <2>1, <2>2 DEF Placed
  <2>4. StaleIsInReach'
    BY <2>1 DEF StaleIsInReach
  <2> QED BY <2>2, <2>3, <2>4 DEF ReachInv
<1>4. CASE StartWorker
  <2>1. /\ worker = "warm" /\ worker' = "idle" /\ lastSync' = touched
        /\ cache' = cache /\ asked' = asked
    BY <1>4 DEF StartWorker, cached
  <2>2. \A r \in Rules : RowIsLatest(r) => Recent(r) \/ cache'[r] = Current(r)
    BY <2>1 DEF ReachInv, Placed
  <2>3. lastSync' \in Nat /\ lastSync' <= now
    BY <2>1 DEF TypeInv, TypeOK, TimeInv
  <2> QED BY <1>1, <2>1, <2>2, <2>3, EndCycleReach DEF TypeInv
<1> QED BY <1>2, <1>3, <1>4

\* All that the last theorem rests on.
SyncInv == Timely /\ TypeInv /\ CacheInv /\ TimeInv /\ OrderInv /\ ReachInv

LEMMA NextReachInv == SyncInv /\ [Next]_vars => ReachInv'
<1> SUFFICES ASSUME SyncInv, [Next]_vars PROVE ReachInv'
  OBVIOUS
<1> USE DEF SyncInv
<1>1. ASSUME NEW c \in Commands, Read(c) \/ Stamp(c) PROVE ReachInv'
  BY <1>1, ReachInvKept DEF Read, Stamp, database, cached, polling
<1>2. ASSUME NEW c \in Commands, Command(c) PROVE ReachInv'
  BY <1>1, <1>2, WriteReachInv, WriteThroughReachInv DEF Command
<1>3. CASE Worker
  BY <1>3, StartReachInv, QueryReachInv, ClassifyReachInv, ApplyReachInv DEF Worker
<1>4. CASE Restart
  BY <1>4 DEF Restart, ReachInv, Placed, StaleIsInReach
<1>5. CASE Tick \/ UNCHANGED vars
  BY <1>5, ReachInvKept DEF Tick, vars, database, cached, polling
<1> QED BY <1>2, <1>3, <1>4, <1>5 DEF Next

LEMMA InitSyncInv == Timely /\ Init => SyncInv
BY InitTypeInv, InitCacheInv, InitTimeInv, InitOrderInv, InitReachInv DEF SyncInv

LEMMA NextSyncInv == SyncInv /\ [Next]_vars => SyncInv'
<1> SUFFICES ASSUME SyncInv, [Next]_vars PROVE SyncInv'
  OBVIOUS
<1>1. Timely'
  BY DEF SyncInv, Timely
<1>2. TypeInv' /\ CacheInv' /\ TimeInv'
  BY NextTypeInv, NextCacheInv, NextTimeInv DEF SyncInv
<1>3. OrderInv'
  BY NextOrderInv DEF SyncInv
<1> QED BY <1>1, <1>2, <1>3, NextReachInv DEF SyncInv

\* Whatever the cache has not seen can be fetched by the next poll, for any number of rules
\* and overlapping commands, write-throughs however late, warm-ups and restarts, when the
\* overlap buffer covers the time from the stamp of a row to the end of its command and the
\* time of a poll.
THEOREM ReachHolds == Timely /\ Spec => []StaleIsInReach
<1>1. SyncInv => StaleIsInReach
  BY DEF SyncInv, ReachInv
<1> QED BY <1>1, InitSyncInv, NextSyncInv, PTL DEF Spec

\* The rules that are not recent when a poll ends are in the cache as they should be.
LEMMA EndOfPollRepairs ==
  ASSUME SyncInv, Next, EndOfPoll, NEW r \in Rules, row'[r].at < asked - Lag
  PROVE  InStep(r)'
<1> USE DEF SyncInv, EndOfPoll
<1>1. (Classify /\ Upserted \cup Removed = {}) \/ Apply
  BY DEF Next, Command, Read, Stamp, Write, WriteThrough, Worker, WarmUpQuery, WarmUpApply,
     StartWorker, QueryDelta, Classify, Restart, Tick, polling
<1>2. row' = row /\ versions' = versions
  BY <1>1 DEF Classify, Apply, database
<1> SUFFICES ASSUME RowIsLatest(r) PROVE cache'[r] = Current(r)
  BY <1>2 DEF InStep, RowIsLatest, Current
<1>3. Placed(r)
  <2>1. row[r].at \in Nat /\ asked \in Nat /\ Lag \in Nat
    BY RuleSyncAssumption DEF TypeInv, TypeOK, Rows
  <2> QED BY <1>2, <2>1 DEF ReachInv, Recent
<1>4. CASE Classify /\ Upserted \cup Removed = {}
  <2>1. cache' = cache /\ worker = "fetched"
    BY <1>4 DEF Classify
  <2> QED BY <1>3, <1>4, <2>1, Classified
<1>5. CASE Apply
  <2>1. /\ worker = "apply"
        /\ cache'[r] = IF r \in removals THEN None
                       ELSE IF r \in upserts THEN fetched[r] ELSE cache[r]
    BY <1>5 DEF Apply
  <2> QED BY <1>3, <2>1 DEF Placed
<1> QED BY <1>1, <1>4, <1>5

\* One poll brings the cache up to the table, but for the rules that were changed within Lag
\* of its query, under the conditions of ReachHolds: what a write-through put there after
\* another instance had changed the rule is gone.
THEOREM RepairHolds == Timely /\ Spec => PollRepairs
<1>1. SyncInv /\ [Next]_vars =>
        [EndOfPoll => \A r \in Rules : row'[r].at < asked - Lag => InStep(r)']_vars
  <2> SUFFICES ASSUME SyncInv, Next, EndOfPoll, NEW r \in Rules, row'[r].at < asked - Lag
               PROVE  InStep(r)'
    OBVIOUS
  <2> QED BY EndOfPollRepairs
<1> QED BY <1>1, InitSyncInv, NextSyncInv, PTL DEF Spec, PollRepairs
=============================================================================
