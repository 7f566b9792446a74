------------------------------ MODULE RuleSync ------------------------------
(***************************************************************************)
(* The rules of one instance of the service: the rules table, the rule     *)
(* commands that change it, the in-memory RuleCache that every validation  *)
(* reads, its warm-up, and the RuleSyncWorker that polls the table.        *)
(*                                                                         *)
(* A command is one HTTP request.  The commands of Local run in this       *)
(* instance and write through to its cache; the others run in another      *)
(* instance, and only the poll brings their changes here.  A command reads *)
(* the rule, stamps it with the clock and writes the whole row, in three   *)
(* statements without a transaction.                                       *)
(*                                                                         *)
(* Lag and Cycle are assumptions about time: a command ends within Lag     *)
(* ticks of the clock reading it stamps, and a poll, or the warm-up        *)
(* together with the start of the worker, within Cycle ticks of its query. *)
(***************************************************************************)
EXTENDS Integers

CONSTANTS
  Rules,        \* rules
  Commands,     \* rule commands
  Op,           \* Op[c]: what command c does
  Target,       \* Target[c]: the rule of command c
  Local,        \* the commands this instance runs
  Overlap,      \* RuleSyncWorkerConfig.OverlapBuffer, in ticks
  Lag,          \* ticks from the stamp of a command to its end, at most
  Cycle,        \* ticks from the query of a poll to its end, at most
  MaxTime,      \* bound: the last tick of the clock
  MaxRestarts,  \* bound: restarts of this instance
  None          \* no rule in the cache; the body of a rule nobody changed

Ops == {"create", "activate", "deactivate", "draft", "delete", "edit", "editExpression"}
Statuses == {"ABSENT", "DRAFT", "ACTIVE", "INACTIVE", "DELETED"}

ASSUME RuleSyncAssumption ==
  /\ Op \in [Commands -> Ops]
  /\ Target \in [Commands -> Rules]
  /\ Local \subseteq Commands
  /\ Overlap \in Nat /\ Lag \in Nat /\ Cycle \in Nat
  /\ MaxTime \in Nat /\ MaxRestarts \in Nat
  /\ None \notin Commands

\* A row of rules: status, updated_at, and the command that last set the other
\* columns (expression, action, scopes).
Rows == [status : Statuses, at : Nat, body : Commands \cup {None}]

ASSUME NoneIsNoRow == None \notin Rows

VARIABLES
  row,          \* the rules table
  cache,        \* RuleCache.rules
  ready,        \* RuleCache.ready
  touched,      \* RuleCache.lastSyncTime
  pc,           \* pc[c]: the statement command c is about to send
  draft,        \* draft[c]: the rule in the memory of command c
  worker,       \* what the instance and its RuleSyncWorker are doing
  fetched,      \* fetched[r]: the row the last query returned, None if it did not
  upserts,      \* the rules ClassifyChanges found new or updated
  removals,     \* the rules ClassifyChanges found deleted
  asked,        \* when the last query was sent
  lastSync,     \* RuleSyncWorker.lastSync
  now,          \* the clock
  restarts,     \* restarts so far
  versions      \* history: every row that was ever committed

database == <<row, versions>>
cached == <<cache, ready, touched>>
commands == <<pc, draft>>
polling == <<worker, fetched, upserts, removals, asked, lastSync>>
vars == <<row, cache, ready, touched, pc, draft, worker, fetched, upserts, removals,
          asked, lastSync, now, restarts, versions>>

\* idle   not called       read   after GetByID        write  stamped, before Update
\* cache  before UpsertRule or RemoveRule              done   returned
CommandPoints == {"idle", "read", "write", "cache", "done"}

\* cold     before WarmUp            warming  after GetAllActiveRules
\* warm     cache ready, runLoop not begun
\* idle     runLoop waits for the ticker
\* fetched  after GetRulesUpdatedSince
\* apply    after ClassifyChanges, before ApplyChanges
WorkerPoints == {"cold", "warming", "warm", "idle", "fetched", "apply"}

\* This instance serves requests.
Serving == worker \notin {"cold", "warming"}

\* Every variable has its type, and the cache is ready exactly while the instance
\* serves requests (the order of WarmUp and the HTTP server at start-up).
TypeOK ==
  /\ row \in [Rules -> Rows]
  /\ cache \in [Rules -> Rows \cup {None}]
  /\ ready = Serving
  /\ touched \in Nat
  /\ pc \in [Commands -> CommandPoints]
  /\ draft \in [Commands -> Rows \cup {None}]
  /\ worker \in WorkerPoints
  /\ fetched \in [Rules -> Rows \cup {None}]
  /\ upserts \subseteq Rules /\ removals \subseteq Rules
  /\ asked \in Nat /\ lastSync \in Nat /\ now \in Nat /\ restarts \in Nat
  /\ versions \subseteq Rules \X Rows

NoRow == [r \in Rules |-> None]

Init ==
  /\ row \in [Rules -> [status : Statuses \ {"DELETED"}, at : {0}, body : {None}]]
  /\ versions = {<<r, row[r]>> : r \in Rules}
  /\ cache = NoRow /\ ready = FALSE /\ touched = 0
  /\ pc = [c \in Commands |-> "idle"]
  /\ draft = [c \in Commands |-> None]
  /\ worker = "cold" /\ fetched = NoRow /\ upserts = {} /\ removals = {}
  /\ asked = 0 /\ lastSync = 0 /\ now = 0 /\ restarts = 0
-----------------------------------------------------------------------------
(* The rule commands.                                                      *)

\* validTransitions.
CanTransitionTo(from, to) ==
  <<from, to>> \in {<<"DRAFT", "ACTIVE">>, <<"DRAFT", "DELETED">>, <<"ACTIVE", "INACTIVE">>,
                    <<"INACTIVE", "DRAFT">>, <<"INACTIVE", "ACTIVE">>, <<"INACTIVE", "DELETED">>}

\* The status a command gives to a rule it read with status s.
NewStatus(c, s) ==
  CASE Op[c] = "create" -> "DRAFT"
    [] Op[c] = "activate" -> "ACTIVE"
    [] Op[c] = "deactivate" -> "INACTIVE"
    [] Op[c] = "draft" -> "DRAFT"
    [] Op[c] = "delete" -> "DELETED"
    [] OTHER -> s

\* What the commands demand of the status s of the rule they read.  Otherwise they
\* return: not found, a no-op on the same status, an invalid transition, or an
\* expression that is not modifiable.  A new rule has an id of its own.
CreateRule(s) == s = "ABSENT"
UpdateRule(s) == s \notin {"ABSENT", "DELETED"}
UpdateExpression(s) == s = "DRAFT"
ActivateRule(s) == CanTransitionTo(s, "ACTIVE")
DeactivateRule(s) == CanTransitionTo(s, "INACTIVE")
DraftRule(s) == CanTransitionTo(s, "DRAFT")
DeleteRule(s) == CanTransitionTo(s, "DELETED")

Proceeds(c, s) ==
  CASE Op[c] = "create" -> CreateRule(s)
    [] Op[c] = "edit" -> UpdateRule(s)
    [] Op[c] = "editExpression" -> UpdateExpression(s)
    [] Op[c] = "activate" -> ActivateRule(s)
    [] Op[c] = "deactivate" -> DeactivateRule(s)
    [] Op[c] = "draft" -> DraftRule(s)
    [] Op[c] = "delete" -> DeleteRule(s)

\* The command is between its first and its last statement.
Running(c) == pc[c] \in {"read", "write", "cache"}

\* The command returns, and its rule in memory is gone.
Return(c) ==
  /\ pc' = [pc EXCEPT ![c] = "done"]
  /\ draft' = [draft EXCEPT ![c] = None]

\* GetByID, and the checks on what it returned.
Read(c) ==
  /\ pc[c] = "idle"
  /\ c \in Local => Serving
  /\ LET seen == row[Target[c]] IN
       IF Proceeds(c, seen.status)
         THEN /\ pc' = [pc EXCEPT ![c] = "read"]
              /\ draft' = [draft EXCEPT ![c] = seen]
         ELSE Return(c)
  /\ UNCHANGED <<database, cached, polling, now, restarts>>

\* SetStatus, Update and SetAction of the rule in memory, Delete and NewRule: the
\* change and the time stamp.  The clock is finer than a round trip, so a stamp is
\* later than the one the command read; what others committed meanwhile may be later.
Stamp(c) ==
  /\ pc[c] = "read"
  /\ now > draft[c].at
  /\ pc' = [pc EXCEPT ![c] = "write"]
  /\ draft' = [draft EXCEPT ![c] =
       [status |-> NewStatus(c, @.status),
        at |-> now,
        body |-> IF Op[c] \in {"create", "edit", "editExpression"} THEN c ELSE @.body]]
  /\ UNCHANGED <<database, cached, polling, now, restarts>>

\* The row after the statement of command c: Update writes every column from
\* memory, Delete only the status and the time stamps.
Written(c) ==
  LET stored == row[Target[c]] IN
    IF Op[c] = "delete"
      THEN [stored EXCEPT !.status = "DELETED", !.at = draft[c].at]
      ELSE draft[c]

\* Whether the command writes through to the cache of this instance.
WritesThrough(c) == c \in Local /\ Op[c] \in {"activate", "deactivate"}

\* The statement succeeded: the write-through is next, if there is one.
AfterWrite(c) ==
  IF WritesThrough(c)
    THEN pc' = [pc EXCEPT ![c] = "cache"] /\ UNCHANGED draft
    ELSE Return(c)

\* Mutant of Write: an error of Update is logged and the command goes on.
WriteErrorIgnored(c) ==
  /\ pc[c] = "write"
  /\ \/ /\ row[Target[c]].status # "DELETED"
        /\ row' = [row EXCEPT ![Target[c]] = Written(c)]
        /\ versions' = versions \cup {<<Target[c], Written(c)>>}
     \/ UNCHANGED database
  /\ AfterWrite(c)
  /\ UNCHANGED <<cached, polling, now, restarts>>

\* Mutant of Write: the statement does not look at deleted_at.
WriteDeleted(c) ==
  /\ pc[c] = "write"
  /\ \/ /\ row' = [row EXCEPT ![Target[c]] = Written(c)]
        /\ versions' = versions \cup {<<Target[c], Written(c)>>}
        /\ AfterWrite(c)
     \/ /\ Return(c)
        /\ UNCHANGED database
  /\ UNCHANGED <<cached, polling, now, restarts>>

\* Update or Delete WHERE deleted_at IS NULL, or Create.  A statement that affects
\* no row, or fails, ends the command.
Write(c) ==
  /\ pc[c] = "write"
  /\ \/ /\ row[Target[c]].status # "DELETED"
        /\ row' = [row EXCEPT ![Target[c]] = Written(c)]
        /\ versions' = versions \cup {<<Target[c], Written(c)>>}
        /\ AfterWrite(c)
     \/ /\ Return(c)
        /\ UNCHANGED database
  /\ UNCHANGED <<cached, polling, now, restarts>>

\* UpsertRule after activate, RemoveRule after deactivate.
WriteThrough(c) ==
  /\ pc[c] = "cache"
  /\ cache' = [cache EXCEPT ![Target[c]] = IF Op[c] = "activate" THEN draft[c] ELSE None]
  /\ touched' = now
  /\ Return(c)
  /\ UNCHANGED <<database, ready, polling, now, restarts>>

-----------------------------------------------------------------------------
(* Warm-up and start.                                                      *)

\* GetAllActiveRules.
WarmUpQuery ==
  /\ worker = "cold"
  /\ worker' = "warming"
  /\ fetched' = [r \in Rules |-> IF row[r].status = "ACTIVE" THEN row[r] ELSE None]
  /\ asked' = now
  /\ UNCHANGED <<database, cached, commands, upserts, removals, lastSync, now, restarts>>

\* SetRules and MarkReady.
WarmUpApply ==
  /\ worker = "warming"
  /\ worker' = "warm"
  /\ cache' = fetched
  /\ ready' = TRUE
  /\ touched' = now
  /\ fetched' = NoRow
  /\ UNCHANGED <<database, commands, upserts, removals, asked, lastSync, now, restarts>>

\* runLoop begins with the timestamp of the cache.
StartWorker ==
  /\ worker = "warm"
  /\ worker' = "idle"
  /\ lastSync' = touched
  /\ UNCHANGED <<database, cached, commands, fetched, upserts, removals, asked, now, restarts>>

\* The process stops and starts again: the cache is empty, and the commands it was
\* running end where they are.
Restart ==
  /\ restarts < MaxRestarts
  /\ Serving
  /\ restarts' = restarts + 1
  /\ cache' = NoRow /\ ready' = FALSE /\ touched' = 0
  /\ worker' = "cold" /\ fetched' = NoRow /\ upserts' = {} /\ removals' = {}
  /\ asked' = 0 /\ lastSync' = 0
  /\ pc' = [c \in Commands |-> IF c \in Local /\ Running(c) THEN "done" ELSE pc[c]]
  /\ draft' = [c \in Commands |-> IF c \in Local THEN None ELSE draft[c]]
  /\ UNCHANGED <<database, now>>
-----------------------------------------------------------------------------
(* runSyncCycle.                                                           *)

\* Mutant of Since: no overlap.
SinceNoOverlap == lastSync

\* The time from which the worker asks for changes.
Since == lastSync - Overlap

\* The ticker fires and GetRulesUpdatedSince returns.  A query that fails, or that
\* the circuit breaker rejects, changes nothing.
QueryDelta ==
  /\ worker = "idle"
  /\ worker' = "fetched"
  /\ fetched' = [r \in Rules |-> IF row[r].status # "ABSENT" /\ row[r].at >= Since
                                   THEN row[r] ELSE None]
  /\ asked' = now
  /\ UNCHANGED <<database, cached, commands, upserts, removals, lastSync, now, restarts>>

\* The rules that the query returned.
Fetched == {r \in Rules : fetched[r] # None}

\* Mutant of Upserted: a rule that is in the cache is not replaced.
UpsertedNew == {r \in Fetched : fetched[r].status = "ACTIVE" /\ cache[r] = None}

\* ClassifyChanges: new rules, and rules whose copy in the cache is older.
Upserted ==
  {r \in Fetched : fetched[r].status = "ACTIVE" /\ (cache[r] = None \/ fetched[r].at > cache[r].at)}

\* Mutant of Removed: a rule that is only inactive stays in the cache.
RemovedDeleted == {r \in Fetched : fetched[r].status = "DELETED" /\ cache[r] # None}

\* ClassifyChanges: rules in the cache that are not active any more.
Removed == {r \in Fetched : fetched[r].status # "ACTIVE" /\ cache[r] # None}

\* The time stamps updateLastSync looks at.
Stamps == {lastSync} \cup {fetched[r].at : r \in Fetched}

\* updateLastSync, and the branch for an empty result: to the latest stamp, or to the
\* clock when no stamp is later than lastSync.
UpdateLastSync ==
  \E latest \in Stamps :
    /\ \A t \in Stamps : t <= latest
    /\ lastSync' = IF latest = lastSync THEN now ELSE latest

\* The cycle ends: the staleness of the cache is reset and lastSync moves.
EndCycle ==
  /\ worker' = "idle"
  /\ touched' = now
  /\ UpdateLastSync
  /\ fetched' = NoRow /\ upserts' = {} /\ removals' = {}
  /\ UNCHANGED asked

\* ClassifyChanges on a copy of the cache; nothing to apply ends the cycle.
Classify ==
  /\ worker = "fetched"
  /\ IF Upserted \cup Removed = {}
       THEN EndCycle
       ELSE /\ worker' = "apply"
            /\ upserts' = Upserted
            /\ removals' = Removed
            /\ UNCHANGED <<touched, fetched, asked, lastSync>>
  /\ UNCHANGED <<database, cache, ready, commands, now, restarts>>

\* ApplyChanges with what was fetched, whatever the cache has become meanwhile.
Apply ==
  /\ worker = "apply"
  /\ cache' = [r \in Rules |-> IF r \in removals THEN None
                               ELSE IF r \in upserts THEN fetched[r] ELSE cache[r]]
  /\ EndCycle
  /\ UNCHANGED <<database, ready, commands, now, restarts>>

-----------------------------------------------------------------------------
\* The clock moves on, as far as Lag and Cycle allow.
Tick ==
  /\ now < MaxTime
  /\ \A c \in Commands : pc[c] \in {"write", "cache"} => now < draft[c].at + Lag
  /\ worker \notin {"cold", "idle"} => now < asked + Cycle
  /\ now' = now + 1
  /\ UNCHANGED <<database, cached, commands, polling, restarts>>

Command(c) == Read(c) \/ Stamp(c) \/ Write(c) \/ WriteThrough(c)

Worker == WarmUpQuery \/ WarmUpApply \/ StartWorker \/ QueryDelta \/ Classify \/ Apply

Next ==
  \/ \E c \in Commands : Command(c)
  \/ Worker
  \/ Restart
  \/ Tick

Spec == Init /\ [][Next]_vars

\* The worker goes on polling, and its polls succeed again and again; the process
\* goes on when it can.
FairSpec == Spec /\ WF_vars(Worker)
-----------------------------------------------------------------------------
(* Properties.                                                             *)

\* What the cache should hold of rule r.
Current(r) == IF row[r].status = "ACTIVE" THEN row[r] ELSE None

\* No row of rule r that was ever committed is stamped like the row of the table or later.
\* Two commands that overlap can commit in the order opposite to their stamps, and then a
\* newer copy in the cache hides the row of the table from ClassifyChanges.
RowIsLatest(r) == \A v \in versions : v[1] = r /\ v[2] # row[r] => v[2].at < row[r].at

\* The cache holds of rule r what the table says.
InStep(r) == RowIsLatest(r) => cache[r] = Current(r)

\* Whenever the cache differs from the table, the change it has not seen is recent
\* enough for the next poll to fetch it: no interleaving of commands, warm-up and polls,
\* and no write-through that comes after another instance's commit on the same rule, puts
\* a change out of the reach of the overlap buffer (runSyncCycle, updateLastSync,
\* OverlapBuffer).
StaleIsInReach ==
  worker \in {"idle", "fetched", "apply"} =>
    \A r \in Rules : ~InStep(r) => row[r].at >= lastSync - Overlap

\* A poll that comes to its end.
EndOfPoll == worker \in {"fetched", "apply"} /\ worker' = "idle"

\* One poll is enough: when it ends, every rule that was last stamped more than Lag before
\* its query is in the cache as it is in the table, whatever write-throughs (late ones
\* too), polls and restarts did to the cache before and during the poll (runSyncCycle,
\* ClassifyChanges, ApplyChanges).
PollRepairs ==
  [][EndOfPoll => \A r \in Rules : row'[r].at < asked - Lag => InStep(r)']_vars

\* Every rule in the cache is an active row that was committed: a command whose
\* statement failed never decides a transaction (the order of Update and UpsertRule).
CacheWasCommitted ==
  \A r \in Rules : cache[r] # None => cache[r].status = "ACTIVE" /\ <<r, cache[r]>> \in versions

\* A deleted rule stays deleted, whatever the commands that read it before go on to
\* write (WHERE deleted_at IS NULL).
DeletedIsFinal ==
  [][\A r \in Rules : row[r].status = "DELETED" => row'[r] = row[r]]_vars

\* The cache decides by a copy of active rule r that is stamped like its row or later: the row
\* was stamped before the copy and committed after it, and ClassifyChanges ignores it.
HeldBack(r) == row[r].status = "ACTIVE" /\ cache[r] # None /\ row[r].at <= cache[r].at

\* Once the commands have ended the cache comes to agree with the table for good: the
\* RuleSyncWorker repairs whatever late write-throughs, the warm-up and commands that overlap
\* left, and of all of it only a row that is HeldBack stays.  A rule that is not active
\* leaves the cache in whatever order its changes were stamped and committed.
CacheConverges == <>[](\A r \in Rules : cache[r] = Current(r) \/ HeldBack(r))
=============================================================================
