------------------------------ MODULE Instance ------------------------------
(***************************************************************************)
(* The life of an instance of the service: InitServers with its checks of  *)
(* the configuration, the function migrations that instances run one at a  *)
(* time, the warm-up of the rule cache, and then the polls of the rule     *)
(* sync worker behind their circuit breaker, and the readiness probe.      *)
(* RuleSync has what a poll fetches and how it is applied; here a poll     *)
(* succeeds while the database answers.                                    *)
(*                                                                         *)
(* Time is counted in ticks, by ages and countdowns that stop at a cap, so *)
(* that an instance may run for ever.  A poll takes no time and the ticker *)
(* of the worker is on time.                                               *)
(***************************************************************************)
EXTENDS Integers, Sequences, FiniteSets

CONSTANTS
  Instances,
  Configs,                 \* Configs[i]: the environments instance i may be started with
  Files,                   \* Files[i]: the versions of the function migrations in its release
  FailureThresh,           \* failures in a row that open the circuit breaker
  OpenTimeout,             \* ticks it stays open
  CacheStalenessThreshold, \* ticks the readiness probe tolerates
  MaxOutage,               \* bound: ticks an outage of the database lasts
  MaxSteady,               \* cap of steady, above all the times it is compared with
  None, Garbage, Invalid   \* a setting that is unset, no number, or rejected

\* A setting as the environment has it.
Settings == Int \cup {None, Garbage}

\* Config, as far as InitServers looks at it.
Config ==
  [apiKeyEnabled : BOOLEAN, apiKey : BOOLEAN, pluginEnabled : BOOLEAN, pluginAddress : BOOLEAN,
   celCostLimit : Settings, defaultDecision : {"ALLOW", "DENY", "REVIEW", None},
   maxRules : Settings, poll : Settings, staleness : Settings, overlap : Settings,
   cleanup : BOOLEAN, cleanupHours : Settings]

ASSUME InstanceAssumption ==
  /\ DOMAIN Configs = Instances
  /\ \A i \in Instances : Configs[i] \subseteq Config
  /\ Files \in [Instances -> SUBSET (Nat \ {0})]
  /\ \A i \in Instances : IsFiniteSet(Files[i])
  /\ {FailureThresh, OpenTimeout, CacheStalenessThreshold, MaxOutage, MaxSteady} \subseteq Nat \ {0}
  /\ None # Garbage /\ {None, Garbage, Invalid} \cap (Int \cup STRING) = {}
  /\ Invalid \notin {None, Garbage}
  /\ None \notin Instances

VARIABLES
  stage,      \* stage[i]: where instance i is
  cfg,        \* cfg[i]: the environment it was started with
  pending,    \* pending[i]: the migrations it found it has to apply
  connected,  \* connected[i]: PostgresConnection.Connected
  ready,      \* ready[i]: the rule cache is ready
  age,        \* age[i]: ticks since lastSyncTime of its cache
  breaker,    \* breaker[i]: the state of its circuit breaker
  failures,   \* failures[i]: its ConsecutiveFailures
  opened,     \* opened[i]: ticks since it opened
  wait,       \* wait[i]: ticks to the next poll
  polling,    \* polling[i]: a poll has been let through and not ended
  up,         \* the database answers
  version,    \* the version in the table of function migrations, 0 without a row
  lock,       \* who holds the migration lock
  applied,    \* history: the migrations that were applied, in order
  fresh,      \* history: fresh[i], ticks since its last successful poll or warm-up
  wrote,      \* history: wrote[i], ticks since a command wrote through, if one did since then
  steady,     \* history: steady[i], ticks it has served with the database up
  down,       \* history: ticks of the current outage
  asked       \* history: asked[i], polls that failed in the current outage

starting == <<stage, cfg, pending, connected, ready>>
breaking == <<breaker, failures, opened>>
database == <<up, version, lock, applied>>
vars == <<stage, cfg, pending, connected, ready, age, breaker, failures, opened, wait, polling, up,
          version, lock, applied, fresh, wrote, steady, down, asked>>

\* down     not running                lock     before acquireMigrationLock
\* migrate  in FunctionMigrator.Up     connect  before Connect
\* warmup   before WarmUp              wire     before the rest of InitServers
\* serving  Service.Run                failed   InitServers returned an error
Starting == {"lock", "migrate", "connect", "warmup", "wire"}
Stages == Starting \cup {"down", "serving", "failed"}

Capped(n, cap) == IF n < cap THEN n ELSE cap
-----------------------------------------------------------------------------
(* The configuration.                                                      *)

\* A setting that must be a number from least to most.
Parse(s, default, least, most) ==
  IF s = None THEN default
  ELSE IF s = Garbage THEN Invalid
  ELSE IF s \in least .. most THEN s ELSE Invalid

parseCELCostLimit(s) ==
  IF s = None THEN 10000 ELSE IF s = Garbage THEN Invalid ELSE IF s > 0 THEN s ELSE Invalid
parseDefaultDecision(s) == IF s = None THEN "ALLOW" ELSE IF s \in {"ALLOW", "DENY"} THEN s ELSE Invalid
parseMaxRulesPerRequest(s) == Parse(s, 1000, 1, 100000)
parseCleanupIntervalHours(s) == Parse(s, 24, 1, 8760)
parseRuleSyncPollInterval(s) == Parse(s, 10, 1, 3600)
parseRuleSyncStalenessThreshold(s) == Parse(s, 50, 1, 3600)
parseRuleSyncOverlapBuffer(s) == Parse(s, 2, 0, 60)

\* The checks of InitServers, in the order in which it makes them.
ValidateAuthConfig(c) == c.apiKeyEnabled => c.apiKey
ValidateAccessManagerConfig(c) == c.pluginEnabled => c.pluginAddress
initCELAdapter(c) == parseCELCostLimit(c.celCostLimit) # Invalid

LoadRuleSyncWorkerConfig(c) ==
  /\ parseRuleSyncPollInterval(c.poll) # Invalid
  /\ parseRuleSyncStalenessThreshold(c.staleness) # Invalid
  /\ parseRuleSyncOverlapBuffer(c.overlap) # Invalid
  /\ parseRuleSyncStalenessThreshold(c.staleness) >= parseRuleSyncPollInterval(c.poll)
LoadEvaluationConfig(c) ==
  /\ parseDefaultDecision(c.defaultDecision) # Invalid
  /\ parseMaxRulesPerRequest(c.maxRules) # Invalid
LoadCleanupWorkerConfig(c) == c.cleanup => parseCleanupIntervalHours(c.cleanupHours) # Invalid

\* The interval of the worker's ticker.
PollInterval(i) == parseRuleSyncPollInterval(cfg[i].poll)

\* Every variable has its type.
TypeOK ==
  /\ stage \in [Instances -> Stages]
  /\ cfg \in [Instances -> Config \cup {None}]
  /\ pending \in [Instances -> SUBSET UNION {Files[i] : i \in Instances}]
  /\ connected \in [Instances -> BOOLEAN] /\ ready \in [Instances -> BOOLEAN]
  /\ age \in [Instances -> 0 .. CacheStalenessThreshold + 1]
  /\ breaker \in [Instances -> {"closed", "open", "half-open"}]
  /\ failures \in [Instances -> 0 .. FailureThresh]
  /\ opened \in [Instances -> 0 .. OpenTimeout + 1]
  /\ wait \in [Instances -> Nat] /\ polling \in [Instances -> BOOLEAN]
  /\ up \in BOOLEAN /\ version \in Nat /\ lock \in Instances \cup {None}
  /\ applied \in Seq(Nat)
  /\ fresh \in [Instances -> 0 .. CacheStalenessThreshold + 1]
  /\ wrote \in [Instances -> 0 .. CacheStalenessThreshold + 1]
  /\ steady \in [Instances -> 0 .. MaxSteady]
  /\ down \in 0 .. MaxOutage
  /\ asked \in [Instances -> Nat]
  /\ \A i \in Instances : polling[i] => breaker[i] # "open"

Init ==
  /\ stage = [i \in Instances |-> "down"]
  /\ cfg = [i \in Instances |-> None]
  /\ pending = [i \in Instances |-> {}]
  /\ connected = [i \in Instances |-> FALSE] /\ ready = [i \in Instances |-> FALSE]
  /\ age = [i \in Instances |-> CacheStalenessThreshold + 1]
  /\ breaker = [i \in Instances |-> "closed"]
  /\ failures = [i \in Instances |-> 0] /\ opened = [i \in Instances |-> 0]
  /\ wait = [i \in Instances |-> 0] /\ polling = [i \in Instances |-> FALSE]
  /\ up = TRUE /\ version = 0 /\ lock = None /\ applied = <<>>
  /\ fresh = [i \in Instances |-> CacheStalenessThreshold + 1]
  /\ wrote = [i \in Instances |-> CacheStalenessThreshold + 1]
  /\ steady = [i \in Instances |-> 0]
  /\ down = 0 /\ asked = [i \in Instances |-> 0]
-----------------------------------------------------------------------------
(* InitServers.                                                            *)

\* Mutant of LockAfter: the lock outlives its session.
LockAfterKept(i) == lock

\* The migration lock when the session of i is closed, or has unlocked it.
LockAfter(i) == IF lock = i THEN None ELSE lock

\* The process of i has ended: its memory is gone, and its sessions, with the lock.
Ended(i, s) ==
  /\ stage' = [stage EXCEPT ![i] = s]
  /\ cfg' = [cfg EXCEPT ![i] = None]
  /\ pending' = [pending EXCEPT ![i] = {}]
  /\ connected' = [connected EXCEPT ![i] = FALSE]
  /\ ready' = [ready EXCEPT ![i] = FALSE]
  /\ age' = [age EXCEPT ![i] = CacheStalenessThreshold + 1]
  /\ breaker' = [breaker EXCEPT ![i] = "closed"]
  /\ failures' = [failures EXCEPT ![i] = 0]
  /\ opened' = [opened EXCEPT ![i] = 0]
  /\ wait' = [wait EXCEPT ![i] = 0]
  /\ polling' = [polling EXCEPT ![i] = FALSE]
  /\ lock' = LockAfter(i)
  /\ fresh' = [fresh EXCEPT ![i] = CacheStalenessThreshold + 1]
  /\ wrote' = [wrote EXCEPT ![i] = CacheStalenessThreshold + 1]
  /\ steady' = [steady EXCEPT ![i] = 0]
  /\ asked' = [asked EXCEPT ![i] = 0]
  /\ UNCHANGED <<up, version, applied, down>>

\* initCoreInfra; a release without functions has nothing to migrate.
Start(i) ==
  /\ stage[i] \in {"down", "failed"}
  /\ \E c \in Configs[i] :
       IF ValidateAuthConfig(c) /\ ValidateAccessManagerConfig(c)
       THEN /\ stage' = [stage EXCEPT ![i] = IF Files[i] = {} THEN "connect" ELSE "lock"]
            /\ cfg' = [cfg EXCEPT ![i] = c]
            /\ UNCHANGED <<pending, connected, ready, age, breaking, wait, polling, database,
                           fresh, wrote, steady, down, asked>>
       ELSE Ended(i, "failed")

\* Mutant of LockFree: nobody waits.
LockFreeAlways == TRUE

\* acquireMigrationLock waits for the session that has the lock.
LockFree == lock = None

\* getCurrentVersion and loadMigrations.
Unapplied(i) == {v \in Files[i] : v > version}

\* Up: the lock, and the version under it, from which the rest is computed.
AcquireMigrationLock(i) ==
  /\ stage[i] = "lock" /\ up
  /\ LockFree
  /\ lock' = i
  /\ stage' = [stage EXCEPT ![i] = "migrate"]
  /\ pending' = [pending EXCEPT ![i] = Unapplied(i)]
  /\ UNCHANGED <<cfg, connected, ready, age, breaking, wait, polling, up, version, applied, fresh,
                 wrote, steady, down, asked>>

\* applyMigration of the lowest version: the dirty mark, the statements and the version are
\* one transaction, which the database keeps or drops as a whole.
ApplyMigration(i) ==
  /\ stage[i] = "migrate" /\ up
  /\ \E v \in pending[i] :
       /\ \A w \in pending[i] : v <= w
       /\ version' = v
       /\ applied' = Append(applied, v)
       /\ pending' = [pending EXCEPT ![i] = @ \ {v}]
  /\ UNCHANGED <<stage, cfg, connected, ready, age, breaking, wait, polling, up, lock, fresh, wrote,
                 steady, down, asked>>

\* The end of Up and of runFunctionMigrations.
ReleaseMigrationLock(i) ==
  /\ stage[i] = "migrate" /\ pending[i] = {}
  /\ lock' = LockAfter(i)
  /\ stage' = [stage EXCEPT ![i] = "connect"]
  /\ UNCHANGED <<cfg, pending, connected, ready, age, breaking, wait, polling, up, version, applied,
                 fresh, wrote, steady, down, asked>>

\* PostgresConnection.Connect, then the CEL adapter.
Connect(i) ==
  /\ stage[i] = "connect" /\ up
  /\ IF initCELAdapter(cfg[i])
       THEN /\ stage' = [stage EXCEPT ![i] = "warmup"]
            /\ connected' = [connected EXCEPT ![i] = TRUE]
            /\ UNCHANGED <<cfg, pending, ready, age, breaking, wait, polling, database, fresh, wrote,
                           steady, down, asked>>
       ELSE Ended(i, "failed")

\* Mutant of WarmUp: MarkReady is forgotten.
WarmUpUnmarked(i) ==
  /\ stage[i] = "warmup" /\ up
  /\ stage' = [stage EXCEPT ![i] = "wire"]
  /\ age' = [age EXCEPT ![i] = 0]
  /\ fresh' = [fresh EXCEPT ![i] = 0]
  /\ UNCHANGED <<cfg, pending, connected, ready, breaking, wait, polling, database, wrote, steady, down,
                 asked>>

\* WarmUp: SetRules and MarkReady.
WarmUp(i) ==
  /\ stage[i] = "warmup" /\ up
  /\ stage' = [stage EXCEPT ![i] = "wire"]
  /\ ready' = [ready EXCEPT ![i] = TRUE]
  /\ age' = [age EXCEPT ![i] = 0]
  /\ fresh' = [fresh EXCEPT ![i] = 0]
  /\ UNCHANGED <<cfg, pending, connected, breaking, wait, polling, database, wrote, steady, down, asked>>

\* The sync worker, the evaluation, the HTTP server and the clean-up worker, then Run.
Wire(i) ==
  /\ stage[i] = "wire"
  /\ IF LoadRuleSyncWorkerConfig(cfg[i]) /\ LoadEvaluationConfig(cfg[i])
        /\ LoadCleanupWorkerConfig(cfg[i])
       THEN /\ stage' = [stage EXCEPT ![i] = "serving"]
            /\ wait' = [wait EXCEPT ![i] = PollInterval(i)]
            /\ UNCHANGED <<cfg, pending, connected, ready, age, breaking, polling, database, fresh,
                           wrote, steady, down, asked>>
       ELSE Ended(i, "failed")

\* A statement of InitServers fails or runs into its timeout.
Fail(i) ==
  /\ stage[i] \in Starting
  /\ Ended(i, "failed")

\* Shutdown, or the process is killed at any point.
Exit(i) ==
  /\ stage[i] \notin {"down", "failed"}
  /\ Ended(i, "down")
-----------------------------------------------------------------------------
(* The polls behind the circuit breaker.                                   *)

\* currentState of gobreaker: an open breaker lets a probe through when its timeout is over.
Probes(i) == breaker[i] = "open" /\ opened[i] > OpenTimeout

\* Mutant of Rejected: a cycle that is skipped touches the cache as an empty one does.
RejectedTouches(i) ==
  /\ breaker[i] = "open" /\ ~Probes(i)
  /\ wait' = [wait EXCEPT ![i] = PollInterval(i)]
  /\ age' = [age EXCEPT ![i] = 0]
  /\ UNCHANGED <<breaking, polling>>

\* Mutant of Rejected: a call that is refused restarts the timeout of the breaker.
RejectedRestarts(i) ==
  /\ breaker[i] = "open" /\ ~Probes(i)
  /\ wait' = [wait EXCEPT ![i] = PollInterval(i)]
  /\ opened' = [opened EXCEPT ![i] = 0]
  /\ UNCHANGED <<age, breaker, failures, polling>>

\* The breaker answers ErrOpenState: the cycle is skipped.
Rejected(i) ==
  /\ breaker[i] = "open" /\ ~Probes(i)
  /\ wait' = [wait EXCEPT ![i] = PollInterval(i)]
  /\ UNCHANGED <<age, breaking, polling>>

\* The query is sent; it is the probe of a breaker that was open.
Admitted(i) ==
  /\ breaker[i] # "open" \/ Probes(i)
  /\ polling' = [polling EXCEPT ![i] = TRUE]
  /\ breaker' = [breaker EXCEPT ![i] = IF Probes(i) THEN "half-open" ELSE @]
  /\ failures' = [failures EXCEPT ![i] = IF Probes(i) THEN 0 ELSE @]
  /\ UNCHANGED <<age, opened, wait>>

\* The ticker fires: runSyncCycle and queryDelta.
BeginPoll(i) ==
  /\ stage[i] = "serving" /\ wait[i] = 0 /\ ~polling[i]
  /\ Rejected(i) \/ Admitted(i)
  /\ UNCHANGED <<starting, database, fresh, wrote, steady, down, asked>>

\* The query has succeeded: ApplyChanges in each of the three ways to end the cycle.
Succeed(i) ==
  /\ up
  /\ age' = [age EXCEPT ![i] = 0] /\ fresh' = [fresh EXCEPT ![i] = 0]
  /\ wrote' = [wrote EXCEPT ![i] = CacheStalenessThreshold + 1]
  /\ breaker' = [breaker EXCEPT ![i] = "closed"]
  /\ failures' = [failures EXCEPT ![i] = 0]
  /\ UNCHANGED <<opened, asked>>

\* Mutant of ReadyToTrip: one failure too many.
ReadyToTripLate(i) == failures[i] + 1 > FailureThresh

\* ReadyToTrip, with the failure that is being counted.
ReadyToTrip(i) == failures[i] + 1 >= FailureThresh

\* The count of a failure; the breaker opens, for a probe at once.
Trip(i) ==
  LET trips == breaker[i] = "half-open" \/ ReadyToTrip(i) IN
    /\ breaker' = [breaker EXCEPT ![i] = IF trips THEN "open" ELSE @]
    /\ failures' = [failures EXCEPT ![i] = IF trips THEN 0 ELSE @ + 1]
    /\ opened' = [opened EXCEPT ![i] = 0]

\* The query has failed: lastSync and the cache stay as they are.
FailQuery(i) ==
  /\ ~up
  /\ Trip(i)
  /\ asked' = [asked EXCEPT ![i] = @ + 1]
  /\ UNCHANGED <<age, fresh, wrote>>

EndPoll(i) ==
  /\ polling[i]
  /\ polling' = [polling EXCEPT ![i] = FALSE]
  /\ wait' = [wait EXCEPT ![i] = PollInterval(i)]
  /\ Succeed(i) \/ FailQuery(i)
  /\ UNCHANGED <<starting, database, steady, down>>

\* A rule command of this instance writes through to its cache: UpsertRule, RemoveRule.
WriteThrough(i) ==
  /\ stage[i] = "serving" /\ up
  /\ age' = [age EXCEPT ![i] = 0]
  /\ wrote' = [wrote EXCEPT ![i] = 0]
  /\ UNCHANGED <<starting, breaking, wait, polling, database, fresh, steady, down, asked>>

checkPostgres(i) == connected[i] /\ up
checkRuleCache(i) == ready[i] /\ age[i] <= CacheStalenessThreshold

\* ReadinessHandler of a process that serves.
Readiness(i) ==
  IF ~checkPostgres(i) THEN "NOT_READY" ELSE IF ~checkRuleCache(i) THEN "DEGRADED" ELSE "READY"
-----------------------------------------------------------------------------
\* The database stops answering.
Outage ==
  /\ up
  /\ up' = FALSE
  /\ down' = 0
  /\ asked' = [i \in Instances |-> 0]
  /\ steady' = [i \in Instances |-> 0]
  /\ UNCHANGED <<starting, age, breaking, wait, polling, version, lock, applied, fresh, wrote>>

\* It answers again.
Recovery ==
  /\ ~up
  /\ up' = TRUE
  /\ UNCHANGED <<starting, age, breaking, wait, polling, version, lock, applied, fresh, wrote,
                 steady, down, asked>>

\* A tick of the clock; polls that are due go first.
Tick ==
  /\ \A i \in Instances : stage[i] = "serving" => wait[i] > 0 /\ ~polling[i]
  /\ up \/ down < MaxOutage
  /\ down' = IF up THEN down ELSE down + 1
  /\ age' = [i \in Instances |-> Capped(age[i] + 1, CacheStalenessThreshold + 1)]
  /\ fresh' = [i \in Instances |-> Capped(fresh[i] + 1, CacheStalenessThreshold + 1)]
  /\ wrote' = [i \in Instances |-> Capped(wrote[i] + 1, CacheStalenessThreshold + 1)]
  /\ opened' = [i \in Instances |->
       IF breaker[i] = "open" THEN Capped(opened[i] + 1, OpenTimeout + 1) ELSE opened[i]]
  /\ wait' = [i \in Instances |-> IF wait[i] > 0 THEN wait[i] - 1 ELSE 0]
  /\ steady' = [i \in Instances |->
       IF up /\ stage[i] = "serving" THEN Capped(steady[i] + 1, MaxSteady) ELSE 0]
  /\ UNCHANGED <<starting, breaker, failures, polling, database, asked>>

Step(i) ==
  \/ AcquireMigrationLock(i) \/ ApplyMigration(i) \/ ReleaseMigrationLock(i)
  \/ Connect(i) \/ WarmUp(i) \/ Wire(i)

Next ==
  \/ \E i \in Instances : \/ Start(i) \/ Step(i) \/ Fail(i) \/ Exit(i)
                          \/ BeginPoll(i) \/ EndPoll(i) \/ WriteThrough(i)
  \/ Outage \/ Recovery \/ Tick

Spec == Init /\ [][Next]_vars

\* A start that can go on does, its statements fail when the database does not answer, and
\* the server grants the migration lock to everyone who waits in its queue.  Nothing relies
\* on the timeout of runFunctionMigrations to end a wait for the lock.
FairSpec ==
  /\ Spec
  /\ \A i \in Instances : /\ WF_vars(Step(i) \/ (~up /\ Fail(i)))
                           /\ SF_vars(AcquireMigrationLock(i))
-----------------------------------------------------------------------------
(* Properties.                                                             *)

\* An instance that serves was started whole: its cache is warm, the functions of its
\* release are in the database, its ticker has an interval; and one that does not hold a
\* place in InitServers or serve holds neither a connection nor the lock.
StartsWhole ==
  \A i \in Instances :
    /\ stage[i] = "serving" => /\ connected[i] /\ ready[i]
                               /\ PollInterval(i) # Invalid
                               /\ \A v \in Files[i] : v <= version
    /\ stage[i] \in {"down", "failed"} => ~connected[i] /\ lock # i

\* Whatever instances of whatever releases start, fail and crash at the same time, each
\* migration is applied once and in the order of the versions (acquireMigrationLock).
MigratedOnce ==
  /\ \A m, n \in DOMAIN applied : m < n => applied[m] < applied[n]
  /\ version = IF applied = <<>> THEN 0 ELSE applied[Len(applied)]

\* A database that is down is asked a few times and then once for every timeout of the
\* breaker (DefaultSyncCircuitBreakerConfig).
LoadBounded ==
  \A i \in Instances : asked[i] <= FailureThresh + down \div (OpenTimeout + 1)

\* However long and often the database was down, once it has answered for the timeout of
\* the breaker and an interval, the breaker is closed and the cache is no older than an
\* interval: no state of the breaker is left for good.
RecoversInTime ==
  \A i \in Instances : stage[i] = "serving" /\ steady[i] > OpenTimeout + PollInterval(i) =>
    breaker[i] = "closed" /\ fresh[i] <= PollInterval(i)

\* An instance whose polls have failed for longer than the threshold reports so: its own
\* write-throughs reset the age of the cache, and may hide the outage, but for no longer than
\* the threshold after the last of them (checkRuleCache, Staleness, ApplyChanges).
SilentOutageReported ==
  \A i \in Instances :
    /\ stage[i] = "serving"
    /\ fresh[i] > CacheStalenessThreshold /\ wrote[i] > CacheStalenessThreshold
    => Readiness(i) # "READY"

\* Every start ends, in service or with an error, whatever the database does: an instance
\* that fails, stops or crashes with the migration lock, at any point of any number of
\* starts, leaves nobody waiting for it (releaseMigrationLock, the end of its session).
EveryStartEnds == \A i \in Instances : stage[i] \in Starting ~> stage[i] \notin Starting
=============================================================================
