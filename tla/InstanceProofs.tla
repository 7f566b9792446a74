--------------------------- MODULE InstanceProofs ---------------------------
(***************************************************************************)
(* Theorems about Instance, for any number of instances, releases and      *)
(* configurations and any thresholds: types, that an instance that serves  *)
(* was started whole, that migrations are applied once and in order, and   *)
(* what the circuit breaker and the readiness probe promise.               *)
(***************************************************************************)
EXTENDS Instance, TLAPS

\* What a configuration allows, and who polls.
ServingInv ==
  \A i \in Instances :
    /\ stage[i] \in Starting \cup {"serving"} => cfg[i] \in Config
    /\ stage[i] = "serving" => LoadRuleSyncWorkerConfig(cfg[i])
    /\ polling[i] => stage[i] = "serving"

\* The inductive strengthening of TypeOK.
TypeInv == TypeOK /\ ServingInv

\* The assumptions on the constants, one by one.
LEMMA Thresholds ==
  /\ FailureThresh \in Nat /\ FailureThresh > 0 /\ OpenTimeout \in Nat /\ OpenTimeout > 0
  /\ CacheStalenessThreshold \in Nat /\ CacheStalenessThreshold > 0
  /\ MaxOutage \in Nat /\ MaxSteady \in Nat /\ MaxSteady > 0
BY InstanceAssumption

LEMMA Specials ==
  /\ None \notin Int /\ Garbage \notin Int /\ Invalid \notin Int
  /\ None # Garbage /\ Invalid # None /\ Invalid # Garbage
  /\ None \notin Instances
BY InstanceAssumption

LEMMA Releases ==
  ASSUME NEW i \in Instances
  PROVE  Configs[i] \subseteq Config /\ Files[i] \subseteq Nat \ {0}
BY InstanceAssumption

\* The interval of an accepted configuration is a number.
LEMMA ParseType ==
  ASSUME NEW s \in Settings, parseRuleSyncPollInterval(s) # Invalid
  PROVE  parseRuleSyncPollInterval(s) \in Nat \ {0}
<1>1. CASE s = None
  BY <1>1, Specials DEF parseRuleSyncPollInterval, Parse
<1>2. CASE s = Garbage
  BY <1>2, Specials DEF parseRuleSyncPollInterval, Parse
<1>3. CASE s \in Int
  <2>1. s # None /\ s # Garbage
    BY <1>3, Specials
  <2>2. s \in 1 .. 3600 /\ parseRuleSyncPollInterval(s) = s
    BY <2>1 DEF parseRuleSyncPollInterval, Parse
  <2>3. s \in Nat \ {0}
    BY <1>3, <2>2
  <2> QED BY <2>2, <2>3
<1> QED BY <1>1, <1>2, <1>3 DEF Settings

LEMMA IntervalType ==
  ASSUME NEW c \in Config, LoadRuleSyncWorkerConfig(c)
  PROVE  parseRuleSyncPollInterval(c.poll) \in Nat \ {0} /\ parseRuleSyncPollInterval(c.poll) # Invalid
<1>1. c.poll \in Settings /\ parseRuleSyncPollInterval(c.poll) # Invalid
  BY DEF Config, LoadRuleSyncWorkerConfig
<1> QED BY <1>1, ParseType

LEMMA PollIntervalType ==
  ASSUME TypeInv, NEW i \in Instances, stage[i] = "serving"
  PROVE  PollInterval(i) \in Nat \ {0}
<1>1. cfg[i] \in Config /\ LoadRuleSyncWorkerConfig(cfg[i])
  BY DEF TypeInv, ServingInv
<1> QED BY <1>1, IntervalType DEF PollInterval

LEMMA CappedType ==
  ASSUME NEW n \in Nat, NEW cap \in Nat
  PROVE  /\ Capped(n, cap) \in 0 .. cap
         /\ Capped(n, cap) <= n
         /\ n <= cap => Capped(n, cap) = n
BY DEF Capped

\* The conjuncts of TypeOK in four groups.
StartTypes ==
  /\ stage \in [Instances -> Stages]
  /\ cfg \in [Instances -> Config \cup {None}]
  /\ pending \in [Instances -> SUBSET UNION {Files[i] : i \in Instances}]
  /\ connected \in [Instances -> BOOLEAN] /\ ready \in [Instances -> BOOLEAN]

ClockTypes ==
  /\ age \in [Instances -> 0 .. CacheStalenessThreshold + 1]
  /\ fresh \in [Instances -> 0 .. CacheStalenessThreshold + 1]
  /\ opened \in [Instances -> 0 .. OpenTimeout + 1]
  /\ wait \in [Instances -> Nat]
  /\ steady \in [Instances -> 0 .. MaxSteady]
  /\ down \in 0 .. MaxOutage
  /\ asked \in [Instances -> Nat]

BreakerTypes ==
  /\ breaker \in [Instances -> {"closed", "open", "half-open"}]
  /\ failures \in [Instances -> 0 .. FailureThresh]
  /\ polling \in [Instances -> BOOLEAN]
  /\ wrote \in [Instances -> 0 .. CacheStalenessThreshold + 1]
  /\ \A i \in Instances : polling[i] => breaker[i] # "open"

DatabaseTypes ==
  up \in BOOLEAN /\ version \in Nat /\ lock \in Instances \cup {None} /\ applied \in Seq(Nat)

LEMMA TypeParts == TypeOK <=> StartTypes /\ ClockTypes /\ BreakerTypes /\ DatabaseTypes
BY DEF TypeOK, StartTypes, ClockTypes, BreakerTypes, DatabaseTypes

LEMMA TypePartsNext == TypeOK' <=> (StartTypes /\ ClockTypes /\ BreakerTypes /\ DatabaseTypes)'
BY DEF TypeOK, StartTypes, ClockTypes, BreakerTypes, DatabaseTypes

\* What is left alone keeps its type.
LEMMA StartTypesKept == StartTypes /\ UNCHANGED starting => StartTypes'
BY DEF StartTypes, starting

LEMMA ClockTypesKept ==
  ClockTypes /\ UNCHANGED <<age, fresh, opened, wait, steady, down, asked>> => ClockTypes'
BY DEF ClockTypes

LEMMA BreakerTypesKept ==
  BreakerTypes /\ UNCHANGED <<breaker, failures, polling, wrote>> => BreakerTypes'
BY DEF BreakerTypes

LEMMA DatabaseTypesKept == DatabaseTypes /\ UNCHANGED database => DatabaseTypes'
BY DEF DatabaseTypes, database

LEMMA EndedKeepsType ==
  ASSUME TypeInv, NEW i \in Instances, NEW s \in {"down", "failed"}, Ended(i, s)
  PROVE  TypeInv'
<1> USE TypeParts DEF TypeInv
<1>1. StartTypes'
  <2>1. stage' \in [Instances -> Stages] /\ cfg' \in [Instances -> Config \cup {None}]
    BY DEF StartTypes, Ended, Stages
  <2>2. pending' \in [Instances -> SUBSET UNION {Files[j] : j \in Instances}]
    BY DEF StartTypes, Ended
  <2>3. connected' \in [Instances -> BOOLEAN] /\ ready' \in [Instances -> BOOLEAN]
    BY DEF StartTypes, Ended
  <2> QED BY <2>1, <2>2, <2>3 DEF StartTypes
<1>2. ClockTypes'
  BY Thresholds DEF ClockTypes, Ended
<1>3. BreakerTypes'
  BY Thresholds DEF BreakerTypes, Ended
<1>4. DatabaseTypes'
  BY DEF DatabaseTypes, Ended, LockAfter
<1>5. ServingInv'
  BY DEF StartTypes, BreakerTypes, ServingInv, Ended, Starting
<1> QED BY <1>1, <1>2, <1>3, <1>4, <1>5, TypePartsNext

\* A step of InitServers that changes the stage only, besides what is typed already.
LEMMA StageType ==
  ASSUME TypeInv, NEW i \in Instances, stage[i] # "serving", NEW s \in Starting,
         stage' = [stage EXCEPT ![i] = s],
         stage[i] \in Starting \/ cfg'[i] \in Config,
         \A j \in Instances : cfg'[j] = cfg[j] \/ j = i,
         stage[i] \in Starting => cfg' = cfg,
         polling' = polling, TypeOK'
  PROVE  TypeInv'
<1> USE DEF TypeInv, ServingInv
<1>1. stage \in [Instances -> Stages] /\ polling[i] = FALSE
  BY DEF TypeOK
<1>2. \A j \in Instances : j # i => stage'[j] = stage[j] /\ cfg'[j] = cfg[j]
  BY <1>1
<1>3. stage'[i] = s /\ s # "serving" /\ cfg'[i] \in Config
  BY <1>1 DEF Starting
<1> QED BY <1>1, <1>2, <1>3

LEMMA StartType ==
  ASSUME TypeInv, NEW i \in Instances, Start(i)
  PROVE  TypeInv'
<1> USE TypeParts DEF TypeInv
<1>1. CASE Ended(i, "failed")
  BY <1>1, EndedKeepsType
<1>2. CASE ~Ended(i, "failed")
  <2>1. PICK c \in Configs[i] :
          /\ stage' = [stage EXCEPT ![i] = IF Files[i] = {} THEN "connect" ELSE "lock"]
          /\ cfg' = [cfg EXCEPT ![i] = c]
          /\ UNCHANGED <<pending, connected, ready, age, breaking, wait, polling, database,
                         fresh, wrote, steady, down, asked>>
    BY <1>2 DEF Start
  <2>2. c \in Config
    BY Releases
  <2>3. PICK s \in Starting : stage' = [stage EXCEPT ![i] = s]
    BY <2>1 DEF Starting
  <2>4. StartTypes'
    BY <2>1, <2>2, <2>3 DEF StartTypes, Stages
  <2>5. ClockTypes' /\ BreakerTypes' /\ DatabaseTypes'
    BY <2>1, ClockTypesKept, BreakerTypesKept, DatabaseTypesKept DEF breaking
  <2>6. TypeOK'
    BY <2>4, <2>5, TypePartsNext
  <2>7. /\ stage[i] # "serving" /\ stage[i] \notin Starting /\ cfg'[i] \in Config
        /\ \A j \in Instances : cfg'[j] = cfg[j] \/ j = i
    BY <2>1, <2>2 DEF Start, Starting, StartTypes
  <2> QED BY <2>1, <2>3, <2>6, <2>7, StageType
<1> QED BY <1>1, <1>2

LEMMA MigrateType ==
  ASSUME TypeInv, NEW i \in Instances,
         AcquireMigrationLock(i) \/ ApplyMigration(i) \/ ReleaseMigrationLock(i)
  PROVE  TypeInv'
<1> USE TypeParts DEF TypeInv
<1>1. CASE AcquireMigrationLock(i)
  <2>1. Unapplied(i) \in SUBSET UNION {Files[j] : j \in Instances}
    BY DEF Unapplied
  <2>2. /\ stage[i] = "lock" /\ stage' = [stage EXCEPT ![i] = "migrate"]
        /\ pending' = [pending EXCEPT ![i] = Unapplied(i)]
        /\ cfg' = cfg /\ polling' = polling
    BY <1>1 DEF AcquireMigrationLock
  <2>3. StartTypes'
    <3> HIDE DEF Unapplied
    <3> QED BY <1>1, <2>1, <2>2 DEF AcquireMigrationLock, StartTypes, Stages, Starting
  <2>4. ClockTypes' /\ BreakerTypes'
    BY <1>1, ClockTypesKept, BreakerTypesKept DEF AcquireMigrationLock, breaking
  <2>5. DatabaseTypes'
    BY <1>1 DEF AcquireMigrationLock, DatabaseTypes
  <2> QED BY <2>2, <2>3, <2>4, <2>5, TypePartsNext, StageType DEF Starting
<1>2. CASE ApplyMigration(i)
  <2>1. PICK v \in pending[i] :
          /\ version' = v /\ applied' = Append(applied, v)
          /\ pending' = [pending EXCEPT ![i] = @ \ {v}]
    BY <1>2 DEF ApplyMigration
  <2>2. v \in Nat
    BY Releases DEF StartTypes
  <2>3. StartTypes'
    BY <1>2, <2>1 DEF ApplyMigration, StartTypes
  <2>4. ClockTypes' /\ BreakerTypes'
    BY <1>2, ClockTypesKept, BreakerTypesKept DEF ApplyMigration, breaking
  <2>5. DatabaseTypes'
    BY <1>2, <2>1, <2>2 DEF ApplyMigration, DatabaseTypes
  <2>6. ServingInv'
    BY <1>2 DEF ApplyMigration, ServingInv
  <2> QED BY <2>3, <2>4, <2>5, <2>6, TypePartsNext
<1>3. CASE ReleaseMigrationLock(i)
  <2>1. /\ stage[i] = "migrate" /\ stage' = [stage EXCEPT ![i] = "connect"]
        /\ cfg' = cfg /\ polling' = polling
    BY <1>3 DEF ReleaseMigrationLock
  <2>2. StartTypes'
    BY <1>3 DEF ReleaseMigrationLock, StartTypes, Stages, Starting
  <2>3. ClockTypes' /\ BreakerTypes'
    BY <1>3, ClockTypesKept, BreakerTypesKept DEF ReleaseMigrationLock, breaking
  <2>4. DatabaseTypes'
    BY <1>3 DEF ReleaseMigrationLock, LockAfter, DatabaseTypes
  <2> QED BY <2>1, <2>2, <2>3, <2>4, TypePartsNext, StageType DEF Starting
<1> QED BY <1>1, <1>2, <1>3

LEMMA ConnectType ==
  ASSUME TypeInv, NEW i \in Instances, Connect(i) \/ WarmUp(i) \/ Wire(i)
  PROVE  TypeInv'
<1> USE TypeParts DEF TypeInv
<1>1. CASE Ended(i, "failed")
  BY <1>1, EndedKeepsType
<1>2. CASE Connect(i) /\ ~Ended(i, "failed")
  <2>1. /\ stage[i] = "connect" /\ stage' = [stage EXCEPT ![i] = "warmup"]
        /\ connected' = [connected EXCEPT ![i] = TRUE]
        /\ UNCHANGED <<cfg, pending, ready, age, breaking, wait, polling, database, fresh, wrote,
                       steady, down, asked>>
    BY <1>2 DEF Connect
  <2>2. StartTypes'
    BY <2>1 DEF StartTypes, Stages, Starting
  <2>3. ClockTypes' /\ BreakerTypes' /\ DatabaseTypes'
    BY <2>1, ClockTypesKept, BreakerTypesKept, DatabaseTypesKept DEF breaking
  <2> QED BY <2>1, <2>2, <2>3, TypePartsNext, StageType DEF Starting
<1>3. CASE WarmUp(i)
  <2>1. /\ stage[i] = "warmup" /\ stage' = [stage EXCEPT ![i] = "wire"]
        /\ cfg' = cfg /\ polling' = polling
    BY <1>3 DEF WarmUp
  <2>2. StartTypes'
    BY <1>3 DEF WarmUp, StartTypes, Stages, Starting
  <2>3. ClockTypes'
    BY <1>3, Thresholds DEF WarmUp, ClockTypes, breaking
  <2>4. BreakerTypes' /\ DatabaseTypes'
    BY <1>3, BreakerTypesKept, DatabaseTypesKept DEF WarmUp, breaking
  <2> QED BY <2>1, <2>2, <2>3, <2>4, TypePartsNext, StageType DEF Starting
<1>4. CASE Wire(i) /\ ~Ended(i, "failed")
  <2>1. /\ LoadRuleSyncWorkerConfig(cfg[i]) /\ stage[i] = "wire"
        /\ stage' = [stage EXCEPT ![i] = "serving"] /\ wait' = [wait EXCEPT ![i] = PollInterval(i)]
        /\ UNCHANGED <<cfg, pending, connected, ready, age, breaking, polling, database, fresh,
                       wrote, steady, down, asked>>
    BY <1>4 DEF Wire
  <2>2. cfg[i] \in Config /\ PollInterval(i) \in Nat
    BY <2>1, IntervalType DEF ServingInv, Starting, PollInterval
  <2>3. StartTypes'
    BY <2>1 DEF StartTypes, Stages
  <2>4. ClockTypes'
    BY <2>1, <2>2 DEF ClockTypes, breaking
  <2>5. BreakerTypes' /\ DatabaseTypes'
    BY <2>1, BreakerTypesKept, DatabaseTypesKept DEF breaking
  <2>6. ServingInv'
    BY <2>1, <2>2 DEF StartTypes, ServingInv, Starting
  <2> QED BY <2>3, <2>4, <2>5, <2>6, TypePartsNext
<1> QED BY <1>1, <1>2, <1>3, <1>4

\* Polls, commands and the database leave the stages and configurations alone.
LEMMA ServingKept ==
  ASSUME TypeInv, UNCHANGED <<stage, cfg>>, TypeOK',
         \A i \in Instances : polling'[i] => polling[i] \/ stage[i] = "serving"
  PROVE  TypeInv'
BY DEF TypeInv, ServingInv

LEMMA PollType ==
  ASSUME TypeInv, NEW i \in Instances, BeginPoll(i) \/ EndPoll(i) \/ WriteThrough(i)
  PROVE  TypeInv'
<1> USE TypeParts DEF TypeInv
<1>1. stage[i] = "serving" /\ PollInterval(i) \in Nat
  BY PollIntervalType DEF BeginPoll, EndPoll, WriteThrough, ServingInv
<1>2. UNCHANGED <<stage, cfg>>
  BY DEF BeginPoll, EndPoll, WriteThrough, starting
<1>3. StartTypes' /\ DatabaseTypes'
  BY StartTypesKept, DatabaseTypesKept DEF BeginPoll, EndPoll, WriteThrough
<1>4. CASE BeginPoll(i) /\ Rejected(i)
  <2>1. ClockTypes' /\ BreakerTypes'
    BY <1>1, <1>4, BreakerTypesKept DEF BeginPoll, Rejected, ClockTypes, breaking
  <2> QED BY <1>2, <1>3, <1>4, <2>1, TypePartsNext, ServingKept DEF Rejected
<1>5. CASE BeginPoll(i) /\ Admitted(i)
  <2>1. ClockTypes'
    BY <1>5, ClockTypesKept DEF BeginPoll, Admitted
  <2>2. BreakerTypes'
    <3>1. /\ polling' = [polling EXCEPT ![i] = TRUE]
          /\ breaker' = [breaker EXCEPT ![i] = IF Probes(i) THEN "half-open" ELSE @]
          /\ failures' = [failures EXCEPT ![i] = IF Probes(i) THEN 0 ELSE @]
          /\ breaker[i] # "open" \/ Probes(i)
          /\ wrote' = wrote
      BY <1>5 DEF BeginPoll, Admitted
    <3> QED BY <3>1, Thresholds DEF BreakerTypes
  <2>3. \A j \in Instances : polling'[j] => polling[j] \/ stage[j] = "serving"
    BY <1>1, <1>5 DEF Admitted, BreakerTypes
  <2> QED BY <1>2, <1>3, <2>1, <2>2, <2>3, TypePartsNext, ServingKept
<1>6. CASE EndPoll(i)
  <2>1. /\ polling' = [polling EXCEPT ![i] = FALSE] /\ wait' = [wait EXCEPT ![i] = PollInterval(i)]
        /\ steady' = steady /\ down' = down
    BY <1>6 DEF EndPoll
  <2>2. \A j \in Instances : polling'[j] => polling[j]
    BY <2>1 DEF BreakerTypes
  <2>3. CASE Succeed(i)
    <3>1. ClockTypes'
      BY <1>1, <2>1, <2>3, Thresholds DEF ClockTypes, Succeed
    <3>2. BreakerTypes'
      BY <2>1, <2>3, Thresholds DEF BreakerTypes, Succeed
    <3> QED BY <1>2, <1>3, <2>2, <3>1, <3>2, TypePartsNext, ServingKept
  <2>4. CASE FailQuery(i)
    <3>1. ClockTypes'
      BY <1>1, <2>1, <2>4, Thresholds DEF ClockTypes, FailQuery, Trip
    <3>2. failures' \in [Instances -> 0 .. FailureThresh]
      BY <2>4, Thresholds DEF FailQuery, Trip, ReadyToTrip, BreakerTypes
    <3>3. breaker' \in [Instances -> {"closed", "open", "half-open"}] /\ wrote' = wrote
          /\ \A j \in Instances : j # i => breaker'[j] = breaker[j]
      BY <2>4 DEF FailQuery, Trip, BreakerTypes
    <3>4. BreakerTypes'
      BY <2>1, <3>2, <3>3 DEF BreakerTypes
    <3> QED BY <1>2, <1>3, <2>2, <3>1, <3>4, TypePartsNext, ServingKept
  <2> QED BY <1>6, <2>3, <2>4 DEF EndPoll
<1>7. CASE WriteThrough(i)
  <2>1. ClockTypes'
    BY <1>7, Thresholds DEF WriteThrough, ClockTypes, breaking
  <2>2. BreakerTypes'
    BY <1>7, Thresholds DEF WriteThrough, BreakerTypes, breaking
  <2> QED BY <1>2, <1>3, <1>7, <2>1, <2>2, TypePartsNext, ServingKept DEF WriteThrough
<1> QED BY <1>4, <1>5, <1>6, <1>7 DEF BeginPoll

LEMMA WorldType ==
  ASSUME TypeInv, Outage \/ Recovery \/ Tick
  PROVE  TypeInv'
<1> USE TypeParts DEF TypeInv
<1>1. StartTypes' /\ UNCHANGED <<stage, cfg, polling>>
  BY StartTypesKept DEF Outage, Recovery, Tick, starting
<1>2. BreakerTypes'
  <2>1. CASE Outage \/ Recovery
    BY <2>1, BreakerTypesKept DEF Outage, Recovery, breaking
  <2>2. CASE Tick
    BY <2>2, Thresholds DEF Tick, Capped, BreakerTypes
  <2> QED BY <2>1, <2>2
<1>3. DatabaseTypes'
  BY DatabaseTypesKept DEF Outage, Recovery, Tick, DatabaseTypes
<1>4. ClockTypes'
  <2>1. CASE Outage
    BY <2>1, Thresholds DEF Outage, ClockTypes, breaking
  <2>2. CASE Recovery
    BY <2>2, ClockTypesKept DEF Recovery, breaking
  <2>3. CASE Tick
    <3>1. /\ age' \in [Instances -> 0 .. CacheStalenessThreshold + 1]
          /\ fresh' \in [Instances -> 0 .. CacheStalenessThreshold + 1]
      BY <2>3, Thresholds DEF Tick, ClockTypes, Capped
    <3>2. opened' \in [Instances -> 0 .. OpenTimeout + 1]
      BY <2>3, Thresholds DEF Tick, ClockTypes, Capped
    <3>3. steady' \in [Instances -> 0 .. MaxSteady]
      BY <2>3, Thresholds DEF Tick, ClockTypes, Capped
    <3>4. wait' \in [Instances -> Nat] /\ down' \in 0 .. MaxOutage /\ asked' = asked
      BY <2>3, Thresholds DEF Tick, ClockTypes
    <3> QED BY <3>1, <3>2, <3>3, <3>4 DEF ClockTypes
  <2> QED BY <2>1, <2>2, <2>3
<1> QED BY <1>1, <1>2, <1>3, <1>4, TypePartsNext, ServingKept

LEMMA InitType == Init => TypeInv
<1> SUFFICES ASSUME Init PROVE TypeInv
  OBVIOUS
<1>1. StartTypes
  BY DEF Init, StartTypes, Stages
<1>2. ClockTypes
  BY Thresholds DEF Init, ClockTypes
<1>3. BreakerTypes
  BY Thresholds DEF Init, BreakerTypes
<1>4. DatabaseTypes
  BY DEF Init, DatabaseTypes
<1>5. ServingInv
  BY DEF Init, ServingInv, Starting
<1> QED BY <1>1, <1>2, <1>3, <1>4, <1>5, TypeParts DEF TypeInv

LEMMA NextType == TypeInv /\ [Next]_vars => TypeInv'
<1> SUFFICES ASSUME TypeInv, [Next]_vars PROVE TypeInv'
  OBVIOUS
<1>1. ASSUME NEW i \in Instances, Start(i) \/ Step(i) \/ BeginPoll(i) \/ EndPoll(i) \/ WriteThrough(i)
      PROVE  TypeInv'
  BY <1>1, StartType, MigrateType, ConnectType, PollType DEF Step
<1>2. ASSUME NEW i \in Instances, Fail(i) \/ Exit(i) PROVE TypeInv'
  BY <1>2, EndedKeepsType DEF Fail, Exit
<1>3. CASE UNCHANGED vars
  BY <1>3 DEF TypeInv, TypeOK, ServingInv, vars
<1> QED BY <1>1, <1>2, <1>3, WorldType DEF Next

THEOREM TypesHold == Spec => []TypeInv
BY InitType, NextType, PTL DEF Spec

\* Every variable keeps its type; in particular no probe of the database is under way
\* behind an open breaker.
THEOREM TypeCorrect == Spec => []TypeOK
<1>1. TypeInv => TypeOK
  BY DEF TypeInv
<1> QED BY <1>1, TypesHold, PTL
-----------------------------------------------------------------------------
(* Start-up and migrations.                                                *)

\* The lock is held by the instance that migrates, and what it has to apply is still what
\* is above the version; whoever is past the migrations has them all.
StartInv ==
  \A i \in Instances :
    /\ stage[i] \in {"warmup", "wire", "serving"} => connected[i]
    /\ stage[i] \in {"wire", "serving"} => ready[i]
    /\ stage[i] \in {"down", "failed"} => ~connected[i]
    /\ stage[i] \in {"connect", "warmup", "wire", "serving"} => \A v \in Files[i] : v <= version
    /\ stage[i] = "migrate" <=> lock = i
    /\ stage[i] = "migrate" => pending[i] = Unapplied(i)

LifeInv == StartInv /\ MigratedOnce

LEMMA LifeKept ==
  ASSUME LifeInv, UNCHANGED <<starting, version, lock, applied>>
  PROVE  LifeInv'
<1>1. StartInv'
  BY DEF LifeInv, StartInv, starting, Unapplied
<1>2. MigratedOnce'
  BY DEF LifeInv, MigratedOnce
<1> QED BY <1>1, <1>2 DEF LifeInv

\* An instance moves from one stage to another that holds no lock, or ends.
LEMMA MovesLife ==
  ASSUME TypeOK, LifeInv, NEW i \in Instances, NEW s \in Stages \ {"migrate"},
         stage' = [stage EXCEPT ![i] = s],
         lock' = IF lock = i THEN None ELSE lock,
         UNCHANGED <<version, applied>>,
         \A j \in Instances \ {i} :
           connected'[j] = connected[j] /\ ready'[j] = ready[j] /\ pending'[j] = pending[j],
         s \in {"warmup", "wire", "serving"} => connected'[i],
         s \in {"wire", "serving"} => ready'[i],
         s \in {"down", "failed"} => ~connected'[i],
         s \in {"connect", "warmup", "wire", "serving"} => \A v \in Files[i] : v <= version
  PROVE  LifeInv'
<1>1. MigratedOnce'
  BY DEF LifeInv, MigratedOnce
<1>2. \A j \in Instances \ {i} : stage'[j] = stage[j]
  BY DEF TypeOK
<1>3. stage'[i] = s /\ lock' # i
  BY Specials DEF TypeOK
<1>4. \A j \in Instances \ {i} : lock' = j <=> lock = j
  BY Specials
<1>5. StartInv'
  <2> SUFFICES ASSUME NEW j \in Instances
               PROVE  /\ stage'[j] \in {"warmup", "wire", "serving"} => connected'[j]
                      /\ stage'[j] \in {"wire", "serving"} => ready'[j]
                      /\ stage'[j] \in {"down", "failed"} => ~connected'[j]
                      /\ stage'[j] \in {"connect", "warmup", "wire", "serving"} =>
                           \A v \in Files[j] : v <= version
                      /\ stage'[j] = "migrate" <=> lock' = j
                      /\ stage'[j] = "migrate" => pending'[j] = Unapplied(j)
    BY DEF StartInv, Unapplied
  <2>1. CASE j = i
    BY <1>3, <2>1
  <2>2. CASE j # i
    BY <1>2, <1>4, <2>2 DEF LifeInv, StartInv
  <2> QED BY <2>1, <2>2
<1> QED BY <1>1, <1>5 DEF LifeInv

LEMMA EndedLife ==
  ASSUME TypeOK, LifeInv, NEW i \in Instances, NEW s \in {"down", "failed"}, Ended(i, s)
  PROVE  LifeInv'
<1>1. /\ stage' = [stage EXCEPT ![i] = s] /\ lock' = IF lock = i THEN None ELSE lock
      /\ UNCHANGED <<version, applied>>
  BY DEF Ended, LockAfter
<1>2. \A j \in Instances \ {i} :
        connected'[j] = connected[j] /\ ready'[j] = ready[j] /\ pending'[j] = pending[j]
  BY DEF Ended, TypeOK
<1>3. ~connected'[i]
  BY DEF Ended, TypeOK
<1> QED BY <1>1, <1>2, <1>3, MovesLife DEF Stages

LEMMA StartLife ==
  ASSUME TypeOK, LifeInv, NEW i \in Instances, Start(i)
  PROVE  LifeInv'
<1>1. CASE Ended(i, "failed")
  BY <1>1, EndedLife
<1>2. CASE ~Ended(i, "failed")
  <2>1. /\ stage' = [stage EXCEPT ![i] = IF Files[i] = {} THEN "connect" ELSE "lock"]
        /\ UNCHANGED <<pending, connected, ready, version, lock, applied>>
    BY <1>2 DEF Start, database
  <2>2. lock # i
    BY DEF Start, LifeInv, StartInv
  <2>3. CASE Files[i] = {}
    BY <2>1, <2>2, <2>3, MovesLife DEF Stages, Starting
  <2>4. CASE Files[i] # {}
    BY <2>1, <2>2, <2>4, MovesLife DEF Stages, Starting
  <2> QED BY <2>3, <2>4
<1> QED BY <1>1, <1>2

LEMMA AcquireLife ==
  ASSUME TypeOK, LifeInv, NEW i \in Instances, AcquireMigrationLock(i)
  PROVE  LifeInv'
<1>1. /\ lock = None /\ lock' = i /\ stage[i] = "lock"
      /\ stage' = [stage EXCEPT ![i] = "migrate"]
      /\ pending' = [pending EXCEPT ![i] = Unapplied(i)]
      /\ UNCHANGED <<connected, ready, version, applied>>
  BY DEF AcquireMigrationLock, LockFree
<1>2. MigratedOnce'
  BY <1>1 DEF LifeInv, MigratedOnce
<1>3. \A j \in Instances \ {i} : stage'[j] = stage[j] /\ pending'[j] = pending[j] /\ stage[j] # "migrate"
  BY <1>1, Specials DEF TypeOK, LifeInv, StartInv
<1>4. stage'[i] = "migrate" /\ pending'[i] = Unapplied(i)
  BY <1>1 DEF TypeOK
<1>5. StartInv'
  BY <1>1, <1>3, <1>4 DEF LifeInv, StartInv, Unapplied
<1> QED BY <1>2, <1>5 DEF LifeInv

LEMMA ApplyLife ==
  ASSUME TypeOK, LifeInv, NEW i \in Instances, ApplyMigration(i)
  PROVE  LifeInv'
<1>1. PICK v \in pending[i] :
        /\ \A w \in pending[i] : v <= w
        /\ version' = v /\ applied' = Append(applied, v)
        /\ pending' = [pending EXCEPT ![i] = @ \ {v}]
  BY DEF ApplyMigration
<1>2. stage[i] = "migrate" /\ lock = i /\ pending[i] = Unapplied(i)
      /\ UNCHANGED <<stage, connected, ready, lock>>
  BY DEF ApplyMigration, LifeInv, StartInv
<1>3. v \in Files[i] /\ v \in Nat /\ v > version /\ version \in Nat
  BY <1>1, <1>2, Releases DEF Unapplied, TypeOK
<1>4. \A w \in Files[i] : w \in Nat
  BY Releases
<1>5. pending'[i] = {w \in Files[i] : w > v}
  BY <1>1, <1>2, <1>3, <1>4 DEF Unapplied, TypeOK
<1>6. \A j \in Instances \ {i} : stage[j] # "migrate"
  BY <1>2 DEF LifeInv, StartInv
<1>7. \A j \in Instances : \A w \in Files[j] : w <= version => w <= v
  BY <1>3, Releases
<1>8. StartInv'
  BY <1>1, <1>2, <1>5, <1>6, <1>7 DEF LifeInv, StartInv, Unapplied
<1>9. MigratedOnce'
  <2>1. applied \in Seq(Nat) /\ Len(applied) \in Nat
    BY DEF TypeOK
  <2>2. /\ Len(applied') = Len(applied) + 1 /\ DOMAIN applied' = 1 .. Len(applied) + 1
        /\ \A m \in 1 .. Len(applied) : applied'[m] = applied[m]
        /\ applied'[Len(applied) + 1] = v
    BY <1>1, <1>3, <2>1
  <2>3. \A m \in 1 .. Len(applied) : applied[m] \in Nat /\ applied[m] <= version
    <3> SUFFICES ASSUME NEW m \in 1 .. Len(applied)
                 PROVE  applied[m] \in Nat /\ applied[m] <= version
      OBVIOUS
    <3>1. applied # <<>> /\ version = applied[Len(applied)] /\ applied[m] \in Nat
      BY <2>1 DEF LifeInv, MigratedOnce
    <3>2. m < Len(applied) => applied[m] < applied[Len(applied)]
      BY <2>1 DEF LifeInv, MigratedOnce
    <3> QED BY <1>3, <2>1, <3>1, <3>2
  <2>4. \A m, n \in DOMAIN applied' : m < n => applied'[m] < applied'[n]
    <3> SUFFICES ASSUME NEW m \in 1 .. Len(applied) + 1, NEW n \in 1 .. Len(applied) + 1, m < n
                 PROVE  applied'[m] < applied'[n]
      BY <2>2
    <3>1. CASE n = Len(applied) + 1
      BY <1>3, <2>1, <2>2, <2>3, <3>1
    <3>2. CASE n # Len(applied) + 1
      <4>1. m \in 1 .. Len(applied) /\ n \in 1 .. Len(applied)
        BY <2>1, <3>2
      <4>2. applied[m] < applied[n]
        BY <2>1, <4>1 DEF LifeInv, MigratedOnce
      <4> QED BY <2>2, <4>1, <4>2
    <3> QED BY <3>1, <3>2
  <2>5. applied' # <<>> /\ version' = applied'[Len(applied')]
    BY <1>1, <2>1, <2>2
  <2> QED BY <2>4, <2>5 DEF MigratedOnce
<1> QED BY <1>8, <1>9 DEF LifeInv

LEMMA ReleaseLife ==
  ASSUME TypeOK, LifeInv, NEW i \in Instances, ReleaseMigrationLock(i)
  PROVE  LifeInv'
<1>1. /\ stage' = [stage EXCEPT ![i] = "connect"]
      /\ lock' = IF lock = i THEN None ELSE lock
      /\ UNCHANGED <<connected, ready, pending, version, applied>>
  BY DEF ReleaseMigrationLock, LockAfter
<1>2. Unapplied(i) = {}
  BY DEF ReleaseMigrationLock, LifeInv, StartInv
<1>3. \A v \in Files[i] : v <= version
  BY <1>2, Releases DEF Unapplied, TypeOK
<1> QED BY <1>1, <1>3, MovesLife DEF Stages, Starting

LEMMA ConnectLife ==
  ASSUME TypeOK, LifeInv, NEW i \in Instances, Connect(i) \/ WarmUp(i) \/ Wire(i)
  PROVE  LifeInv'
<1>1. CASE Ended(i, "failed")
  BY <1>1, EndedLife
<1>2. stage[i] \in {"connect", "warmup", "wire"} /\ lock # i /\ \A v \in Files[i] : v <= version
  BY DEF Connect, WarmUp, Wire, LifeInv, StartInv
<1>3. CASE Connect(i) /\ ~Ended(i, "failed")
  <2>1. /\ stage' = [stage EXCEPT ![i] = "warmup"] /\ connected' = [connected EXCEPT ![i] = TRUE]
        /\ UNCHANGED <<ready, pending, version, lock, applied>>
    BY <1>3 DEF Connect, database
  <2>2. connected'[i] /\ \A j \in Instances \ {i} : connected'[j] = connected[j]
    BY <2>1 DEF TypeOK
  <2> QED BY <1>2, <2>1, <2>2, MovesLife DEF Stages, Starting
<1>4. CASE WarmUp(i)
  <2>1. /\ stage[i] = "warmup" /\ stage' = [stage EXCEPT ![i] = "wire"]
        /\ ready' = [ready EXCEPT ![i] = TRUE]
        /\ UNCHANGED <<connected, pending, version, lock, applied>>
    BY <1>4 DEF WarmUp, database
  <2>2. /\ ready'[i] /\ connected'[i]
        /\ \A j \in Instances \ {i} : ready'[j] = ready[j]
    BY <2>1 DEF TypeOK, LifeInv, StartInv
  <2> QED BY <1>2, <2>1, <2>2, MovesLife DEF Stages, Starting
<1>5. CASE Wire(i) /\ ~Ended(i, "failed")
  <2>1. /\ stage[i] = "wire" /\ stage' = [stage EXCEPT ![i] = "serving"]
        /\ UNCHANGED <<connected, ready, pending, version, lock, applied>>
    BY <1>5 DEF Wire, database
  <2>2. ready'[i] /\ connected'[i]
    BY <2>1 DEF LifeInv, StartInv
  <2> QED BY <1>2, <2>1, <2>2, MovesLife DEF Stages
<1> QED BY <1>1, <1>3, <1>4, <1>5

LEMMA NextLife == TypeInv /\ LifeInv /\ [Next]_vars => LifeInv'
<1> SUFFICES ASSUME TypeInv, LifeInv, [Next]_vars PROVE LifeInv'
  OBVIOUS
<1> USE DEF TypeInv
<1>1. ASSUME NEW i \in Instances, Start(i) \/ Step(i) PROVE LifeInv'
  BY <1>1, StartLife, AcquireLife, ApplyLife, ReleaseLife, ConnectLife DEF Step
<1>2. ASSUME NEW i \in Instances, Fail(i) \/ Exit(i) PROVE LifeInv'
  BY <1>2, EndedLife DEF Fail, Exit
<1>3. ASSUME NEW i \in Instances, BeginPoll(i) \/ EndPoll(i) \/ WriteThrough(i) PROVE LifeInv'
  BY <1>3, LifeKept DEF BeginPoll, EndPoll, WriteThrough, database
<1>4. CASE Outage \/ Recovery \/ Tick
  BY <1>4, LifeKept DEF Outage, Recovery, Tick, database
<1>5. CASE UNCHANGED vars
  BY <1>5, LifeKept DEF vars, starting
<1> QED BY <1>1, <1>2, <1>3, <1>4, <1>5 DEF Next

THEOREM LifeHolds == Spec => []LifeInv
<1>1. Init => LifeInv
  BY Specials DEF Init, LifeInv, StartInv, MigratedOnce
<1> QED BY <1>1, NextLife, TypesHold, PTL DEF Spec

\* Each migration is applied once and in order, by any number of instances of any
\* releases: the lock orders them, and the version is read under it.
THEOREM MigrationsHold == Spec => []MigratedOnce
<1>1. LifeInv => MigratedOnce
  BY DEF LifeInv
<1> QED BY <1>1, LifeHolds, PTL

\* An instance that serves has its connection, a warm cache, the functions of its release
\* and an interval to poll in; one that is down has left neither connection nor lock.
THEOREM StartHolds == Spec => []StartsWhole
<1>1. TypeInv /\ LifeInv => StartsWhole
  <2> SUFFICES ASSUME TypeInv, LifeInv, NEW i \in Instances
               PROVE  /\ stage[i] = "serving" => /\ connected[i] /\ ready[i]
                                                 /\ PollInterval(i) # Invalid
                                                 /\ \A v \in Files[i] : v <= version
                      /\ stage[i] \in {"down", "failed"} => ~connected[i] /\ lock # i
    BY DEF StartsWhole
  <2>1. stage[i] = "serving" => PollInterval(i) # Invalid
    BY DEF TypeInv, ServingInv, LoadRuleSyncWorkerConfig, PollInterval
  <2> QED BY <2>1 DEF LifeInv, StartInv
<1> QED BY <1>1, TypesHold, LifeHolds, PTL
-----------------------------------------------------------------------------
(* Polls, the circuit breaker and the probe.                               *)

\* The probe sees the time since the last poll or the last write-through, the shorter of them.
AgeInv == \A i \in Instances : age[i] = IF wrote[i] < fresh[i] THEN wrote[i] ELSE fresh[i]

\* steady only counts while an instance serves with the database up; an open breaker has
\* counted at least as long; and a poll that came after OpenTimeout of such ticks has
\* succeeded.
SteadyInv ==
  \A i \in Instances :
    /\ ~up \/ stage[i] # "serving" => steady[i] = 0
    /\ breaker[i] = "open" => opened[i] >= steady[i] \/ opened[i] = OpenTimeout + 1
    /\ stage[i] = "serving" => wait[i] <= PollInterval(i)
    /\ stage[i] = "serving" /\ steady[i] > OpenTimeout + (PollInterval(i) - wait[i]) =>
         breaker[i] = "closed" /\ fresh[i] <= PollInterval(i) - wait[i]

\* An outage costs the failures that open the breaker, and one for each full timeout.
LoadInv ==
  \A i \in Instances :
    /\ (asked[i] - FailureThresh) * (OpenTimeout + 1) <= down
    /\ failures[i] < FailureThresh
    /\ breaker[i] = "half-open" => opened[i] = OpenTimeout + 1
    /\ ~up /\ breaker[i] = "closed" => asked[i] <= failures[i]
    /\ ~up /\ breaker[i] # "closed" =>
         (asked[i] - FailureThresh) * (OpenTimeout + 1) <= down - opened[i]

PollInv == AgeInv /\ SteadyInv /\ LoadInv

\* What PollInv says of instance i.
PollInvAt(i) ==
  /\ age[i] = IF wrote[i] < fresh[i] THEN wrote[i] ELSE fresh[i]
  /\ ~up \/ stage[i] # "serving" => steady[i] = 0
  /\ breaker[i] = "open" => opened[i] >= steady[i] \/ opened[i] = OpenTimeout + 1
  /\ stage[i] = "serving" => wait[i] <= PollInterval(i)
  /\ stage[i] = "serving" /\ steady[i] > OpenTimeout + (PollInterval(i) - wait[i]) =>
       breaker[i] = "closed" /\ fresh[i] <= PollInterval(i) - wait[i]
  /\ (asked[i] - FailureThresh) * (OpenTimeout + 1) <= down
  /\ failures[i] < FailureThresh
  /\ breaker[i] = "half-open" => opened[i] = OpenTimeout + 1
  /\ ~up /\ breaker[i] = "closed" => asked[i] <= failures[i]
  /\ ~up /\ breaker[i] # "closed" =>
       (asked[i] - FailureThresh) * (OpenTimeout + 1) <= down - opened[i]

LEMMA PollInvParts ==
  /\ PollInv <=> \A i \in Instances : PollInvAt(i)
  /\ PollInv' <=> \A i \in Instances : PollInvAt(i)'
BY DEF PollInv, PollInvAt, AgeInv, SteadyInv, LoadInv

\* No question has been asked in an outage that begins, or by a process that begins.
LEMMA NothingAsked ==
  ASSUME NEW d \in Nat, NEW o \in 0 .. OpenTimeout + 1
  PROVE  /\ (0 - FailureThresh) * (OpenTimeout + 1) <= d
         /\ (0 - FailureThresh) * (OpenTimeout + 1) <= d - o
<1>1. (0 - FailureThresh) * (OpenTimeout + 1) <= 0 - (OpenTimeout + 1)
  BY Thresholds
<1>2. (0 - FailureThresh) * (OpenTimeout + 1) \in Int
  BY Thresholds
<1> QED BY <1>1, <1>2, Thresholds

\* What an action leaves as it is for instance j.
SameAt(j) ==
  /\ stage'[j] = stage[j] /\ cfg'[j] = cfg[j] /\ wrote'[j] = wrote[j]
  /\ age'[j] = age[j] /\ fresh'[j] = fresh[j] /\ wait'[j] = wait[j] /\ steady'[j] = steady[j]
  /\ breaker'[j] = breaker[j] /\ failures'[j] = failures[j] /\ opened'[j] = opened[j]
  /\ asked'[j] = asked[j]

LEMMA SameKept ==
  ASSUME NEW j \in Instances, PollInvAt(j), SameAt(j), up' = up, down' = down
  PROVE  PollInvAt(j)'
BY DEF PollInvAt, SameAt, PollInterval

LEMMA EndedPoll ==
  ASSUME TypeOK, PollInv, NEW i \in Instances, NEW s \in {"down", "failed"}, Ended(i, s)
  PROVE  PollInv'
<1>1. up' = up /\ down' = down /\ down \in Nat
  BY Thresholds, TypeParts DEF Ended, ClockTypes
<1>2. ASSUME NEW j \in Instances, j # i PROVE SameAt(j)
  BY <1>2, TypeParts DEF StartTypes, ClockTypes, BreakerTypes, Ended, SameAt
<1>3. /\ stage'[i] = s /\ wrote'[i] = CacheStalenessThreshold + 1
      /\ age'[i] = CacheStalenessThreshold + 1 /\ fresh'[i] = CacheStalenessThreshold + 1 /\ steady'[i] = 0
      /\ breaker'[i] = "closed" /\ failures'[i] = 0 /\ opened'[i] = 0 /\ asked'[i] = 0
  BY TypeParts DEF StartTypes, ClockTypes, BreakerTypes, Ended
<1>4. PollInvAt(i)'
  BY <1>1, <1>3, Thresholds, NothingAsked DEF PollInvAt
<1> QED BY <1>1, <1>2, <1>4, SameKept, PollInvParts

\* The steps of InitServers.
LEMMA InitServersPoll ==
  ASSUME TypeInv, PollInv, NEW i \in Instances, Start(i) \/ Step(i)
  PROVE  PollInv'
<1> USE DEF TypeInv
<1>1. CASE Ended(i, "failed")
  BY <1>1, EndedPoll
<1>2. CASE ~Ended(i, "failed")
  <2>1. UNCHANGED <<up, down, wrote, steady, breaker, failures, opened, asked>>
    BY <1>2 DEF Start, Step, AcquireMigrationLock, ApplyMigration, ReleaseMigrationLock, Connect,
                WarmUp, Wire, breaking, database
  <2>2. ASSUME NEW j \in Instances, j # i PROVE SameAt(j)
    BY <1>2, <2>1, <2>2, TypeParts
       DEF Start, Step, AcquireMigrationLock, ApplyMigration, ReleaseMigrationLock, Connect,
           WarmUp, Wire, breaking, database, StartTypes, ClockTypes, SameAt
  <2>3. stage[i] # "serving"
    BY DEF Start, Step, AcquireMigrationLock, ApplyMigration, ReleaseMigrationLock, Connect,
           WarmUp, Wire
  <2>4. steady[i] = 0 /\ PollInvAt(i)
    BY <2>3, PollInvParts DEF PollInvAt
  <2>5. (age'[i] = age[i] /\ fresh'[i] = fresh[i]) \/ (age'[i] = 0 /\ fresh'[i] = 0)
    BY <1>2, TypeParts
       DEF Start, Step, AcquireMigrationLock, ApplyMigration, ReleaseMigrationLock, Connect,
           WarmUp, Wire, ClockTypes
  <2>6. /\ stage'[i] = "serving" => wait'[i] = PollInterval(i)'
        /\ stage'[i] = "serving" => PollInterval(i)' \in Nat
    <3>1. CASE stage'[i] # "serving"
      BY <3>1
    <3>2. CASE stage'[i] = "serving"
      <4>1. Wire(i)
        BY <1>2, <2>3, <3>2, TypeParts
           DEF Start, Step, AcquireMigrationLock, ApplyMigration, ReleaseMigrationLock, Connect,
               WarmUp, StartTypes
      <4>2. /\ wait'[i] = PollInterval(i) /\ cfg' = cfg /\ LoadRuleSyncWorkerConfig(cfg[i])
            /\ stage[i] = "wire"
        BY <1>2, <4>1, TypeParts DEF Wire, ClockTypes
      <4>3. cfg[i] \in Config
        BY <4>2 DEF ServingInv, Starting
      <4> QED BY <4>2, <4>3, IntervalType DEF PollInterval
    <3> QED BY <3>1, <3>2
  <2>7. PollInvAt(i)'
    <3>1. wrote[i] \in Nat
      BY TypeParts, Thresholds DEF BreakerTypes
    <3> QED BY <2>1, <2>4, <2>5, <2>6, <3>1, Thresholds DEF PollInvAt
  <2> QED BY <2>1, <2>2, <2>7, SameKept, PollInvParts
<1> QED BY <1>1, <1>2

LEMMA BeginPollPoll ==
  ASSUME TypeInv, PollInv, NEW i \in Instances, BeginPoll(i)
  PROVE  PollInv'
<1> USE DEF TypeInv
<1>1. /\ stage[i] = "serving" /\ wait[i] = 0
      /\ UNCHANGED <<stage, cfg, up, down, wrote, age, fresh, steady, opened, asked>>
  BY DEF BeginPoll, Rejected, Admitted, starting, database, breaking
<1>2. PollInterval(i) \in Nat /\ PollInvAt(i) /\ PollInterval(i)' = PollInterval(i)
  BY <1>1, PollIntervalType, PollInvParts DEF PollInterval
<1>3. steady[i] \in Nat /\ opened[i] \in 0 .. OpenTimeout + 1 /\ failures[i] \in Nat /\ asked[i] \in Nat
      /\ fresh[i] \in Nat /\ down \in Nat
  BY TypeParts, Thresholds DEF ClockTypes, BreakerTypes
<1>4. ASSUME NEW j \in Instances, j # i PROVE SameAt(j)
  BY <1>1, <1>4, TypeParts DEF BeginPoll, Rejected, Admitted, breaking, ClockTypes, BreakerTypes, SameAt
<1>5. CASE Rejected(i)
  <2>1. /\ breaker[i] = "open" /\ opened[i] <= OpenTimeout
        /\ wait'[i] = PollInterval(i) /\ UNCHANGED <<breaker, failures>>
    BY <1>3, <1>5, TypeParts, Thresholds DEF Rejected, Probes, breaking, ClockTypes
  <2>2. steady[i] <= OpenTimeout
    BY <1>2, <1>3, <2>1, Thresholds DEF PollInvAt
  <2>3. PollInvAt(i)'
    BY <1>1, <1>2, <1>3, <2>1, <2>2, Thresholds DEF PollInvAt
  <2> QED BY <1>1, <1>4, <2>3, SameKept, PollInvParts
<1>6. CASE Admitted(i) /\ ~Probes(i)
  <2>1. UNCHANGED <<wait>> /\ breaker'[i] = breaker[i] /\ failures'[i] = failures[i]
    BY <1>6, TypeParts DEF Admitted, BreakerTypes
  <2>2. PollInvAt(i)'
    BY <1>1, <1>2, <2>1 DEF PollInvAt
  <2> QED BY <1>1, <1>4, <2>2, SameKept, PollInvParts
<1>7. CASE Admitted(i) /\ Probes(i)
  <2>1. /\ breaker[i] = "open" /\ opened[i] = OpenTimeout + 1 /\ wait' = wait
        /\ breaker'[i] = "half-open" /\ failures'[i] = 0
    BY <1>3, <1>7, TypeParts, Thresholds DEF Admitted, Probes, BreakerTypes
  <2>2. PollInvAt(i)'
    BY <1>1, <1>2, <1>3, <2>1, Thresholds DEF PollInvAt
  <2> QED BY <1>1, <1>4, <2>2, SameKept, PollInvParts
<1> QED BY <1>5, <1>6, <1>7 DEF BeginPoll

\* One more question costs one more timeout.
LEMMA OneMore ==
  ASSUME NEW n \in Nat
  PROVE  (n + 1 - FailureThresh) * (OpenTimeout + 1)
           = (n - FailureThresh) * (OpenTimeout + 1) + (OpenTimeout + 1)
BY Thresholds

LEMMA EndPollPoll ==
  ASSUME TypeInv, PollInv, NEW i \in Instances, EndPoll(i)
  PROVE  PollInv'
<1> USE DEF TypeInv
<1>1. /\ stage[i] = "serving" /\ polling[i] /\ breaker[i] # "open"
      /\ wait' = [wait EXCEPT ![i] = PollInterval(i)]
      /\ UNCHANGED <<stage, cfg, up, down, steady>>
  BY DEF EndPoll, starting, database, ServingInv, TypeOK
<1>2. PollInterval(i) \in Nat /\ PollInvAt(i) /\ PollInterval(i)' = PollInterval(i)
      /\ wait'[i] = PollInterval(i)
  BY <1>1, PollIntervalType, PollInvParts, TypeParts DEF PollInterval, ClockTypes
<1>3. steady[i] \in Nat /\ opened[i] \in 0 .. OpenTimeout + 1 /\ failures[i] \in Nat /\ asked[i] \in Nat
      /\ down \in Nat /\ breaker[i] \in {"closed", "half-open"}
  BY <1>1, TypeParts, Thresholds DEF ClockTypes, BreakerTypes
<1>4. ASSUME NEW j \in Instances, j # i PROVE SameAt(j)
  BY <1>1, <1>4, TypeParts
     DEF EndPoll, Succeed, FailQuery, Trip, ClockTypes, BreakerTypes, SameAt
<1>5. CASE Succeed(i)
  <2>1. /\ age'[i] = 0 /\ fresh'[i] = 0 /\ wrote'[i] = CacheStalenessThreshold + 1 /\ breaker'[i] = "closed"
        /\ failures'[i] = 0 /\ up /\ UNCHANGED <<opened, asked>>
    BY <1>5, TypeParts DEF Succeed, ClockTypes, BreakerTypes
  <2>2. PollInvAt(i)'
    BY <1>1, <1>2, <1>3, <2>1, Thresholds DEF PollInvAt
  <2> QED BY <1>1, <1>4, <2>2, SameKept, PollInvParts
<1>6. CASE FailQuery(i)
  <2>1. /\ ~up /\ asked'[i] = asked[i] + 1 /\ opened'[i] = 0 /\ UNCHANGED <<age, fresh, wrote>>
        /\ steady[i] = 0
    BY <1>2, <1>6, TypeParts DEF FailQuery, Trip, ClockTypes, PollInvAt
  <2>2. CASE breaker[i] = "half-open" \/ ReadyToTrip(i)
    <3>1. breaker'[i] = "open" /\ failures'[i] = 0
      BY <1>6, <2>2, TypeParts DEF FailQuery, Trip, BreakerTypes
    <3>2. (asked'[i] - FailureThresh) * (OpenTimeout + 1) <= down
      <4>1. CASE breaker[i] = "half-open"
        <5>1. (asked[i] - FailureThresh) * (OpenTimeout + 1) <= down - (OpenTimeout + 1)
          BY <1>2, <2>1, <4>1 DEF PollInvAt
        <5>2. (asked[i] - FailureThresh) * (OpenTimeout + 1) \in Int
          BY <1>3, Thresholds
        <5>3. (asked'[i] - FailureThresh) * (OpenTimeout + 1)
                = (asked[i] - FailureThresh) * (OpenTimeout + 1) + (OpenTimeout + 1)
          <6>1. asked'[i] - FailureThresh = asked[i] + 1 - FailureThresh
            BY <1>3, <2>1, Thresholds
          <6>2. asked[i] \in Nat
            BY <1>3
          <6> QED BY <6>1, <6>2, OneMore
        <5> QED BY <1>3, <5>1, <5>2, <5>3, Thresholds
      <4>2. CASE breaker[i] = "closed"
        <5>1. asked'[i] <= FailureThresh /\ asked'[i] \in Nat
          BY <1>2, <1>3, <2>1, <4>2, Thresholds DEF PollInvAt
        <5>2. (asked'[i] - FailureThresh) * (OpenTimeout + 1) <= 0
          BY <5>1, Thresholds
        <5>3. (asked'[i] - FailureThresh) * (OpenTimeout + 1) \in Int
          BY <5>1, Thresholds
        <5> QED BY <1>3, <5>2, <5>3
      <4> QED BY <1>3, <4>1, <4>2
    <3>3. PollInvAt(i)'
      BY <1>1, <1>2, <1>3, <2>1, <3>1, <3>2, Thresholds DEF PollInvAt
    <3> QED BY <1>1, <1>4, <3>3, SameKept, PollInvParts
  <2>3. CASE breaker[i] = "closed" /\ ~ReadyToTrip(i)
    <3>1. breaker'[i] = "closed" /\ failures'[i] = failures[i] + 1 /\ failures'[i] < FailureThresh
      BY <1>3, <1>6, <2>3, TypeParts, Thresholds DEF FailQuery, Trip, ReadyToTrip, BreakerTypes
    <3>2. asked'[i] <= failures'[i] /\ asked'[i] \in Nat
      BY <1>2, <1>3, <2>1, <2>3, <3>1 DEF PollInvAt
    <3>3. (asked'[i] - FailureThresh) * (OpenTimeout + 1) <= down
      <4>1. asked'[i] <= FailureThresh
        BY <1>3, <3>1, <3>2, Thresholds
      <4>2. (asked'[i] - FailureThresh) * (OpenTimeout + 1) <= 0
        BY <3>2, <4>1, Thresholds
      <4>3. (asked'[i] - FailureThresh) * (OpenTimeout + 1) \in Int
        BY <3>2, Thresholds
      <4> QED BY <1>3, <4>2, <4>3
    <3>4. PollInvAt(i)'
      BY <1>1, <1>2, <1>3, <2>1, <3>1, <3>2, <3>3, Thresholds DEF PollInvAt
    <3> QED BY <1>1, <1>4, <3>4, SameKept, PollInvParts
  <2> QED BY <1>3, <2>2, <2>3
<1> QED BY <1>5, <1>6 DEF EndPoll

LEMMA WriteThroughPoll ==
  ASSUME TypeInv, PollInv, NEW i \in Instances, WriteThrough(i)
  PROVE  PollInv'
<1> USE DEF TypeInv
<1>1. /\ UNCHANGED <<stage, cfg, up, down, steady, breaker, failures, opened, wait, fresh, asked>>
      /\ age' = [age EXCEPT ![i] = 0] /\ wrote' = [wrote EXCEPT ![i] = 0]
  BY DEF WriteThrough, starting, breaking, database
<1>2. ASSUME NEW j \in Instances, j # i PROVE SameAt(j)
  BY <1>1, <1>2, TypeParts DEF ClockTypes, BreakerTypes, SameAt
<1>3. wrote'[i] = 0 /\ age'[i] = 0 /\ fresh'[i] \in Nat
  BY <1>1, TypeParts, Thresholds DEF BreakerTypes, ClockTypes
<1>4. PollInvAt(i)'
  BY <1>1, <1>3, PollInvParts DEF PollInvAt, PollInterval
<1> QED BY <1>1, <1>2, <1>4, SameKept, PollInvParts

LEMMA WorldPoll ==
  ASSUME TypeInv, PollInv, Outage \/ Recovery \/ Tick
  PROVE  PollInv'
<1> USE DEF TypeInv
<1> SUFFICES ASSUME NEW i \in Instances PROVE PollInvAt(i)'
  BY PollInvParts
<1>1. PollInvAt(i)
  BY PollInvParts
<1>2. /\ steady[i] \in Nat /\ opened[i] \in 0 .. OpenTimeout + 1 /\ failures[i] \in Nat
      /\ asked[i] \in Nat /\ down \in Nat /\ fresh[i] \in Nat /\ age[i] \in Nat /\ wait[i] \in Nat
      /\ wrote[i] \in Nat /\ down' \in Nat
  BY WorldType, TypeParts, TypePartsNext, Thresholds DEF ClockTypes, BreakerTypes
<1>3. /\ UNCHANGED <<stage, cfg, breaker, failures>> /\ PollInterval(i)' = PollInterval(i)
      /\ stage[i] = "serving" => PollInterval(i) \in Nat
  BY PollIntervalType DEF Outage, Recovery, Tick, starting, breaking, PollInterval
<1>4. CASE Outage
  <2>1. /\ UNCHANGED <<age, fresh, wrote, opened, wait>> /\ asked'[i] = 0 /\ steady'[i] = 0 /\ down' = 0
    BY <1>4 DEF Outage, breaking
  <2> QED BY <1>1, <1>2, <1>3, <2>1, Thresholds, NothingAsked DEF PollInvAt
<1>5. CASE Recovery
  <2>1. up' /\ ~up /\ UNCHANGED <<age, fresh, wrote, opened, wait, asked, steady, down>>
    BY <1>5 DEF Recovery, breaking
  <2> QED BY <1>1, <1>2, <1>3, <2>1 DEF PollInvAt
<1>6. CASE Tick
  <2>1. /\ up' = up /\ asked' = asked /\ down' = IF up THEN down ELSE down + 1
        /\ age'[i] = Capped(age[i] + 1, CacheStalenessThreshold + 1)
        /\ fresh'[i] = Capped(fresh[i] + 1, CacheStalenessThreshold + 1)
        /\ wrote'[i] = Capped(wrote[i] + 1, CacheStalenessThreshold + 1)
        /\ opened'[i] = IF breaker[i] = "open" THEN Capped(opened[i] + 1, OpenTimeout + 1) ELSE opened[i]
        /\ steady'[i] = IF up /\ stage[i] = "serving" THEN Capped(steady[i] + 1, MaxSteady) ELSE 0
        /\ wait'[i] = IF wait[i] > 0 THEN wait[i] - 1 ELSE 0
        /\ stage[i] = "serving" => wait[i] > 0
    BY <1>6 DEF Tick, database
  <2>2. /\ steady'[i] <= steady[i] + 1 /\ steady'[i] \in Nat
        /\ fresh'[i] <= fresh[i] + 1 /\ fresh'[i] \in Nat
    BY <1>2, <2>1, Thresholds DEF Capped
  <2>3. age'[i] = IF wrote'[i] < fresh'[i] THEN wrote'[i] ELSE fresh'[i]
    BY <1>1, <1>2, <2>1, Thresholds DEF PollInvAt, Capped
  <2>4. ~up \/ stage[i] # "serving" => steady'[i] = 0
    BY <2>1
  <2>5. breaker[i] = "open" => opened'[i] >= steady'[i] \/ opened'[i] = OpenTimeout + 1
    BY <1>1, <1>2, <2>1, <2>2, Thresholds DEF PollInvAt, Capped
  <2>6. stage[i] = "serving" => wait'[i] = wait[i] - 1 /\ wait'[i] \in Nat /\ wait'[i] <= PollInterval(i)
    BY <1>1, <1>2, <1>3, <2>1 DEF PollInvAt
  <2>7. stage[i] = "serving" /\ steady'[i] > OpenTimeout + (PollInterval(i) - wait'[i]) =>
          breaker[i] = "closed" /\ fresh'[i] <= PollInterval(i) - wait'[i]
    BY <1>1, <1>2, <1>3, <2>2, <2>6, Thresholds DEF PollInvAt
  <2> DEFINE cost == (asked[i] - FailureThresh) * (OpenTimeout + 1)
  <2>8. cost \in Int
    BY <1>2, Thresholds
  <2>9. cost <= down /\ (~up /\ breaker[i] # "closed" => cost <= down - opened[i])
    BY <1>1 DEF PollInvAt
  <2> HIDE DEF cost
  <2>10. cost <= down'
    BY <1>2, <2>1, <2>8, <2>9
  <2>11. ~up /\ breaker[i] # "closed" => cost <= down' - opened'[i]
    BY <1>2, <2>1, <2>8, <2>9, Thresholds DEF Capped
  <2>12. breaker[i] = "half-open" => opened'[i] = OpenTimeout + 1
    BY <1>1, <2>1 DEF PollInvAt
  <2> QED BY <1>1, <1>3, <2>1, <2>3, <2>4, <2>5, <2>6, <2>7, <2>10, <2>11, <2>12 DEF PollInvAt, cost
<1> QED BY <1>4, <1>5, <1>6

THEOREM PollsHold == Spec => []PollInv
<1>1. Init => PollInv
  BY Thresholds, NothingAsked DEF Init, PollInv, AgeInv, SteadyInv, LoadInv
<1>2. TypeInv /\ PollInv /\ [Next]_vars => PollInv'
  <2> SUFFICES ASSUME TypeInv, PollInv, [Next]_vars PROVE PollInv'
    OBVIOUS
  <2>1. ASSUME NEW i \in Instances, Fail(i) \/ Exit(i) PROVE PollInv'
    BY <2>1, EndedPoll DEF Fail, Exit, TypeInv
  <2>2. CASE UNCHANGED vars
    BY <2>2 DEF vars, PollInv, AgeInv, SteadyInv, LoadInv, PollInterval
  <2> QED BY <2>1, <2>2, InitServersPoll, BeginPollPoll, EndPollPoll, WriteThroughPoll, WorldPoll DEF Next
<1> QED BY <1>1, <1>2, TypesHold, PTL DEF Spec

\* A probe of an instance whose polls fail for longer than the threshold says so, at the
\* latest when that time has also passed since a command of its own touched the cache.
THEOREM ProbeHolds == Spec => []SilentOutageReported
<1>1. TypeInv /\ PollInv => SilentOutageReported
  BY Thresholds DEF TypeInv, TypeOK, PollInv, AgeInv, SilentOutageReported, Readiness, checkPostgres,
                    checkRuleCache
<1> QED BY <1>1, TypesHold, PollsHold, PTL

\* After any outages the breaker closes within its timeout and an interval of a database
\* that answers, and stays closed as long as it does.
THEOREM RecoveryHolds == Spec => []RecoversInTime
<1>1. TypeInv /\ PollInv => RecoversInTime
  <2> SUFFICES ASSUME TypeInv, PollInv, NEW i \in Instances, stage[i] = "serving",
                      steady[i] > OpenTimeout + PollInterval(i)
               PROVE  breaker[i] = "closed" /\ fresh[i] <= PollInterval(i)
    BY DEF RecoversInTime
  <2>1. PollInterval(i) \in Nat
    BY PollIntervalType
  <2>2. wait[i] \in Nat /\ steady[i] \in Nat /\ fresh[i] \in Nat
    BY TypeParts, Thresholds DEF TypeInv, ClockTypes
  <2>3. steady[i] > OpenTimeout + (PollInterval(i) - wait[i])
    BY <2>1, <2>2, Thresholds
  <2>4. breaker[i] = "closed" /\ fresh[i] <= PollInterval(i) - wait[i]
    BY <2>3 DEF PollInv, SteadyInv
  <2> QED BY <2>1, <2>2, <2>4
<1> QED BY <1>1, TypesHold, PollsHold, PTL

\* The breaker bounds what an instance asks of a database that is down, however long.
THEOREM LoadHolds == Spec => []LoadBounded
<1>1. TypeInv /\ PollInv => LoadBounded
  <2> SUFFICES ASSUME TypeInv, PollInv, NEW i \in Instances
               PROVE  asked[i] <= FailureThresh + down \div (OpenTimeout + 1)
    BY DEF LoadBounded
  <2>1. asked[i] \in Nat /\ down \in Nat
    BY TypeParts, Thresholds DEF TypeInv, ClockTypes
  <2>2. (asked[i] - FailureThresh) * (OpenTimeout + 1) <= down
    BY DEF PollInv, LoadInv
  <2> DEFINE n == OpenTimeout + 1
             q == down \div n
             a == asked[i] - FailureThresh
  <2>3. n \in Nat /\ n > 0 /\ a \in Int
    BY <2>1, Thresholds
  <2>4. a * n <= down
    BY <2>2
  <2> HIDE DEF n, a
  <2>5. q \in Nat /\ down = n * q + (down % n) /\ (down % n) < n
    BY <2>1, <2>3
  <2> HIDE DEF q
  <2>6. a <= q
    <3> SUFFICES ASSUME a >= q + 1 PROVE FALSE
      BY <2>3, <2>5
    <3>1. a * n >= (q + 1) * n
      BY <2>3, <2>5
    <3>2. (q + 1) * n = n * q + n
      BY <2>3, <2>5
    <3>3. n * q \in Int /\ a * n \in Int /\ (down % n) \in Int
      BY <2>1, <2>3, <2>5
    <3> QED BY <2>1, <2>3, <2>4, <2>5, <3>1, <3>2, <3>3
  <2> QED BY <2>1, <2>5, <2>6, Thresholds DEF a, q, n
<1> QED BY <1>1, TypesHold, PollsHold, PTL
=============================================================================
