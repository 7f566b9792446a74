----------------------------- MODULE LimitProofs -----------------------------
(***************************************************************************)
(* Theorems about LimitLifecycle, for any limits, commands, charges and    *)
(* batch size: types, that deleted_at and the status agree, that names are *)
(* unique, that what is audited was stored, that a deleted limit stays as  *)
(* it is, that the clean-up never lets a period be overspent, and that it  *)
(* cannot be told from keeping every counter.                              *)
(***************************************************************************)
EXTENDS LimitLifecycle, TLAPS

Live == Statuses \ {"ABSENT", "DELETED"}

\* What a command that is about to write relies on: the row it read is still there, deleted
\* or not, and a whole row is written only for a limit in use.
MemInv ==
  \A c \in Commands : pc[c] = "write" =>
    /\ req[c].op # "create" => limit[req[c].id].status # "ABSENT"
    /\ req[c].op \in {"create", "update"} => ~mem[c].gone /\ mem[c].status \in Live

\* A command that comes to its audit event has changed its row.
AuditInv == \A c \in Commands : pc[c] = "audit" => c \in applied

\* The inductive strengthening of the invariants about the limits table.
TableInv == TypeOK /\ MemInv /\ DeletedAtAgrees /\ NamesUnique /\ AuditInv /\ AuditedWasApplied

LEMMA RequestType ==
  ASSUME NEW c \in Commands, NEW q \in RequestsOf[c]
  PROVE  /\ q \in Requests
         /\ q.op \in Ops /\ q.id \in Limits
         /\ q.name \in Names \cup {None} /\ q.max \in Nat \cup {None} /\ q.end \in Nat \cup {None}
         /\ q.op = "create" => q.name # None /\ q.max # None
<1>1. q \in Requests
  BY DEF Requests
<1> QED BY <1>1, LimitAssumption

LEMMA UpdatedType ==
  ASSUME NEW c \in Commands, NEW q \in RequestsOf[c], NEW l \in Rows
  PROVE  /\ Updated(q, l) \in Rows
         /\ Updated(q, l).status = l.status /\ Updated(q, l).gone = l.gone
<1>1. /\ Given(q, "name", l.name) \in Names
      /\ Given(q, "max", l.max) \in Nat /\ Given(q, "end", l.end) \in Nat
  BY RequestType DEF Given, Rows
<1> QED BY <1>1 DEF Updated, Rows

LEMMA NewLimitType ==
  ASSUME NEW c \in Commands, NEW q \in RequestsOf[c], q.op = "create"
  PROVE  /\ NewLimit(q) \in Rows
         /\ NewLimit(q).status = "DRAFT" /\ NewLimit(q).gone = FALSE
<1>1. q.name \in Names /\ q.max \in Nat /\ Given(q, "end", 0) \in Nat
  BY RequestType DEF Given
<1> QED BY <1>1 DEF NewLimit, Rows, Statuses

LEMMA NewStatusType ==
  ASSUME NEW q \in Requests, q.op \notin {"create", "update"}
  PROVE  NewStatus(q) \in Statuses \ {"ABSENT"}
<1>1. q.op \in Ops
  BY LimitAssumption
<1> QED BY <1>1 DEF NewStatus, Ops, Statuses

LEMMA SetStatusType ==
  ASSUME NEW l \in Rows, NEW s \in Statuses
  PROVE  SetStatus(l, s) \in Rows
BY DEF SetStatus, Rows

\* How a command goes on to its statement.
LEMMA GoOnKeeps ==
  ASSUME TableInv, NEW c \in Commands, NEW q \in Requests, NEW l \in Rows, GoOn(c, q, l),
         UNCHANGED <<table, applied, audited, usage, charging, cleaning, now>>,
         q.op # "create" => limit[q.id].status # "ABSENT",
         q.op \in {"create", "update"} => ~l.gone /\ l.status \in Live
  PROVE  TableInv'
<1> USE DEF TableInv
<1>1. TypeOK'
  BY DEF TypeOK, GoOn, CommandPoints, table, usage, charging, cleaning
<1>2. MemInv'
  BY DEF MemInv, TypeOK, GoOn, table
<1>3. DeletedAtAgrees' /\ NamesUnique' /\ AuditedWasApplied'
  BY DEF DeletedAtAgrees, NamesUnique, SameName, AuditedWasApplied, table
<1>4. AuditInv'
  BY DEF AuditInv, TypeOK, GoOn
<1> QED BY <1>1, <1>2, <1>3, <1>4

\* A command that returns leaves the rest as it is.
LEMMA ReturnKeeps ==
  ASSUME TableInv, NEW c \in Commands, Return(c),
         UNCHANGED <<table, applied, usage, charging, cleaning, now>>,
         audited' \subseteq applied
  PROVE  TableInv'
<1> USE DEF TableInv
<1>1. TypeOK'
  BY DEF TypeOK, Return, CommandPoints, table, usage, charging, cleaning
<1>2. MemInv'
  BY DEF MemInv, TypeOK, Return, table
<1>3. DeletedAtAgrees' /\ NamesUnique' /\ AuditedWasApplied'
  BY DEF DeletedAtAgrees, NamesUnique, SameName, AuditedWasApplied, table
<1>4. AuditInv'
  BY DEF AuditInv, TypeOK, Return
<1> QED BY <1>1, <1>2, <1>3, <1>4

LEMMA BeginKeeps ==
  ASSUME TableInv, NEW c \in Commands, Begin(c)
  PROVE  TableInv'
<1>1. PICK q \in RequestsOf[c] :
        \/ CreateLimit(c, q) \/ UpdateLimit(c, q)
        \/ ActivateLimit(c, q) \/ DeactivateLimit(c, q) \/ DraftLimit(c, q) \/ DeleteLimit(c, q)
  BY DEF Begin
<1>2. UNCHANGED <<table, applied, audited, usage, charging, cleaning, now>>
  BY DEF Begin
<1>3. q \in Requests /\ q.id \in Limits /\ limit[q.id] \in Rows
  BY RequestType DEF TableInv, TypeOK
<1>4. CASE Return(c)
  BY <1>2, <1>4, ReturnKeeps DEF TableInv, AuditedWasApplied
<1>5. CASE CreateLimit(c, q) /\ ~Return(c)
  <2>1. q.op = "create" /\ GoOn(c, q, NewLimit(q))
    BY <1>5 DEF CreateLimit
  <2>2. /\ NewLimit(q) \in Rows
        /\ NewLimit(q).status = "DRAFT" /\ NewLimit(q).gone = FALSE
    BY <2>1, NewLimitType
  <2> HIDE DEF NewLimit
  <2> QED BY <1>2, <1>3, <2>1, <2>2, GoOnKeeps DEF Live, Statuses
<1>6. CASE UpdateLimit(c, q) /\ ~Return(c)
  <2>1. /\ q.op = "update" /\ GoOn(c, q, Updated(q, limit[q.id]))
        /\ limit[q.id].status # "DELETED" /\ Found(q)
    BY <1>6 DEF UpdateLimit
  <2>2. /\ Updated(q, limit[q.id]) \in Rows
        /\ Updated(q, limit[q.id]).status = limit[q.id].status
        /\ Updated(q, limit[q.id]).gone = limit[q.id].gone
    BY <1>3, UpdatedType
  <2>3. limit[q.id].status \in Live /\ ~limit[q.id].gone
    BY <1>3, <2>1 DEF Found, Live, Rows
  <2> HIDE DEF Updated
  <2> QED BY <1>2, <1>3, <2>1, <2>2, <2>3, GoOnKeeps DEF Live
<1>7. CASE ChangeStatus(c, q) /\ ~Return(c) /\ q.op \in {"activate", "deactivate", "draft", "delete"}
  <2>1. Found(q) /\ GoOn(c, q, SetStatus(limit[q.id], NewStatus(q)))
    BY <1>7 DEF ChangeStatus
  <2>2. SetStatus(limit[q.id], NewStatus(q)) \in Rows
    BY <1>3, <1>7, NewStatusType, SetStatusType
  <2> HIDE DEF SetStatus
  <2> QED BY <1>2, <1>3, <1>7, <2>1, <2>2, GoOnKeeps DEF Found
<1> QED BY <1>1, <1>4, <1>5, <1>6, <1>7
     DEF ActivateLimit, DeactivateLimit, DraftLimit, DeleteLimit

\* The row that a statement stores: a whole row for a limit in use, or another status.
LEMMA StoredRow ==
  ASSUME TableInv, NEW c \in Commands, pc[c] = "write", Affects(c)
  PROVE  /\ req[c] \in Requests /\ req[c].id \in Limits
         /\ Stored(c) \in Rows
         /\ Stored(c).status # "ABSENT"
         /\ Stored(c).gone <=> Stored(c).status = "DELETED"
         /\ req[c].op \in {"create", "update"} => Stored(c) = mem[c]
         /\ req[c].op \notin {"create", "update"} =>
              /\ Stored(c).name = limit[req[c].id].name
              /\ limit[req[c].id].status \in Live
<1>1. req[c] \in Requests /\ mem[c] \in Rows
  BY DEF TableInv, TypeOK
<1>2. req[c].id \in Limits /\ req[c].op \in Ops
  BY <1>1, LimitAssumption
<1>3. limit[req[c].id] \in Rows /\ ~limit[req[c].id].gone /\ limit[req[c].id].status # "DELETED"
  BY <1>2 DEF TableInv, TypeOK, DeletedAtAgrees, Affects
<1>4. CASE req[c].op \in {"create", "update"}
  <2>1. Stored(c) = mem[c]
    BY <1>4 DEF Stored
  <2>2. ~mem[c].gone /\ mem[c].status \in Live
    BY <1>4 DEF TableInv, MemInv
  <2> QED BY <1>1, <1>2, <1>4, <2>1, <2>2 DEF Live
<1>5. CASE req[c].op \notin {"create", "update"}
  <2>1. NewStatus(req[c]) \in Statuses \ {"ABSENT"}
    BY <1>1, <1>5, NewStatusType
  <2> DEFINE s == NewStatus(req[c])
             old == limit[req[c].id]
  <2>2. Stored(c) = [[old EXCEPT !.status = s] EXCEPT !.gone = old.gone \/ s = "DELETED"]
    BY <1>3, <1>5 DEF Stored, StatusUpdated, Rows
  <2>3. /\ Stored(c) \in Rows /\ Stored(c).status = s /\ Stored(c).name = old.name
        /\ Stored(c).gone <=> s = "DELETED"
    BY <1>3, <2>1, <2>2, Zenon DEF Rows
  <2>4. old.status \in Live
    BY <1>1, <1>3, <1>5 DEF TableInv, MemInv, Live, Rows
  <2> QED BY <1>1, <1>2, <1>5, <2>1, <2>3, <2>4
<1> QED BY <1>4, <1>5

LEMMA WriteKeeps ==
  ASSUME TableInv, NEW c \in Commands, Write(c)
  PROVE  TableInv'
<1>1. CASE ~Succeeds(c)
  BY <1>1, ReturnKeeps DEF Write, TableInv, AuditedWasApplied
<1>2. CASE Succeeds(c)
  <2> DEFINE i == req[c].id
             new == Stored(c)
  <2>1. pc[c] = "write" /\ Affects(c)
    BY <1>2 DEF Write, Succeeds
  <2>2. /\ req[c] \in Requests /\ i \in Limits /\ new \in Rows /\ new.status # "ABSENT"
        /\ new.gone <=> new.status = "DELETED"
        /\ req[c].op \in {"create", "update"} => new = mem[c]
        /\ req[c].op \notin {"create", "update"} =>
             new.name = limit[i].name /\ limit[i].status \in Live
    BY <2>1, StoredRow
  <2>3. /\ limit' = [limit EXCEPT ![i] = new]
        /\ ends' = [ends EXCEPT ![i] = @ \cup {new.end}]
        /\ ceiling' = [ceiling EXCEPT ![i] = Larger(@, new.max)]
        /\ applied' = applied \cup {c} /\ pc' = [pc EXCEPT ![c] = "audit"]
        /\ req' = req /\ mem' = [mem EXCEPT ![c] = None]
        /\ UNCHANGED <<audited, usage, charging, cleaning, now>>
    BY <1>2 DEF Write, Succeeds
  <2>4. req[c].op \in {"create", "update"} => ~NameTaken(i, new.name)
    BY <2>1, <2>2 DEF Affects
  <2> HIDE DEF i, new
  <2> USE DEF TableInv
  <2>5. TypeOK'
    <3>1. limit' \in [Limits -> Rows]
      BY <2>2, <2>3 DEF TypeOK
    <3>2. ceiling' \in [Limits -> Nat]
      BY <2>2, <2>3 DEF TypeOK, Larger, Rows
    <3>3. ends' \in [Limits -> SUBSET Nat]
      BY <2>2, <2>3 DEF TypeOK, Rows
    <3> QED BY <2>3, <3>1, <3>2, <3>3 DEF TypeOK, CommandPoints, usage, charging, cleaning
  <2>6. MemInv'
    <3> SUFFICES ASSUME NEW d \in Commands, pc'[d] = "write"
                 PROVE  /\ req[d].op # "create" => limit'[req[d].id].status # "ABSENT"
                        /\ req[d].op \in {"create", "update"} => ~mem'[d].gone /\ mem'[d].status \in Live
      BY <2>3 DEF MemInv
    <3>1. d # c /\ pc[d] = "write" /\ mem'[d] = mem[d]
      BY <2>3 DEF TypeOK
    <3>2. req[d].id \in Limits
      BY <3>1, LimitAssumption DEF TypeOK
    <3> QED BY <2>2, <2>3, <3>1, <3>2 DEF MemInv, TypeOK
  <2>7. DeletedAtAgrees'
    BY <2>2, <2>3 DEF DeletedAtAgrees, TypeOK
  <2>8. NamesUnique'
    <3> SUFFICES ASSUME NEW l \in Limits, NEW m \in Limits, l # m, SameName(limit', l, m)
                 PROVE  FALSE
      BY DEF NamesUnique
    <3>1. CASE i \notin {l, m}
      BY <2>2, <2>3, <3>1 DEF NamesUnique, SameName, TypeOK
    <3>2. ASSUME NEW o \in Limits, o # i, limit'[o].name = new.name,
                 limit'[o].status \notin {"ABSENT", "DELETED"}
          PROVE  FALSE
      <4>1. limit'[o] = limit[o]
        BY <2>3, <3>2 DEF TypeOK
      <4>2. CASE req[c].op \in {"create", "update"}
        BY <2>2, <2>4, <3>2, <4>1, <4>2 DEF NameTaken
      <4>3. CASE req[c].op \notin {"create", "update"}
        BY <2>2, <3>2, <4>1, <4>3 DEF NamesUnique, SameName, Live
      <4> QED BY <4>2, <4>3
    <3>3. limit'[i] = new
      BY <2>2, <2>3 DEF TypeOK
    <3> QED BY <3>1, <3>2, <3>3 DEF SameName
  <2>9. AuditInv' /\ AuditedWasApplied'
    BY <2>3 DEF AuditInv, AuditedWasApplied, TypeOK
  <2> QED BY <2>5, <2>6, <2>7, <2>8, <2>9
<1> QED BY <1>1, <1>2

LEMMA AuditKeeps ==
  ASSUME TableInv, NEW c \in Commands, Audit(c)
  PROVE  TableInv'
<1>1. audited' \subseteq applied
  BY DEF Audit, TableInv, AuditInv, AuditedWasApplied
<1> QED BY <1>1, ReturnKeeps DEF Audit

\* Charges, the clean-up and the clock leave limits and commands alone.
LEMMA OthersKeep ==
  ASSUME TableInv, TypeOK', UNCHANGED <<limit, commands>>
  PROVE  TableInv'
<1>1. MemInv' /\ AuditInv' /\ AuditedWasApplied'
  BY DEF TableInv, MemInv, AuditInv, AuditedWasApplied, commands
<1>2. DeletedAtAgrees' /\ NamesUnique'
  BY DEF TableInv, DeletedAtAgrees, NamesUnique, SameName
<1> QED BY <1>1, <1>2 DEF TableInv

LEMMA UsageType ==
  ASSUME TypeOK, NEW k \in Keys
  PROVE  Usage(k) \in Nat
BY DEF TypeOK, Usage, Counters

LEMMA ExpiresType ==
  ASSUME NEW r \in Readings
  PROVE  ExpiresAt(r) \in Nat
<1>1. r.at \in Nat /\ r.end \in Nat /\ r.at \div Period \in Nat
  BY LimitAssumption DEF Readings
<1>2. ResetAt(r.at) \in Nat
  BY <1>1, LimitAssumption DEF ResetAt
<1> QED BY <1>1, <1>2, LimitAssumption DEF ExpiresAt

LEMMA UpsertType ==
  ASSUME TypeOK, NEW h \in Charges, Upsert(h)
  PROVE  TypeOK'
<1> DEFINE r == reading[h]
           k == <<r.id, PeriodKey(r.id, r.at)>>
<1>1. r \in Readings
  BY DEF TypeOK, Upsert
<1>2. counter' \in [Keys -> Counters \cup {None}] /\ spent' \in [Keys -> Nat]
  <2>1. CASE UNCHANGED usage
    BY <2>1 DEF TypeOK, usage
  <2>2. CASE k \in Keys /\ ~UNCHANGED usage
    <3>1. Usage(k) + Amount[h] \in Nat /\ ExpiresAt(r) \in Nat
      BY <1>1, <2>2, UsageType, ExpiresType, LimitAssumption
    <3>2. /\ counter' = [counter EXCEPT ![k] = [usage |-> Usage(k) + Amount[h],
                                                expires |-> ExpiresAt(r)]]
          /\ spent' = spent \/ spent' = [spent EXCEPT ![k] = @ + Amount[h]]
      BY <2>2 DEF Upsert
    <3> HIDE DEF k, r
    <3> QED BY <2>2, <3>1, <3>2, LimitAssumption DEF TypeOK, Counters
  <2>3. CASE k \notin Keys /\ ~UNCHANGED usage
    <3>1. /\ counter' = [counter EXCEPT ![k] = [usage |-> Usage(k) + Amount[h],
                                                expires |-> ExpiresAt(r)]]
          /\ spent' = spent \/ spent' = [spent EXCEPT ![k] = @ + Amount[h]]
      BY <2>3 DEF Upsert
    <3> HIDE DEF k, r
    <3> QED BY <2>3, <3>1 DEF TypeOK
  <2> QED BY <2>1, <2>2, <2>3
<1>3. granted' \subseteq charged' /\ charged' \subseteq Charges
  BY DEF TypeOK, Upsert, usage
<1>4. reading' \in [Charges -> Readings \cup {None}]
  BY DEF TypeOK, Upsert
<1> QED BY <1>2, <1>3, <1>4 DEF TypeOK, Upsert, table, commands, cleaning

LEMMA OthersType ==
  ASSUME TypeOK,
         (\E h \in Charges : Charge(h)) \/ Clean \/ FailCycle \/ Tick
  PROVE  TypeOK'
<1>1. ASSUME NEW h \in Charges, ReadLimit(h) PROVE TypeOK'
  <2>1. PICK l \in ChargeOf[h] :
          reading' = [reading EXCEPT ![h] =
                        [id |-> l, max |-> limit[l].max, end |-> limit[l].end, at |-> now]]
    BY <1>1 DEF ReadLimit
  <2>2. l \in Limits /\ limit[l] \in Rows
    BY LimitAssumption DEF TypeOK
  <2>3. [id |-> l, max |-> limit[l].max, end |-> limit[l].end, at |-> now] \in Readings
    BY <2>2 DEF TypeOK, Readings, Rows
  <2> QED BY <1>1, <2>1, <2>3 DEF ReadLimit, TypeOK, table, commands, usage, cleaning
<1>2. ASSUME NEW h \in Charges, Upsert(h) PROVE TypeOK'
  BY <1>2, UpsertType
<1>3. ASSUME StartCycle PROVE TypeOK'
  BY <1>3 DEF StartCycle, TypeOK, table, commands, usage, charging
<1>4. ASSUME SelectBatch PROVE TypeOK'
  BY <1>4 DEF SelectBatch, Expired, TypeOK, table, commands, usage, charging
<1>5. ASSUME DeleteBatch PROVE TypeOK'
  BY <1>5 DEF DeleteBatch, TypeOK, table, commands, charging
<1>6. ASSUME FailCycle PROVE TypeOK'
  BY <1>6 DEF FailCycle, TypeOK, table, commands, usage, charging
<1>7. ASSUME Tick PROVE TypeOK'
  BY <1>7 DEF Tick, TypeOK, table, commands, usage, charging, cleaning
<1> QED BY <1>1, <1>2, <1>3, <1>4, <1>5, <1>6, <1>7 DEF Charge, Clean

LEMMA OthersFrame ==
  ASSUME (\E h \in Charges : Charge(h)) \/ Clean \/ FailCycle \/ Tick
  PROVE  UNCHANGED <<limit, ends, ceiling, commands>>
BY DEF Charge, Clean, ReadLimit, Upsert, StartCycle, SelectBatch, DeleteBatch, FailCycle, Tick, table

LEMMA InitTable == Init => TableInv
<1> SUFFICES ASSUME Init PROVE TableInv
  OBVIOUS
<1>1. limit \in [Limits -> Rows]
  BY TablesAssumption DEF Init
<1>2. TypeOK
  BY <1>1 DEF Init, TypeOK, CommandPoints, Rows
<1>3. DeletedAtAgrees /\ NamesUnique
  BY TablesAssumption DEF Init, DeletedAtAgrees, NamesUnique
<1> QED BY <1>2, <1>3 DEF Init, TableInv, MemInv, AuditInv, AuditedWasApplied

LEMMA NextTable == TableInv /\ [Next]_vars => TableInv'
<1> SUFFICES ASSUME TableInv, [Next]_vars PROVE TableInv'
  OBVIOUS
<1>1. ASSUME NEW c \in Commands, Command(c) PROVE TableInv'
  BY <1>1, BeginKeeps, WriteKeeps, AuditKeeps DEF Command
<1>2. ASSUME (\E h \in Charges : Charge(h)) \/ Clean \/ FailCycle \/ Tick PROVE TableInv'
  BY <1>2, OthersType, OthersFrame, OthersKeep DEF TableInv
<1>3. ASSUME UNCHANGED vars PROVE TableInv'
  <2>1. TypeOK' /\ UNCHANGED <<limit, commands>>
    BY <1>3 DEF TableInv, TypeOK, vars, commands
  <2> QED BY <2>1, OthersKeep
<1> QED BY <1>1, <1>2, <1>3 DEF Next

THEOREM TableHolds == Spec => []TableInv
BY InitTable, NextTable, PTL DEF Spec

\* Every variable keeps its type, for any limits, commands, charges and clean-ups.
THEOREM TypeCorrect == Spec => []TypeOK
<1>1. TableInv => TypeOK
  BY DEF TableInv
<1> QED BY <1>1, TableHolds, PTL

\* Status and deleted_at of a limit agree whatever commands overlap: Update, which writes a
\* status it read before, finds no row once the limit is deleted.
THEOREM DeletedAtHolds == Spec => []DeletedAtAgrees
<1>1. TableInv => DeletedAtAgrees
  BY DEF TableInv
<1> QED BY <1>1, TableHolds, PTL

\* No two limits in use have one name: the index refuses what the commands do not look at.
THEOREM NamesHold == Spec => []NamesUnique
<1>1. TableInv => NamesUnique
  BY DEF TableInv
<1> QED BY <1>1, TableHolds, PTL

\* An audit event is only recorded of a change that was stored.
THEOREM AuditedHolds == Spec => []AuditedWasApplied
<1>1. TableInv => AuditedWasApplied
  BY DEF TableInv
<1> QED BY <1>1, TableHolds, PTL

\* No command that read a limit before it was deleted changes it afterwards.
THEOREM DeletedHolds == Spec => DeletedIsFinal
<1> DEFINE Same == \A l \in Limits : limit[l].status = "DELETED" => limit'[l] = limit[l]
<1>1. TableInv /\ [Next]_vars => [Same]_vars
  <2> SUFFICES ASSUME TableInv, Next PROVE Same
    OBVIOUS
  <2>1. ASSUME NEW c \in Commands, Succeeds(c) PROVE Same
    <3>1. ~limit[req[c].id].gone /\ limit' = [limit EXCEPT ![req[c].id] = Stored(c)]
      BY <2>1 DEF Succeeds, Affects
    <3> QED BY <3>1 DEF TableInv, TypeOK, DeletedAtAgrees
  <2>2. ASSUME limit' = limit PROVE Same
    BY <2>2
  <2>3. ASSUME NEW c \in Commands, Command(c) PROVE Same
    BY <2>1, <2>2, <2>3 DEF Command, Begin, Write, Audit, table
  <2> QED BY <2>2, <2>3, OthersFrame DEF Next
<1> QED BY <1>1, TableHolds, PTL DEF Spec, DeletedIsFinal
-----------------------------------------------------------------------------
(* Spending.                                                               *)

\* The first day after the period of counter k.
PeriodEnd(k) == (k[2] + 1) * Period

\* Nothing can be charged to counter k any more: whoever read its limit within the period
\* has ended.  For a custom limit this is so from the day the retention of one of its ends is
\* over, unless the limit has been Stretched.
Closed(k) ==
  IF k[1] \in Custom THEN \E e \in ends[k[1]] : e + Retention < now ELSE PeriodEnd(k) + Lag <= now

\* The histories count the end and the maximum that a limit has now.
EndsInv ==
  \A l \in Limits :
    /\ limit[l].status # "ABSENT" => limit[l].end \in ends[l]
    /\ limit[l].max <= ceiling[l]

\* What a charge has read is recent.
ReadingInv ==
  \A h \in Charges : reading[h] # None =>
    /\ reading[h].at <= now /\ now <= reading[h].at + Lag
    /\ reading[h].end \in ends[reading[h].id]
    /\ reading[h].max <= ceiling[reading[h].id]

\* A counter shows all that was charged to it, unless its limit has been Stretched, and
\* outlives an end of its period by the retention.
CounterInv ==
  \A k \in Keys : counter[k] # None =>
    /\ ~Stretched(k[1]) => counter[k].usage = spent[k]
    /\ k[1] \in Custom => \E e \in ends[k[1]] : counter[k].expires = e + Retention
    /\ k[1] \notin Custom => counter[k].expires = PeriodEnd(k) + Retention

\* A counter that is not there was never charged, or never will be again; and the clean-up
\* only selects such counters.
GoneInv ==
  /\ \A k \in Keys : counter[k] = None => spent[k] = 0 \/ Closed(k)
  /\ \A k \in batch : Closed(k)
  /\ asOf <= now

SpendInv == EndsInv /\ ReadingInv /\ CounterInv /\ GoneInv /\ SpentWithinCeiling

LEMMA KeyType ==
  ASSUME NEW k \in Keys
  PROVE  k[1] \in Limits /\ k[2] \in Nat /\ PeriodEnd(k) \in Nat
<1>1. k[1] \in Limits /\ k[2] \in Nat
  BY DEF Keys
<1> QED BY <1>1, LimitAssumption DEF PeriodEnd

\* A counter that has expired is closed.
LEMMA ExpiredIsClosed ==
  ASSUME TypeOK, CounterInv, asOf <= now, NEW k \in Expired
  PROVE  Closed(k)
<1>1. k \in Keys /\ counter[k] # None /\ counter[k].expires < asOf
  BY DEF Expired
<1>2. counter[k].expires \in Nat /\ now \in Nat /\ asOf \in Nat
  BY <1>1 DEF TypeOK, Counters
<1>3. CASE k[1] \in Custom
  <2>1. PICK e \in ends[k[1]] : counter[k].expires = e + Retention
    BY <1>1, <1>3 DEF CounterInv
  <2>2. e + Retention < now
    BY <1>1, <1>2, <2>1
  <2> QED BY <1>3, <2>2 DEF Closed
<1>4. CASE k[1] \notin Custom
  BY <1>1, <1>2, <1>4, KeyType, LimitAssumption, RetentionAssumption DEF Closed, CounterInv
<1> QED BY <1>3, <1>4

\* Neither time nor another end opens a counter again.
LEMMA ClosedStays ==
  ASSUME TypeOK, TypeOK', now <= now', \A l \in Limits : ends[l] \subseteq ends'[l],
         NEW k \in Keys, Closed(k)
  PROVE  Closed(k)'
<1>1. now \in Nat /\ now' \in Nat
  BY DEF TypeOK
<1>2. CASE k[1] \in Custom
  <2>1. PICK e \in ends[k[1]] : e + Retention < now
    BY <1>2 DEF Closed
  <2>2. e \in Nat /\ e \in ends'[k[1]]
    BY <2>1, KeyType DEF TypeOK
  <2>3. e + Retention < now'
    BY <1>1, <2>1, <2>2, LimitAssumption
  <2> QED BY <1>2, <2>2, <2>3 DEF Closed
<1>3. CASE k[1] \notin Custom
  BY <1>1, <1>3, KeyType, LimitAssumption DEF Closed, PeriodEnd
<1> QED BY <1>2, <1>3

\* A day lies before the end of its period.
LEMMA DayInPeriod ==
  ASSUME NEW t \in Nat
  PROVE  t < (t \div Period + 1) * Period
<1>1. Period \in Nat /\ Period > 0
  BY LimitAssumption
<1>2. t = Period * (t \div Period) + (t % Period) /\ t % Period < Period /\ t \div Period \in Nat
  BY <1>1
<1>3. (t \div Period + 1) * Period = Period * (t \div Period) + Period
  BY <1>1, <1>2
<1> QED BY <1>1, <1>2, <1>3

\* A charge within the period of its limit meets a counter that is not closed, unless the
\* limit has been Stretched.
LEMMA ChargeIsOpen ==
  ASSUME TypeOK, ReadingInv, NEW h \in Charges, reading[h] # None, WithinPeriod(reading[h]),
         ~Stretched(reading[h].id)
  PROVE  ~Closed(<<reading[h].id, PeriodKey(reading[h].id, reading[h].at)>>)
<1> DEFINE r == reading[h]
           k == <<r.id, PeriodKey(r.id, r.at)>>
<1>1. r \in Readings /\ r.at \in Nat /\ r.end \in Nat /\ now \in Nat
  BY DEF TypeOK, Readings
<1>2. now <= r.at + Lag
  BY DEF ReadingInv
<1>3. CASE r.id \in Custom
  <2>1. r.end \in ends[r.id] /\ r.at < r.end
    BY <1>3 DEF ReadingInv, WithinPeriod
  <2> SUFFICES ASSUME NEW e \in ends[r.id], e + Retention < now PROVE FALSE
    BY <1>3 DEF Closed
  <2>2. e \in Nat /\ ~(r.end + Lag > e + Retention)
    BY <1>1, <1>3, <2>1 DEF Stretched, TypeOK, Readings
  <2> HIDE DEF r
  <2> QED BY <1>1, <1>2, <2>1, <2>2, LimitAssumption
<1>4. CASE r.id \notin Custom
  <2>1. r.at < PeriodEnd(k)
    BY <1>1, <1>4, DayInPeriod DEF PeriodEnd, PeriodKey
  <2>2. PeriodEnd(k) \in Nat
    <3>1. r.at \div Period \in Nat
      BY <1>1, LimitAssumption
    <3> QED BY <1>4, <3>1, LimitAssumption DEF PeriodEnd, PeriodKey
  <2>3. ~(PeriodEnd(k) + Lag <= now)
    BY <1>1, <1>2, <2>1, <2>2, LimitAssumption
  <2> QED BY <1>4, <2>3 DEF Closed
<1> QED BY <1>3, <1>4

LEMMA UpsertSpends ==
  ASSUME TypeOK, TypeOK', SpendInv, NEW h \in Charges, Upsert(h)
  PROVE  SpendInv'
<1> DEFINE r == reading[h]
           k == <<r.id, PeriodKey(r.id, r.at)>>
<1>1. /\ reading' = [reading EXCEPT ![h] = None]
      /\ UNCHANGED <<limit, ends, ceiling, cleaning, now>>
  BY DEF Upsert, table
<1>2. EndsInv' /\ ReadingInv'
  BY <1>1 DEF SpendInv, EndsInv, ReadingInv, TypeOK
<1>3. (\A j \in batch : Closed(j))' /\ (asOf <= now)'
  BY <1>1 DEF SpendInv, GoneInv, Closed, cleaning
<1>4. CASE UNCHANGED usage
  BY <1>1, <1>2, <1>3, <1>4 DEF SpendInv, CounterInv, GoneInv, Closed, Stretched,
                                     SpentWithinCeiling, usage
<1>5. CASE ~UNCHANGED usage
  <2>1. /\ r # None /\ WithinPeriod(r)
        /\ Usage(k) + Amount[h] <= r.max
        /\ counter' = [counter EXCEPT ![k] = [usage |-> Usage(k) + Amount[h],
                                              expires |-> ExpiresAt(r)]]
        /\ spent' = IF Stretched(r.id) THEN spent ELSE [spent EXCEPT ![k] = @ + Amount[h]]
    BY <1>5 DEF Upsert
  <2>2. r \in Readings /\ r.id \in Limits /\ r.max \in Nat /\ k[1] = r.id
    BY <2>1 DEF TypeOK, Readings
  <2>3. k \in Keys => Usage(k) \in Nat /\ Amount[h] \in Nat /\ spent[k] \in Nat
    BY UsageType, LimitAssumption DEF TypeOK
  <2>4. k \in Keys /\ ~Stretched(r.id) => Usage(k) = spent[k]
    <3> SUFFICES ASSUME k \in Keys, ~Stretched(r.id) PROVE Usage(k) = spent[k]
      OBVIOUS
    <3>1. ~Closed(k)
      BY <2>1, ChargeIsOpen DEF SpendInv
    <3> QED BY <2>2, <3>1 DEF SpendInv, CounterInv, GoneInv, Usage
  <2>5. /\ k[1] \in Custom => \E e \in ends[k[1]] : ExpiresAt(r) = e + Retention
        /\ k[1] \notin Custom => ExpiresAt(r) = PeriodEnd(k) + Retention
    <3>1. CASE r.id \in Custom
      BY <2>1, <2>2, <3>1 DEF SpendInv, ReadingInv, ExpiresAt
    <3>2. CASE r.id \notin Custom
      BY <2>2, <3>2 DEF ExpiresAt, ResetAt, PeriodEnd, PeriodKey
    <3> QED BY <2>2, <3>1, <3>2
  <2>6. r.max <= ceiling[r.id] /\ ceiling[r.id] \in Nat
    BY <2>1, <2>2 DEF SpendInv, ReadingInv, TypeOK
  <2>7. \A j \in Keys : j # k => counter'[j] = counter[j] /\ spent'[j] = spent[j]
    <3>1. CASE Stretched(r.id)
      BY <2>1, <3>1 DEF TypeOK
    <3>2. CASE ~Stretched(r.id)
      BY <2>1, <3>2 DEF TypeOK
    <3> QED BY <3>1, <3>2
  <2>8. k \in Keys => /\ counter'[k].usage = Usage(k) + Amount[h]
                      /\ counter'[k].expires = ExpiresAt(r)
                      /\ counter'[k] # None
                      /\ spent'[k] = IF Stretched(r.id) THEN spent[k] ELSE spent[k] + Amount[h]
    <3> HIDE DEF k, r
    <3> SUFFICES ASSUME k \in Keys
                 PROVE  /\ counter'[k].usage = Usage(k) + Amount[h]
                        /\ counter'[k].expires = ExpiresAt(r)
                        /\ counter'[k] # None
                        /\ spent'[k] = IF Stretched(r.id) THEN spent[k] ELSE spent[k] + Amount[h]
      OBVIOUS
    <3>1. counter'[k] = [usage |-> Usage(k) + Amount[h], expires |-> ExpiresAt(r)]
      BY <2>1 DEF TypeOK
    <3>2. ExpiresAt(r) \in Nat /\ Usage(k) + Amount[h] \in Nat
      BY <2>2, <2>3, ExpiresType DEF r
    <3>3. counter'[k] \in Counters
      BY <3>1, <3>2 DEF Counters
    <3>4. CASE Stretched(r.id)
      BY <2>1, <3>1, <3>3, <3>4, LimitAssumption
    <3>5. CASE ~Stretched(r.id)
      BY <2>1, <3>1, <3>3, <3>5, LimitAssumption DEF TypeOK
    <3> QED BY <3>4, <3>5
  <2> HIDE DEF k, r
  <2>9. CounterInv'
    <3> SUFFICES ASSUME NEW j \in Keys, counter'[j] # None
                 PROVE  /\ ~Stretched(j[1]) => counter'[j].usage = spent'[j]
                        /\ j[1] \in Custom => \E e \in ends[j[1]] : counter'[j].expires = e + Retention
                        /\ j[1] \notin Custom => counter'[j].expires = PeriodEnd(j) + Retention
      BY <1>1 DEF CounterInv, Stretched, PeriodEnd
    <3>1. CASE j = k
      BY <2>2, <2>4, <2>5, <2>8, <3>1
    <3>2. CASE j # k
      BY <2>7, <3>2 DEF SpendInv, CounterInv
    <3> QED BY <3>1, <3>2
  <2>10. GoneInv'
    <3> SUFFICES ASSUME NEW j \in Keys, counter'[j] = None PROVE spent'[j] = 0 \/ Closed(j)
      BY <1>1, <1>3 DEF GoneInv, Closed, PeriodEnd
    <3> QED BY <2>7, <2>8 DEF SpendInv, GoneInv
  <2>11. SpentWithinCeiling'
    <3> SUFFICES ASSUME NEW j \in Keys PROVE spent'[j] <= ceiling'[j[1]]
      BY DEF SpentWithinCeiling
    <3>1. CASE j = k /\ ~Stretched(r.id)
      BY <1>1, <2>1, <2>2, <2>3, <2>4, <2>6, <2>8, <3>1
    <3>2. CASE j # k \/ Stretched(r.id)
      BY <1>1, <2>7, <2>8, <3>2 DEF SpendInv, SpentWithinCeiling
    <3> QED BY <3>1, <3>2
  <2> QED BY <1>2, <2>9, <2>10, <2>11 DEF SpendInv
<1> QED BY <1>4, <1>5

\* A limit that has been Stretched remains so.
LEMMA StretchedStays ==
  ASSUME NEW l \in Limits, ends[l] \subseteq ends'[l], Stretched(l)
  PROVE  Stretched(l)'
BY DEF Stretched

\* Counters, charges and batch are untouched, the clock does not go back, no end is forgotten
\* and no ceiling falls.
LEMMA SpendKept ==
  ASSUME TypeOK, TypeOK', SpendInv, UNCHANGED usage, now <= now',
         batch' \subseteq batch, asOf' <= now',
         \A l \in Limits : ceiling[l] <= ceiling'[l] /\ ends[l] \subseteq ends'[l]
  PROVE  CounterInv' /\ GoneInv' /\ SpentWithinCeiling'
<1>1. CounterInv'
  <2> SUFFICES ASSUME NEW k \in Keys, counter[k] # None
               PROVE  /\ ~Stretched(k[1])' => counter[k].usage = spent[k]
                      /\ k[1] \in Custom => \E e \in ends'[k[1]] : counter[k].expires = e + Retention
                      /\ k[1] \notin Custom => counter[k].expires = PeriodEnd(k) + Retention
    BY DEF CounterInv, usage, PeriodEnd
  <2> QED BY KeyType, StretchedStays DEF SpendInv, CounterInv
<1>2. \A k \in Keys : Closed(k) => Closed(k)'
  BY ClosedStays
<1>3. GoneInv'
  BY <1>2 DEF SpendInv, GoneInv, usage, TypeOK
<1>4. SpentWithinCeiling'
  <2> SUFFICES ASSUME NEW k \in Keys PROVE spent'[k] <= ceiling'[k[1]]
    BY DEF SpentWithinCeiling
  <2>1. k[1] \in Limits /\ spent[k] \in Nat /\ ceiling[k[1]] \in Nat /\ ceiling'[k[1]] \in Nat
    BY KeyType DEF TypeOK
  <2>2. spent'[k] = spent[k] /\ spent[k] <= ceiling[k[1]] /\ ceiling[k[1]] <= ceiling'[k[1]]
    BY <2>1 DEF SpendInv, SpentWithinCeiling, usage
  <2> QED BY <2>1, <2>2
<1> QED BY <1>1, <1>3, <1>4

LEMMA CommandSpends ==
  ASSUME TableInv, TypeOK', SpendInv, NEW c \in Commands, Command(c)
  PROVE  SpendInv'
<1> USE DEF TableInv
<1>1. UNCHANGED <<usage, charging, cleaning, now>>
  BY DEF Command, Begin, Write, Audit
<1>2. CASE UNCHANGED table
  <2>1. limit' = limit /\ ends' = ends /\ ceiling' = ceiling
    BY <1>2 DEF table
  <2>2. CounterInv' /\ GoneInv' /\ SpentWithinCeiling'
    BY <1>1, <2>1, SpendKept DEF TypeOK, cleaning, GoneInv, SpendInv
  <2> QED BY <1>1, <2>1, <2>2 DEF SpendInv, ReadingInv, EndsInv, charging
<1>3. CASE Write(c) /\ Succeeds(c)
  <2> DEFINE i == req[c].id
             new == Stored(c)
  <2>1. pc[c] = "write" /\ Affects(c)
    BY <1>3 DEF Write, Succeeds
  <2>2. i \in Limits /\ new \in Rows
    BY <2>1, StoredRow
  <2>3. /\ limit' = [limit EXCEPT ![i] = new]
        /\ ends' = [ends EXCEPT ![i] = @ \cup {new.end}]
        /\ ceiling' = [ceiling EXCEPT ![i] = Larger(@, new.max)]
    BY <1>3 DEF Succeeds
  <2> HIDE DEF i, new
  <2>4. \A l \in Limits : ends[l] \subseteq ends'[l] /\ (l = i => new.end \in ends'[l])
    BY <2>2, <2>3 DEF TypeOK
  <2>5. \A l \in Limits : limit'[l] = IF l = i THEN new ELSE limit[l]
    BY <2>2, <2>3 DEF TypeOK
  <2>6. \A l \in Limits : /\ ceiling[l] <= ceiling'[l]
                          /\ ceiling[l] \in Nat /\ ceiling'[l] \in Nat
                          /\ l = i => new.max <= ceiling'[l]
    BY <2>2, <2>3 DEF TypeOK, Larger, Rows
  <2>7. EndsInv'
    <3> SUFFICES ASSUME NEW l \in Limits
                 PROVE  /\ limit'[l].status # "ABSENT" => limit'[l].end \in ends'[l]
                        /\ limit'[l].max <= ceiling'[l]
      BY DEF EndsInv
    <3>1. CASE l = i
      BY <2>4, <2>5, <2>6, <3>1
    <3>2. CASE l # i
      <4>1. /\ limit'[l] = limit[l] /\ limit[l].max \in Nat /\ limit[l].max <= ceiling[l]
            /\ limit[l].status # "ABSENT" => limit[l].end \in ends[l]
        BY <2>5, <3>2 DEF TypeOK, Rows, SpendInv, EndsInv
      <4> QED BY <2>4, <2>6, <4>1
    <3> QED BY <3>1, <3>2
  <2>8. ReadingInv'
    <3> SUFFICES ASSUME NEW h \in Charges, reading[h] # None
                 PROVE  /\ reading[h].at <= now /\ now <= reading[h].at + Lag
                        /\ reading[h].end \in ends'[reading[h].id]
                        /\ reading[h].max <= ceiling'[reading[h].id]
      BY <1>1 DEF ReadingInv, charging
    <3>1. reading[h].id \in Limits /\ reading[h].max \in Nat
      BY DEF TypeOK, Readings
    <3>2. reading[h].max <= ceiling[reading[h].id] /\ reading[h].end \in ends[reading[h].id]
      BY DEF SpendInv, ReadingInv
    <3>3. reading[h].max <= ceiling'[reading[h].id] /\ reading[h].end \in ends'[reading[h].id]
      BY <2>4, <2>6, <3>1, <3>2
    <3> QED BY <3>3 DEF SpendInv, ReadingInv
  <2>9. CounterInv' /\ GoneInv' /\ SpentWithinCeiling'
    BY <1>1, <2>4, <2>6, SpendKept DEF TypeOK, cleaning, GoneInv, SpendInv
  <2> QED BY <2>7, <2>8, <2>9 DEF SpendInv
<1> QED BY <1>2, <1>3 DEF Command, Begin, Write, Audit

LEMMA OthersSpend ==
  ASSUME TableInv, TypeOK', SpendInv,
         (\E h \in Charges : Charge(h)) \/ Clean \/ FailCycle \/ Tick
  PROVE  SpendInv'
<1> USE DEF TableInv
<1>1. UNCHANGED <<limit, ends, ceiling>>
  BY OthersFrame
<1>2. EndsInv'
  BY <1>1 DEF SpendInv, EndsInv
<1>3. ASSUME NEW h \in Charges, ReadLimit(h) PROVE SpendInv'
  <2>1. PICK l \in ChargeOf[h] :
          /\ limit[l].status = "ACTIVE"
          /\ reading' = [reading EXCEPT ![h] =
                           [id |-> l, max |-> limit[l].max, end |-> limit[l].end, at |-> now]]
    BY <1>3 DEF ReadLimit
  <2>2. l \in Limits /\ limit[l].max <= ceiling[l] /\ limit[l].end \in ends[l]
    BY <2>1, LimitAssumption DEF SpendInv, EndsInv
  <2>3. UNCHANGED <<usage, cleaning, now>>
    BY <1>3 DEF ReadLimit
  <2>4. ReadingInv'
    <3> SUFFICES ASSUME NEW g \in Charges, reading'[g] # None
                 PROVE  /\ reading'[g].at <= now /\ now <= reading'[g].at + Lag
                        /\ reading'[g].end \in ends[reading'[g].id]
                        /\ reading'[g].max <= ceiling[reading'[g].id]
      BY <1>1, <2>3 DEF ReadingInv
    <3>1. CASE g = h
      <4>1. reading'[g] = [id |-> l, max |-> limit[l].max, end |-> limit[l].end, at |-> now]
        BY <2>1, <3>1 DEF TypeOK
      <4>2. now \in Nat /\ Lag \in Nat
        BY LimitAssumption DEF TypeOK
      <4> QED BY <2>2, <4>1, <4>2
    <3>2. CASE g # h
      BY <2>1, <3>2 DEF TypeOK, SpendInv, ReadingInv
    <3> QED BY <3>1, <3>2
  <2>5. CounterInv' /\ GoneInv' /\ SpentWithinCeiling'
    BY <1>1, <2>3, SpendKept DEF TypeOK, cleaning, GoneInv, SpendInv
  <2> QED BY <1>2, <2>4, <2>5 DEF SpendInv
<1>4. ASSUME NEW h \in Charges, Upsert(h) PROVE SpendInv'
  BY <1>4, UpsertSpends
<1>5. ASSUME StartCycle \/ FailCycle PROVE SpendInv'
  <2>1. UNCHANGED <<usage, charging, now>> /\ batch' \subseteq batch /\ asOf' <= now'
    BY <1>5 DEF StartCycle, FailCycle, TypeOK, SpendInv, GoneInv
  <2>2. CounterInv' /\ GoneInv' /\ SpentWithinCeiling'
    BY <1>1, <2>1, SpendKept DEF TypeOK
  <2>3. ReadingInv'
    BY <1>1, <2>1 DEF SpendInv, ReadingInv, charging
  <2> QED BY <1>2, <2>2, <2>3 DEF SpendInv
<1>6. ASSUME SelectBatch PROVE SpendInv'
  <2>1. UNCHANGED <<usage, charging, now, asOf>> /\ batch' \subseteq Expired
    BY <1>6 DEF SelectBatch
  <2>2. \A k \in batch' : Closed(k)
    BY <2>1, ExpiredIsClosed DEF SpendInv, GoneInv
  <2>3. CounterInv' /\ GoneInv' /\ SpentWithinCeiling' /\ ReadingInv'
    BY <1>1, <2>1, <2>2 DEF SpendInv, CounterInv, GoneInv, SpentWithinCeiling, ReadingInv, Closed,
                            Stretched, PeriodEnd, usage, charging
  <2> QED BY <1>2, <2>3 DEF SpendInv
<1>7. ASSUME DeleteBatch PROVE SpendInv'
  <2>1. /\ UNCHANGED <<spent, charging, now, asOf>> /\ batch' = {}
        /\ counter' = [k \in Keys |-> IF k \in batch THEN None ELSE counter[k]]
    BY <1>7 DEF DeleteBatch
  <2>2. \A k \in Keys : counter'[k] = None => counter[k] = None \/ Closed(k)
    BY <2>1 DEF SpendInv, GoneInv
  <2>3. \A k \in Keys : counter'[k] # None => counter'[k] = counter[k]
    BY <2>1
  <2>4. CounterInv' /\ SpentWithinCeiling' /\ ReadingInv'
    BY <1>1, <2>1, <2>3 DEF SpendInv, CounterInv, SpentWithinCeiling, ReadingInv, Stretched,
                            PeriodEnd, charging
  <2>5. GoneInv'
    BY <1>1, <2>1, <2>2 DEF SpendInv, GoneInv, Closed, PeriodEnd
  <2> QED BY <1>2, <2>4, <2>5 DEF SpendInv
<1>8. ASSUME Tick PROVE SpendInv'
  <2>1. /\ UNCHANGED <<usage, charging, cleaning>> /\ now' = now + 1 /\ now \in Nat /\ asOf \in Nat
        /\ \A h \in Charges : reading[h] # None => now < reading[h].at + Lag
    BY <1>8 DEF Tick, TypeOK
  <2>2. now <= now' /\ batch' \subseteq batch /\ asOf' <= now'
    BY <2>1 DEF SpendInv, GoneInv, cleaning
  <2>3. CounterInv' /\ GoneInv' /\ SpentWithinCeiling'
    BY <1>1, <2>1, <2>2, SpendKept DEF TypeOK
  <2>4. ReadingInv'
    <3> SUFFICES ASSUME NEW h \in Charges, reading[h] # None
                 PROVE  /\ reading[h].at <= now + 1 /\ now + 1 <= reading[h].at + Lag
                        /\ reading[h].end \in ends[reading[h].id]
                        /\ reading[h].max <= ceiling[reading[h].id]
      BY <1>1, <2>1 DEF ReadingInv, charging
    <3>1. reading[h].at \in Nat
      BY DEF TypeOK, Readings
    <3> QED BY <2>1, <3>1, LimitAssumption DEF SpendInv, ReadingInv
  <2> QED BY <1>2, <2>3, <2>4 DEF SpendInv
<1> QED BY <1>3, <1>4, <1>5, <1>6, <1>7, <1>8 DEF Charge, Clean

LEMMA InitSpends == Init => SpendInv
<1> SUFFICES ASSUME Init PROVE SpendInv
  OBVIOUS
<1>1. TypeOK
  BY InitTable DEF TableInv
<1>2. EndsInv
  <2>1. \A l \in Limits : limit[l].status # "ABSENT" => limit[l].end \in ends[l]
    BY DEF Init
  <2>2. \A l \in Limits : limit[l].max <= ceiling[l]
    BY <1>1 DEF Init, TypeOK, Rows
  <2> QED BY <2>1, <2>2 DEF Init, EndsInv
<1>3. SpentWithinCeiling
  BY <1>1, KeyType DEF Init, TypeOK, SpentWithinCeiling
<1> QED BY <1>2, <1>3 DEF Init, SpendInv, ReadingInv, CounterInv, GoneInv

LEMMA SpendHolds == Spec => []SpendInv
<1>1. Init => SpendInv
  BY InitSpends
<1>2. TableInv /\ TableInv' /\ SpendInv /\ [Next]_vars => SpendInv'
  <2> SUFFICES ASSUME TableInv, TableInv', SpendInv, [Next]_vars PROVE SpendInv'
    OBVIOUS
  <2>1. CASE UNCHANGED vars
    BY <2>1 DEF vars, SpendInv, EndsInv, ReadingInv, CounterInv, GoneInv, Closed, PeriodEnd,
                Stretched, SpentWithinCeiling
  <2>2. CASE Next
    BY <2>2, CommandSpends, OthersSpend DEF Next, TableInv
  <2> QED BY <2>1, <2>2
<1> QED BY <1>1, <1>2, TableHolds, PTL DEF Spec

\* What is charged in one period never exceeds the highest maximum of its limit, up to the
\* moment an update stretches the period beyond the retention (Stretched): counters are deleted
\* in batches under charges that are under way, but a counter that has expired outlived its
\* period by more than any charge takes.  Update of limits may set any end.
THEOREM SpendingHolds == Spec => []SpentWithinCeiling
<1>1. SpendInv => SpentWithinCeiling
  BY DEF SpendInv
<1> QED BY <1>1, SpendHolds, PTL

\* An upsert leaves a counter where there was one.
LEMMA UpsertKeeps ==
  ASSUME TypeOK, NEW h \in Charges, Upsert(h), NEW j \in Keys, counter[j] # None
  PROVE  counter'[j] # None
<1> DEFINE r == reading[h]
           k == <<r.id, PeriodKey(r.id, r.at)>>
           new == [usage |-> Usage(k) + Amount[h], expires |-> ExpiresAt(r)]
<1>1. CASE counter' = counter
  BY <1>1
<1>2. CASE counter' = [counter EXCEPT ![k] = new] /\ r # None /\ j = k
  <2>1. r \in Readings
    BY <1>2 DEF TypeOK
  <2>2. Usage(k) + Amount[h] \in Nat /\ ExpiresAt(r) \in Nat
    <3>1. k \in Keys
      BY <1>2
    <3> QED BY <2>1, <3>1, UsageType, ExpiresType, LimitAssumption
  <2>3. new \in Counters
    BY <2>2 DEF Counters
  <2>4. counter'[j] = new
    BY <1>2 DEF TypeOK
  <2> QED BY <2>3, <2>4, LimitAssumption
<1>3. CASE counter' = [counter EXCEPT ![k] = new] /\ j # k
  BY <1>3 DEF TypeOK
<1> QED BY <1>1, <1>2, <1>3 DEF Upsert, usage

\* The clean-up deletes no counter of an open period of a limit that is in use, unless an
\* update has stretched the period: a counter of a custom limit goes when the retention of one
\* of the ends of its period is over, and the end it has now is later.
THEOREM OpenHolds == Spec => OpenPeriodKept
<1> DEFINE Kept == \A k \in Keys :
                     /\ k[1] \in Custom
                     /\ limit[k[1]].status = "ACTIVE" /\ now < limit[k[1]].end
                     /\ counter[k] # None /\ counter'[k] = None
                     => Stretched(k[1])
<1>1. TypeOK /\ SpendInv /\ [Next]_vars => [Kept]_vars
  <2> SUFFICES ASSUME TypeOK, SpendInv, Next, NEW k \in Keys, k[1] \in Custom,
                      limit[k[1]].status = "ACTIVE", now < limit[k[1]].end,
                      counter[k] # None, counter'[k] = None
               PROVE  Stretched(k[1])
    OBVIOUS
  <2>1. k \in batch
    <3>1. CASE counter' = counter
      BY <3>1
    <3>2. CASE DeleteBatch
      BY <3>2 DEF DeleteBatch
    <3>3. ASSUME NEW h \in Charges, Upsert(h) PROVE FALSE
      BY <3>3, UpsertKeeps
    <3> QED BY <3>1, <3>2, <3>3
         DEF Next, Command, Begin, Write, Audit, Charge, ReadLimit, Clean, StartCycle, SelectBatch,
             FailCycle, Tick, usage
  <2>2. PICK e \in ends[k[1]] : e + Retention < now
    BY <2>1 DEF SpendInv, GoneInv, Closed
  <2>3. k[1] \in Limits /\ limit[k[1]].end \in ends[k[1]]
    BY KeyType DEF SpendInv, EndsInv
  <2>4. e \in Nat /\ limit[k[1]].end \in Nat /\ now \in Nat
    BY <2>2, <2>3 DEF TypeOK, Rows
  <2>5. limit[k[1]].end + Lag > e + Retention
    BY <2>2, <2>4, LimitAssumption
  <2> QED BY <2>2, <2>3, <2>5 DEF Stretched
<1>2. TableInv => TypeOK
  BY DEF TableInv
<1> QED BY <1>1, <1>2, TableHolds, SpendHolds, PTL DEF Spec, OpenPeriodKept
-----------------------------------------------------------------------------
(* LimitLifecycle implements SpendLedger.                                  *)

\* The clock stays in its bounds, and a charge that has read its limit has not ended.
UnderWay == now <= MaxTime /\ \A h \in Charges : reading[h] # None => h \notin charged

LEMMA UnderWayStep ==
  ASSUME TypeOK, UnderWay, [Next]_vars
  PROVE  UnderWay'
<1>1. ASSUME NEW h \in Charges, Charge(h) PROVE UnderWay'
  BY <1>1 DEF Charge, ReadLimit, Upsert, UnderWay, TypeOK
<1>2. CASE Tick
  BY <1>2, LimitAssumption DEF Tick, UnderWay, TypeOK, charging
<1>3. CASE UNCHANGED <<now, reading, charged>>
  BY <1>3 DEF UnderWay
<1> QED BY <1>1, <1>2, <1>3 DEF Next, Command, Begin, Write, Audit, Clean, StartCycle, SelectBatch,
        DeleteBatch, FailCycle, vars, charging

\* A later day is in no earlier period.
LEMMA PeriodsInOrder ==
  ASSUME NEW m \in Nat, NEW n \in Nat, m <= n
  PROVE  m \div Period <= n \div Period
<1> DEFINE p == m \div Period
           q == n \div Period
<1>1. Period \in Nat /\ Period > 0
  BY LimitAssumption
<1>2. /\ p \in Nat /\ q \in Nat
      /\ m = Period * p + (m % Period) /\ m % Period \in Nat
  BY <1>1
<1>3. n < (q + 1) * Period
  BY DayInPeriod
<1> HIDE DEF p, q
<1> SUFFICES ASSUME p > q PROVE FALSE
  BY <1>2 DEF p, q
<1>4. p - q - 1 \in Nat
  BY <1>2
<1>5. Period * p = Period * (p - q - 1) + (q + 1) * Period /\ Period * (p - q - 1) \in Nat
  BY <1>1, <1>2, <1>4
<1> QED BY <1>1, <1>2, <1>3, <1>5

\* The decisions of the ledger.
Verdict(ended, met) ==
  [h \in Charges |-> IF h \notin ended THEN None ELSE IF h \in met THEN "ALLOW" ELSE "DENY"]

\* A charge that ends decides its request.
LEMMA ChargeDecides ==
  ASSUME NEW h \in Charges, h \notin charged, granted \subseteq charged
  PROVE  /\ Verdict(charged, granted)[h] = None
         /\ Verdict(charged \cup {h}, granted \cup {h}) =
              [Verdict(charged, granted) EXCEPT ![h] = "ALLOW"]
         /\ Verdict(charged \cup {h}, granted) = [Verdict(charged, granted) EXCEPT ![h] = "DENY"]
BY DEF Verdict

\* A charge that reaches its counter is a grant of the ledger, whatever has become of that
\* counter meanwhile; any other charge is a refusal.
LEMMA UpsertDecides ==
  ASSUME TypeOK, TypeOK', SpendInv, UnderWay, NEW h \in Charges, Upsert(h)
  PROVE  Ledger!Grant(h) \/ Ledger!Refuse(h)
<1> DEFINE r == reading[h]
           k == <<r.id, PeriodKey(r.id, r.at)>>
<1>1. h \notin charged /\ granted \subseteq charged
  BY DEF Upsert, UnderWay, TypeOK
<1>2. charged' = charged \cup {h} /\ ceiling' = ceiling
  BY DEF Upsert, table
<1>3. CASE UNCHANGED usage
  <2>1. spent' = spent /\ granted' = granted
    BY <1>3 DEF usage
  <2>2. Verdict(charged', granted') = [Verdict(charged, granted) EXCEPT ![h] = "DENY"]
    BY <1>1, <1>2, <2>1, ChargeDecides
  <2> QED BY <1>1, <1>2, <2>1, <2>2, ChargeDecides DEF Ledger!Refuse, Verdict
<1>4. CASE ~UNCHANGED usage /\ Stretched(r.id)
  <2>1. spent' = spent /\ granted' = granted \cup {h}
    BY <1>4 DEF Upsert
  <2>2. spent = [j \in Keys |-> spent[j]]
    BY DEF TypeOK
  <2>3. Ledger!Charge(h, {})
    BY <2>1, <2>2 DEF Ledger!Charge, Ledger!Keys, Keys
  <2>4. Verdict(charged', granted') = [Verdict(charged, granted) EXCEPT ![h] = "ALLOW"]
    BY <1>1, <1>2, <2>1, ChargeDecides
  <2> QED BY <1>1, <1>2, <2>3, <2>4, ChargeDecides DEF Ledger!Grant, Verdict
<1>5. CASE ~UNCHANGED usage /\ ~Stretched(r.id)
  <2>1. /\ r # None /\ WithinPeriod(r)
        /\ Usage(k) + Amount[h] <= r.max
        /\ spent' = [spent EXCEPT ![k] = @ + Amount[h]]
        /\ granted' = granted \cup {h}
    BY <1>5 DEF Upsert
  <2>2. r \in Readings /\ r.id \in Limits /\ r.at \in Nat /\ r.max \in Nat /\ k[1] = r.id
    BY <2>1 DEF TypeOK, Readings
  <2>3. k \in Keys
    <3>1. r.at <= MaxTime
      BY <2>1, <2>2, LimitAssumption DEF SpendInv, ReadingInv, UnderWay, TypeOK
    <3>2. /\ r.at \div Period \in Nat /\ MaxTime \div Period \in Nat
          /\ r.at \div Period <= MaxTime \div Period
      <4>1. MaxTime \in Nat /\ Period \in Nat /\ Period > 0
        BY LimitAssumption
      <4>2. r.at \div Period \in Nat /\ MaxTime \div Period \in Nat
        BY <2>2, <4>1
      <4> HIDE DEF r
      <4> QED BY <2>2, <3>1, <4>1, <4>2, PeriodsInOrder
    <3> QED BY <2>2, <3>2 DEF Keys, PeriodKey
  <2>4. Usage(k) = spent[k] /\ spent[k] \in Nat /\ Amount[h] \in Nat
    <3>1. ~Closed(k)
      BY <1>5, <2>1, ChargeIsOpen DEF SpendInv
    <3> QED BY <1>5, <2>2, <2>3, <3>1, LimitAssumption DEF SpendInv, CounterInv, GoneInv, Usage, TypeOK
  <2>5. r.max <= ceiling[r.id] /\ ceiling[r.id] \in Nat
    BY <2>1, <2>2 DEF SpendInv, ReadingInv, TypeOK
  <2> HIDE DEF k, r
  <2>6. spent[k] + Amount[h] <= ceiling[k[1]]
    BY <2>1, <2>2, <2>4, <2>5
  <2>7. spent' = [j \in Keys |-> IF j \in {k} THEN spent[j] + Amount[h] ELSE spent[j]]
    BY <2>1, <2>3 DEF TypeOK
  <2>8. {k} \in SUBSET Ledger!Keys /\ Ledger!Charge(h, {k})
    BY <2>3, <2>6, <2>7 DEF Ledger!Charge, Ledger!Keys, Keys
  <2>9. Verdict(charged', granted') = [Verdict(charged, granted) EXCEPT ![h] = "ALLOW"]
    BY <1>1, <1>2, <2>1, ChargeDecides
  <2> QED BY <1>1, <1>2, <2>8, <2>9, ChargeDecides DEF Ledger!Grant, Verdict
<1> QED BY <1>3, <1>4, <1>5

\* A row that is written raises the ceiling of its limit or is invisible to the ledger.
LEMMA WriteRaises ==
  ASSUME TableInv, NEW c \in Commands, pc[c] = "write", Succeeds(c), UNCHANGED <<usage, charging>>
  PROVE  ceiling' = ceiling \/ Ledger!RaiseCeiling(req[c].id)
<1> DEFINE i == req[c].id
           m == Stored(c).max
<1>1. i \in Limits /\ m \in Nat /\ ceiling[i] \in Nat
  <2>1. Stored(c) \in Rows /\ i \in Limits
    BY StoredRow DEF Succeeds
  <2> QED BY <2>1 DEF TableInv, TypeOK, Rows
<1>2. ceiling' = [ceiling EXCEPT ![i] = IF ceiling[i] > m THEN ceiling[i] ELSE m]
  BY DEF Succeeds, Larger
<1> HIDE DEF i, m
<1>3. CASE m > ceiling[i]
  <2>1. ceiling' = [ceiling EXCEPT ![i] = m]
    <3>1. (IF ceiling[i] > m THEN ceiling[i] ELSE m) = m
      BY <1>1, <1>3
    <3> QED BY <1>2, <3>1, Zenon
  <2>2. ceiling'[i] = m
    BY <1>1, <2>1 DEF TableInv, TypeOK
  <2> QED BY <1>1, <1>3, <2>1, <2>2 DEF Ledger!RaiseCeiling, usage, charging, i
<1>4. CASE ~(m > ceiling[i])
  BY <1>1, <1>2, <1>4 DEF TableInv, TypeOK
<1> QED BY <1>3, <1>4

\* Every step is a step of the ledger or a stutter of it.
LEMMA LedgerStep ==
  ASSUME TableInv, TypeOK', SpendInv, UnderWay, [Next]_vars
  PROVE  [Ledger!LedgerNext]_(Ledger!ledgerVars)
<1>1. TypeOK
  BY DEF TableInv
<1>2. CASE UNCHANGED <<spent, charged, granted, ceiling>>
  BY <1>2 DEF Ledger!ledgerVars
<1>3. ASSUME NEW h \in Charges, Upsert(h) PROVE Ledger!LedgerNext
  BY <1>1, <1>3, UpsertDecides DEF Ledger!LedgerNext
<1>4. ASSUME NEW c \in Commands, Write(c), Succeeds(c)
      PROVE  [Ledger!LedgerNext]_(Ledger!ledgerVars)
  <2>1. pc[c] = "write" /\ UNCHANGED <<usage, charging>> /\ req[c].id \in Limits
    <3>1. pc[c] = "write"
      BY <1>4 DEF Write
    <3> QED BY <1>1, <1>4, <3>1, LimitAssumption DEF Write, TypeOK
  <2>2. ceiling' = ceiling \/ Ledger!RaiseCeiling(req[c].id)
    BY <1>4, <2>1, WriteRaises
  <2> QED BY <1>2, <2>1, <2>2 DEF Ledger!LedgerNext, usage, charging
<1> QED BY <1>2, <1>3, <1>4 DEF Next, Command, Begin, Write, Audit, Charge, ReadLimit, Clean,
        StartCycle, SelectBatch, DeleteBatch, FailCycle, Tick, vars, table, usage, charging

\* The limits, their commands, the charges and the clean-up implement the ledger: what a
\* client may spend in a period, until the limit is Stretched, is what it could if no counter
\* were ever deleted.
THEOREM LedgerRefined == Spec => ImplementsLedger
<1>1. Init => Ledger!LedgerInit
  BY InitTable DEF Init, TableInv, TypeOK, Ledger!LedgerInit, Ledger!Keys, Keys
<1>2. Init => UnderWay
  BY LimitAssumption DEF Init, UnderWay
<1>3. TableInv /\ UnderWay /\ [Next]_vars => UnderWay'
  BY UnderWayStep DEF TableInv
<1>4. TableInv /\ TableInv' /\ SpendInv /\ UnderWay /\ [Next]_vars
        => [Ledger!LedgerNext]_(Ledger!ledgerVars)
  BY LedgerStep DEF TableInv
<1> QED BY <1>1, <1>2, <1>3, <1>4, TableHolds, SpendHolds, PTL
        DEF Spec, ImplementsLedger, Ledger!LedgerSpec
=============================================================================
