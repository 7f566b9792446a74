----------------------------- MODULE AuditChain -----------------------------
(***************************************************************************)
(* The hash chain of audit_events: AuditEventRepository.Insert and         *)
(* InsertWithTx, the trigger calculate_audit_event_hash that runs inside   *)
(* the INSERT, and VerifyHashChain with verify_audit_hash_chain.           *)
(*                                                                         *)
(* A writer is a transaction that inserts one audit event: the validation  *)
(* transaction of an ALLOW, or the statement of its own that records a     *)
(* refusal, a rule event or a limit event.  Its row is committed when its  *)
(* pc is "done".                                                           *)
(*                                                                         *)
(* The hash of a row is a SHA-256 over its previous_hash and its unique    *)
(* event_id, so it is taken to name the row: previous_hash is the writer   *)
(* of the row whose hash it repeats, None for GENESIS.  The hash that      *)
(* verify_audit_hash_chain computes for a row then equals the stored one   *)
(* exactly when the stored previous_hash is the one it expects.            *)
(***************************************************************************)
EXTENDS Integers

CONSTANTS
  Writers,      \* transactions that insert an audit event
  Resources,    \* resource_ids
  Resource,     \* Resource[w]: the resource_id of the event of w
  Validating,   \* the writers whose event has resource_type transaction
  None          \* no row

ASSUME AuditChainAssumption ==
  /\ Resource \in [Writers -> Resources]
  /\ Validating \subseteq Writers
  /\ None \notin Writers

VARIABLES
  seq,          \* the last id that the BIGSERIAL of audit_events gave out
  pc,           \* pc[w]: where the INSERT of w is
  id,           \* id[w]: the id of the row of w, 0 before it has one
  prev,         \* prev[w]: the previous_hash the trigger put into the row of w
  late          \* history: the writers that committed after a row with a greater id

vars == <<seq, pc, id, prev, late>>

\* idle     the statement has not begun
\* trigger  in the trigger, at pg_advisory_xact_lock
\* open     the row is inserted, the transaction goes on
\* aborted  the unique index refused the row
\* done     committed
\* skipped  nothing to insert: the event is stored already
\* failed   rolled back
Points == {"idle", "trigger", "open", "aborted", "done", "skipped", "failed"}
Over == {"done", "skipped", "failed"}

\* The committed rows.
Done == {w \in Writers : pc[w] = "done"}

\* Every variable has its type, and no row has an id the sequence did not give out
\* (the BIGSERIAL id of audit_events).
TypeOK ==
  /\ seq \in Nat
  /\ pc \in [Writers -> Points]
  /\ id \in [Writers -> Nat]
  /\ prev \in [Writers -> Writers \cup {None}]
  /\ late \subseteq Done
  /\ \A w \in Writers : id[w] <= seq

Init ==
  /\ seq = 0
  /\ pc = [w \in Writers |-> "idle"]
  /\ id = [w \in Writers |-> 0]
  /\ prev = [w \in Writers |-> None]
  /\ late = {}
-----------------------------------------------------------------------------
(* The INSERT.                                                             *)

\* The event of w is a validation event that is committed already.
Stored(w) == w \in Validating /\ \E v \in Done \cap Validating : Resource[v] = Resource[w]

\* The statement of insertInternal begins: WHERE NOT EXISTS looks at the committed
\* rows, and the default of the id column, nextval, is computed for the row before
\* its BEFORE INSERT trigger runs.
Begin(w) ==
  /\ pc[w] = "idle"
  /\ IF Stored(w)
       THEN /\ pc' = [pc EXCEPT ![w] = "skipped"]
            /\ UNCHANGED <<seq, id>>
       ELSE /\ pc' = [pc EXCEPT ![w] = "trigger"]
            /\ id' = [id EXCEPT ![w] = seq + 1]
            /\ seq' = seq + 1
  /\ UNCHANGED <<prev, late>>

\* Mutant of LockFree: no advisory lock.
LockFreeAlways(w) == TRUE

\* Mutant of LockFree: a lock for each resource, not one for the chain.
LockFreePerResource(w) ==
  \A v \in Writers \ {w} : pc[v] \in {"open", "aborted"} => Resource[v] # Resource[w]

\* Mutant of LockFree: pg_advisory_lock, which a session keeps when its transaction ends.
LockFreeSession(w) == \A v \in Writers \ {w} : pc[v] \notin {"open", "aborted", "done"}

\* pg_advisory_xact_lock is granted: no other transaction holds it.
LockFree(w) == \A v \in Writers \ {w} : pc[v] \notin {"open", "aborted"}

\* The row the trigger selects: ORDER BY id DESC LIMIT 1.
IsLast(p) ==
  \/ p = None /\ Done = {}
  \/ p \in Done /\ \A v \in Done : id[v] <= id[p]

\* Mutant of DuplicateKey: the migration that adds the unique index has not run.
DuplicateKeyNever(w) == FALSE

\* The unique index on the validation events has a committed row for the resource.
DuplicateKey(w) == Stored(w)

\* The trigger, with a snapshot taken after the lock is granted, and the insertion
\* of the row into the table and its unique index.
HashAndInsert(w) ==
  /\ pc[w] = "trigger"
  /\ LockFree(w)
  /\ \E p \in Done \cup {None} : IsLast(p) /\ prev' = [prev EXCEPT ![w] = p]
  /\ pc' = [pc EXCEPT ![w] = IF DuplicateKey(w) THEN "aborted" ELSE "open"]
  /\ UNCHANGED <<seq, id, late>>

\* The transaction of w commits: the row is visible and the lock released.
Commit(w) ==
  /\ pc[w] = "open"
  /\ pc' = [pc EXCEPT ![w] = "done"]
  /\ late' = IF \E v \in Done : id[v] > id[w] THEN late \cup {w} ELSE late
  /\ UNCHANGED <<seq, id, prev>>

\* The transaction of w is rolled back: its statement failed, its context ended
\* while it waited for the lock, a later step of the transaction failed, or its
\* process stopped.  Its id is not given out again.
Rollback(w) ==
  /\ pc[w] \in {"trigger", "open", "aborted"}
  /\ pc' = [pc EXCEPT ![w] = "failed"]
  /\ UNCHANGED <<seq, id, prev, late>>

Step(w) == Begin(w) \/ HashAndInsert(w) \/ Commit(w) \/ Rollback(w)

Next == \E w \in Writers : Step(w)

Spec == Init /\ [][Next]_vars

\* The transaction of w, which has the lock, ends.
EndLocked(w) == Commit(w) \/ (pc[w] # "trigger" /\ Rollback(w))

\* A statement that is granted the lock goes on, and a transaction that has the lock is
\* ended by its owner (the deferred Rollback of Validate, autocommit) or by the server when
\* its owner is gone.  Nothing makes a statement that waits give up.
FairSpec == Spec /\ \A w \in Writers : WF_vars(HashAndInsert(w)) /\ WF_vars(EndLocked(w))
-----------------------------------------------------------------------------
(* VerifyHashChain.                                                        *)

\* The row that verify_audit_hash_chain meets just before row w, in the order of
\* the ids, is that of p.
Precedes(p, w) ==
  \/ p = None /\ \A v \in Done : id[v] >= id[w]
  \/ /\ p \in Done
     /\ id[p] < id[w]
     /\ \A v \in Done : id[v] <= id[p] \/ id[v] >= id[w]

\* Row w does not continue the chain: neither its hash nor its previous_hash is
\* what the loop expects.
Broken(w) == ~Precedes(prev[w], w)

\* is_valid of verify_audit_hash_chain(1, id of e).
IsValid(e) == \A w \in Done : id[w] <= id[e] => ~Broken(w)

\* first_invalid_id of the verification is the id of row w: the loop exits there.
FirstInvalid(e, w) ==
  /\ w \in Done /\ id[w] <= id[e] /\ Broken(w)
  /\ \A v \in Done : Broken(v) => id[w] <= id[v]
-----------------------------------------------------------------------------
(* Properties.                                                             *)

\* With nobody but Insert writing, the verification of an event fails exactly when
\* some row up to it was committed after a row with a greater id, and the row it
\* names is such a row: the advisory lock of the trigger keeps every other
\* interleaving of inserts out of the chain.
FirstInvalidIsLate ==
  \A e \in Done :
    /\ IsValid(e) <=> \A w \in late : id[w] > id[e]
    /\ \A w \in Done : FirstInvalid(e, w) => w \in late

\* A validation has one committed audit event at most, also when two inserts of
\* it both found none (WHERE NOT EXISTS and idx_audit_events_validation_dedup).
OneEventPerValidation ==
  \A v, w \in Done \cap Validating : Resource[v] = Resource[w] => v = w

\* The row that ORDER BY id DESC LIMIT 1 finds, or none in an empty table.
LastRows == {p \in Done \cup {None} : IsLast(p)}

\* EventChain with the committed rows as its events and the last row as its head.
Chain == INSTANCE EventChain WITH
  Events <- Writers,
  Genesis <- None,
  stored <- Done,
  follows <- [w \in Writers |-> IF w \in Done THEN prev[w] ELSE None],
  head <- CHOOSE p \in LastRows : TRUE

\* Inserts that overlap, wait, fail and commit in any order are events added one at a time,
\* each hashed onto the head of that instant, and none is ever changed (insertInternal,
\* calculate_audit_event_hash).
ImplementsChain == Chain!ChainSpec

\* Every INSERT ends, also one whose context never does: whoever takes the lock that all
\* writers wait for releases it, with a commit or a rollback (pg_advisory_xact_lock).
EveryInsertEnds == \A w \in Writers : pc[w] # "idle" ~> pc[w] \in Over

\* The statement of verify_audit_hash_chain, "Returns true if chain is valid, false
\* if tampered": nobody tampers here, so every event verifies.
VerifyAccepts == \A e \in Done : IsValid(e)
=============================================================================
