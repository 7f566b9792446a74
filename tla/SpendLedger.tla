---------------------------- MODULE SpendLedger ----------------------------
(***************************************************************************)
(* What POST /v1/validations promises about money, with no handler, no     *)
(* transaction and no lock in it: a request is decided at most once, a     *)
(* request that is allowed is charged to all of its usage counters in the  *)
(* same instant, a request that is refused is charged to none, and no      *)
(* charge takes a counter above the highest maximum its limit has had.     *)
(* Validation.tla shows that the service implements this ledger, and       *)
(* LimitLifecycle.tla that it does so while limits and counters come and   *)
(* go.                                                                     *)
(***************************************************************************)
EXTENDS Integers

CONSTANTS Requests,   \* request identifiers
          Limits,     \* limits, by position in the order the service lists them
          Buckets,    \* scopes and periods a usage counter can belong to
          Amount,     \* Amount[r]: the amount request r asks for
          Undecided   \* the verdict of a request nobody decided yet

\* A usage counter belongs to one limit and one bucket of it.
Keys == Limits \X Buckets

VARIABLES usage,      \* usage[k]: what has been charged to counter k
          verdict,    \* verdict[r]: the decision on request r
          ceiling     \* ceiling[l]: the highest maximum limit l has had

ledgerVars == <<usage, verdict, ceiling>>

LedgerInit ==
  /\ usage = [k \in Keys |-> 0]
  /\ verdict = [r \in Requests |-> Undecided]
  /\ ceiling \in [Limits -> Nat]

\* What request r asks for is charged to every counter of the set charged, one counter
\* for each limit at most.
Charge(r, charged) ==
  /\ \A j, k \in charged : j[1] = k[1] => j = k
  /\ \A k \in charged : usage[k] + Amount[r] <= ceiling[k[1]]
  /\ usage' = [k \in Keys |-> IF k \in charged THEN usage[k] + Amount[r] ELSE usage[k]]

\* Request r is allowed and charged to all its counters.
Grant(r) ==
  /\ verdict[r] = Undecided
  /\ verdict' = [verdict EXCEPT ![r] = "ALLOW"]
  /\ \E charged \in SUBSET Keys : Charge(r, charged)
  /\ UNCHANGED ceiling

\* Request r is denied or sent to manual review: no counter moves.
Refuse(r) ==
  /\ verdict[r] = Undecided
  /\ \E d \in {"DENY", "REVIEW"} : verdict' = [verdict EXCEPT ![r] = d]
  /\ UNCHANGED <<usage, ceiling>>

\* An administrator gives limit l a maximum higher than any it had.
RaiseCeiling(l) ==
  /\ ceiling'[l] \in Nat /\ ceiling'[l] > ceiling[l]
  /\ ceiling' = [ceiling EXCEPT ![l] = ceiling'[l]]
  /\ UNCHANGED <<usage, verdict>>

LedgerNext ==
  \/ \E r \in Requests : Grant(r) \/ Refuse(r)
  \/ \E l \in Limits : RaiseCeiling(l)

LedgerSpec == LedgerInit /\ [][LedgerNext]_ledgerVars
=============================================================================
