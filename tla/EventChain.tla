----------------------------- MODULE EventChain -----------------------------
(***************************************************************************)
(* What the audit trail promises, with no id, no transaction, no lock and  *)
(* no trigger in it: events are added one at a time and stay as they are,  *)
(* a validation has one event at most, and an event is hashed onto the     *)
(* head of the chain as it is when the event is added.                     *)
(*                                                                         *)
(* The promise is weaker than that of a list.  An event may be added       *)
(* without becoming the head; it is then a leaf that no event follows.     *)
(* AuditChain.tla shows that the service implements this chain.            *)
(***************************************************************************)
CONSTANTS Events,      \* audit events
          Resource,    \* Resource[e]: the resource_id of event e
          Validating,  \* the events of validations
          Genesis      \* what the first event is hashed onto

VARIABLES stored,      \* the events of the chain
          follows,     \* follows[e]: the event that e was hashed onto
          head         \* the event the next one is hashed onto

chainVars == <<stored, follows, head>>

ChainInit ==
  /\ stored = {}
  /\ follows = [e \in Events |-> Genesis]
  /\ head = Genesis

\* The validation of event e has an event already.
Told(e) == e \in Validating /\ \E f \in stored \cap Validating : Resource[f] = Resource[e]

\* Event e is added behind the head.  It becomes the head, as the first event does, or not.
Append(e) ==
  /\ e \notin stored /\ ~Told(e)
  /\ stored' = stored \cup {e}
  /\ follows' = [follows EXCEPT ![e] = head]
  /\ \/ head' = e
     \/ stored # {} /\ head' = head

ChainNext == \E e \in Events : Append(e)

ChainSpec == ChainInit /\ [][ChainNext]_chainVars
=============================================================================
