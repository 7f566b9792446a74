---------------------------- MODULE MCAuditChain ----------------------------
(***************************************************************************)
(* Instances of AuditChain for TLC.                                        *)
(***************************************************************************)
EXTENDS AuditChain, TLC

CONSTANTS w1, w2, w3, w4, validation1, validation2, rule1

\* Two inserts of the same validation, one of another, and a rule event.
McWriters == {w1, w2, w3, w4}
McResources == {validation1, validation2, rule1}
McResource == w1 :> validation1 @@ w2 :> validation1 @@ w3 :> validation2 @@ w4 :> rule1
McValidating == {w1, w2, w3}
=============================================================================
