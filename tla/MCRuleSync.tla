----------------------------- MODULE MCRuleSync -----------------------------
(***************************************************************************)
(* Instances of RuleSync for TLC.                                          *)
(***************************************************************************)
EXTENDS RuleSync, TLC

CONSTANTS p, q, c1, c2, c3, c4, c5

\* Commands that race for p, from its creation on.
McCommandsRace == {c1, c2, c3, c4, c5}
McOpRace ==
  c1 :> "activate" @@ c2 :> "delete" @@ c3 :> "editExpression" @@ c4 :> "create" @@ c5 :> "draft"
McTargetRace == [c \in McCommandsRace |-> p]

\* This instance activates p, which another one edits, and deactivates q.
McRules == {p, q}
McCommandsLate == {c1, c2, c3}
McOpLate == c1 :> "activate" @@ c2 :> "edit" @@ c3 :> "deactivate"
McTargetLate == c1 :> p @@ c2 :> p @@ c3 :> q
=============================================================================
