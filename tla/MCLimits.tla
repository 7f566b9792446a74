------------------------------ MODULE MCLimits ------------------------------
(***************************************************************************)
(* Instances of LimitLifecycle for TLC.                                    *)
(***************************************************************************)
EXTENDS LimitLifecycle, TLC

CONSTANTS l1, l2, c1, c2, h1, h2

\* l1 is a custom limit, l2 one with a period of three days.
McLimits == {l1, l2}
Row(status, name, end) == [status |-> status, gone |-> FALSE, name |-> name, max |-> 2, end |-> end]
Request(op, l, name, max, end) == [op |-> op, id |-> l, name |-> name, max |-> max, end |-> end]

\* c1 gives l1 a later end, a higher maximum and the name c2 gives to the new limit l2, or an
\* end beyond the retention; c2 changes the status of l1 or creates l2.
McRequestsOf ==
  c1 :> {Request("update", l1, "b", 3, 2), Request("update", l1, None, None, 5)}
  @@ c2 :> {Request(op, l1, None, None, None) : op \in {"activate", "deactivate", "draft", "delete"}}
           \cup {Request("create", l2, "b", 2, None)}

\* Two charges that do not both fit in l1.
McCharges == {h1, h2}
McChargeOf == h1 :> {l1} @@ h2 :> {l1, l2}
McAmount == [h \in McCharges |-> 2]

\* l2 is in use, or does not exist yet.
McTables == {l1 :> Row("INACTIVE", "a", 1) @@ l2 :> Row("ABSENT", "c", 0),
             l1 :> Row("ACTIVE", "a", 1) @@ l2 :> Row("ACTIVE", "c", 0)}
=============================================================================
