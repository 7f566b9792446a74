---------------------------- MODULE MCValidation ----------------------------
(***************************************************************************)
(* Instances of Validation for TLC.  Amounts are chosen so that one        *)
(* request fits every counter and two requests fit none, unless a limit is *)
(* raised in between.                                                      *)
(***************************************************************************)
EXTENDS Validation

\* Two attempts carry request r1, the others a request each.
CONSTANTS h1, h2, h3, r1, r2

McAttempts2 == {h1, h2}
McAttempts3 == {h1, h2, h3}
McRequests == {r1, r2}

\* The two attempts of the pair: duplicates of r1.
McReqSame == [h \in Attempts |-> r1]
\* Two different requests.
McReqOther == [h \in Attempts |-> IF h = h1 THEN r1 ELSE r2]
\* A duplicate pair and another request that competes for the same counters.
McReqMixed == [h \in Attempts |-> IF h = h3 THEN r2 ELSE r1]

\* r1 asks for 2, r2 for 3.
McAmount == [r \in Requests |-> IF r = r1 THEN 2 ELSE 3]
\* One request, alone within a maximum of 4, twice above it.
McAmount3 == [r \in Requests |-> 3]

\* Every limit applies to every request.
McMatches == [r \in Requests |-> Limits]

\* Every limit is always in its window.
McAlways == [l \in Limits |-> Times]
\* Limit 2 is in its window only until the clock moves on.
McWindow == [l \in Limits |-> IF l = 2 THEN {1} ELSE Times]

\* One counter for each limit: same scope, same period.
McOneBucket == [r \in Requests |-> [l \in Limits |-> [t \in Times |-> "b"]]]
\* A new period begins when the clock moves on.
McPeriods == [r \in Requests |-> [l \in Limits |-> [t \in Times |-> IF t = 1 THEN "b" ELSE "c"]]]

\* Maxima: 4 alone, or 2 and 4, so that r2 may be too large by itself.
McFixedMax == [l \in Limits |-> {4}]
McChangingMax == [l \in Limits |-> {2, 4}]
=============================================================================
