----------------------------- MODULE MCInstance -----------------------------
(***************************************************************************)
(* Instances of Instance for TLC.                                          *)
(***************************************************************************)
EXTENDS Instance, TLC

CONSTANTS a, b

McDefaults ==
  [apiKeyEnabled |-> TRUE, apiKey |-> TRUE, pluginEnabled |-> FALSE, pluginAddress |-> FALSE,
   celCostLimit |-> None, defaultDecision |-> None, maxRules |-> None, poll |-> 1,
   staleness |-> None, overlap |-> None, cleanup |-> FALSE, cleanupHours |-> None]

\* a is of a newer release than b, which polls every two ticks; the first deployments of
\* b have no key, a cost limit of zero, or a poll interval of zero.
McConfigs ==
  a :> {McDefaults}
  @@ b :> {[McDefaults EXCEPT !.poll = 2], [McDefaults EXCEPT !.apiKey = FALSE],
           [McDefaults EXCEPT !.celCostLimit = 0], [McDefaults EXCEPT !.poll = 0]}
McFiles == a :> {1, 2} @@ b :> {1}
=============================================================================
