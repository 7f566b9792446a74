----------------------------- MODULE Evaluation -----------------------------
(***************************************************************************)
(* The evaluation of the rules for one transaction: what of the cache is   *)
(* loaded, how the rules are evaluated while the cache goes on changing,   *)
(* and the decision; and the scopes and time windows by which rules and    *)
(* limits apply to a transaction.  RuleSync has how the cache is filled,   *)
(* Validation what is done with the decision.                              *)
(***************************************************************************)
EXTENDS Integers, Sequences, FiniteSets, Functions

CONSTANTS
  Rules,              \* identifiers of rules
  RuleVersions,       \* the contents a rule in the cache may have
  Transactions,       \* the transactions of POST /v1/validations
  Trimmed,            \* Trimmed[s]: the subType s without the spaces around it
  MaxRulesPerRequest, \* EvaluationConfig
  DefaultDecision,    \* DefaultDecisionWhenNoMatch
  MaxChanges,         \* bound: changes of the cache while a transaction is evaluated
  LimitScopes,        \* sequences of scopes limits may have
  Windows,            \* time windows limits may have, pairs of minutes
  Minutes,            \* minutes of the day at which windows are looked at
  None

IdFields == {"accountId", "segmentId", "portfolioId", "merchantId"}
Fields == IdFields \cup {"transactionType", "subType"}

Decisions == {"ALLOW", "DENY", "REVIEW"}

\* The expression of a rule is the transactions for which it is true and those for which
\* its evaluation fails (a key that is missing, an overflow).
Rule(v) ==
  /\ DOMAIN v = {"scopes", "action", "true", "fails"}
  /\ v.action \in Decisions
  /\ v.true \subseteq Transactions /\ v.fails \subseteq Transactions \ v.true

ASSUME EvaluationAssumption ==
  /\ IsFiniteSet(Rules)
  /\ \A v \in RuleVersions : Rule(v)
  /\ None \notin RuleVersions
  /\ MaxRulesPerRequest \in Nat \ {0}
  /\ DefaultDecision \in {"ALLOW", "DENY"}
  /\ MaxChanges \in Nat
  /\ \A scopes \in LimitScopes : scopes \in Seq(Range(scopes))
  /\ Windows \subseteq (0 .. 1439) \X (0 .. 1439) /\ Minutes \subseteq 0 .. 1439
-----------------------------------------------------------------------------
(* Scopes.  A scope is a function of the fields, None where it has no      *)
(* value.                                                                  *)

ptrMatches(pattern, value) == pattern = None \/ pattern = value

\* Scope.Matches, Scope.IsEmpty.
ScopeMatches(s, other) == \A f \in Fields : ptrMatches(s[f], other[f])
IsEmpty(s) == \A f \in Fields : s[f] = None

RuleScopesMatch(scopes, txScope) ==
  scopes = <<>> \/ \E i \in DOMAIN scopes : ScopeMatches(scopes[i], txScope)

\* NormalizeAndValidate trims the subType of the request.
Normalized(t) == [t EXCEPT !.subType = IF @ = None THEN None ELSE Trimmed[@]]

\* The scope of the transaction for the rules: every field of the request.
ToTransactionScope(t) == Restrict(t, Fields)

\* The input of the limit checker has no merchant.
ToCheckLimitsInput(t) == Restrict(t, Fields \ {"merchantId"})

\* Mutant of buildTransactionScope: the portfolio is forgotten.
buildTransactionScopeShort(input) ==
  [f \in Fields |-> IF f \in DOMAIN input \ {"portfolioId"} THEN input[f] ELSE None]

buildTransactionScope(input) == [f \in Fields |-> IF f \in DOMAIN input THEN input[f] ELSE None]

scopeMatchesLimit(scopes, txScope) ==
  scopes = <<>> \/ \E i \in DOMAIN scopes : ScopeMatches(scopes[i], txScope)

\* The key names the ids of the scope; its other fields are left out.
CalculateScopeKey(s) ==
  IF IsEmpty(s) THEN "global" ELSE {<<f, s[f]>> : f \in {g \in IdFields : s[g] # None}}

\* Mutant of calculateScopeKeyFromScopes: the key of the transaction, not of the limit.
calculateScopeKeyFromTransaction(scopes, txScope) ==
  IF scopes = <<>> THEN "global" ELSE CalculateScopeKey(txScope)

\* The key of the first scope that matches.
calculateScopeKeyFromScopes(scopes, txScope) ==
  IF scopes = <<>> THEN "global"
  ELSE LET matching == {i \in DOMAIN scopes : ScopeMatches(scopes[i], txScope)}
           first == CHOOSE i \in matching : \A j \in matching : i <= j
       IN IF matching = {} THEN CalculateScopeKey(txScope) ELSE CalculateScopeKey(scopes[first])

\* A limit with the scopes applies to the transaction, and the key of its counter.
LimitApplies(scopes, t) == scopeMatchesLimit(scopes, buildTransactionScope(ToCheckLimitsInput(t)))
LimitKey(scopes, t) ==
  calculateScopeKeyFromScopes(scopes, buildTransactionScope(ToCheckLimitsInput(t)))

\* Mutant of IsWithinTimeWindow: an overnight window is taken for one of the day.
IsWithinTimeWindowDay(start, end, minute) == minute >= start /\ minute < end

\* A window that ends before it starts goes past midnight.
IsWithinTimeWindow(start, end, minute) ==
  IF start < end THEN minute >= start /\ minute < end
                 ELSE minute >= start \/ minute < end

\* ValidateTimeWindow: a window has a width.
ValidateTimeWindow(start, end) == start # end
-----------------------------------------------------------------------------
VARIABLES
  cache,    \* cache[r]: the active rule r in the cache, or None
  changes,  \* how often it has changed while the transaction was evaluated
  tx,       \* the transaction
  stage,    \* where its evaluation is
  rules,    \* the copies that were loaded
  todo,     \* those of them that are still to be evaluated
  matched,  \* EvaluationCollector: the rules that matched
  total,    \* originalCount
  result,   \* EvaluationResult, or None
  seen      \* history: the cache when the rules were loaded

evaluation == <<cache, changes, tx, stage, rules, todo, matched, total, result, seen>>

Caches == [Rules -> RuleVersions \cup {None}]

\* idle  not called   load  before GetActiveRules   each  in EvaluateAll
\* done  a result     error an error was returned
EvaluationStages == {"idle", "load", "each", "done", "error"}

EvaluationTypeOK ==
  /\ cache \in Caches
  /\ changes \in 0 .. MaxChanges
  /\ stage \in EvaluationStages
  /\ DOMAIN rules \subseteq Rules /\ \A r \in DOMAIN rules : rules[r] \in RuleVersions
  /\ todo \subseteq DOMAIN rules /\ matched \subseteq DOMAIN rules \ todo
  /\ total \in 0 .. Cardinality(Rules)
  /\ seen \in Caches
  /\ stage = "done" =>
       /\ result.decision \in Decisions /\ result.total = total
       /\ result.evaluated = DOMAIN rules

NoRules == [r \in {} |-> None]

EvaluationInit(caches) ==
  /\ cache \in caches
  /\ changes = 0
  /\ tx = None
  /\ stage = "idle"
  /\ rules = NoRules /\ todo = {} /\ matched = {} /\ total = 0
  /\ result = None
  /\ seen = cache

\* EvaluateRulesQuery.Execute is called.
BeginEvaluation(t) ==
  /\ stage = "idle"
  /\ tx' = t
  /\ stage' = "load"
  /\ UNCHANGED <<cache, changes, rules, todo, matched, total, result, seen>>

\* RuleCache.GetActiveRules: the rules in scope, in no order (they are in a map).
InScope == {r \in Rules : cache[r] # None /\ RuleScopesMatch(cache[r].scopes, ToTransactionScope(tx))}

\* Mutant of Kept: one rule too many.
KeptOneMore(ids) == {s \in SUBSET ids : Cardinality(s) =
  IF Cardinality(ids) > MaxRulesPerRequest THEN MaxRulesPerRequest + 1 ELSE Cardinality(ids)}

\* What a cut to MaxRulesPerRequest may leave of them.
Kept(ids) == {s \in SUBSET ids : Cardinality(s) =
  IF Cardinality(ids) > MaxRulesPerRequest THEN MaxRulesPerRequest ELSE Cardinality(ids)}

\* GetActiveRulesQuery on a cache that is ready, and the cut.
LoadRules ==
  /\ stage = "load"
  /\ \E ids \in Kept(InScope) :
       /\ rules' = [r \in ids |-> cache[r]]
       /\ todo' = ids
  /\ total' = Cardinality(InScope)
  /\ seen' = cache
  /\ stage' = "each"
  /\ UNCHANGED <<cache, changes, tx, matched, result>>

\* Mutant of Loaded: the cache hands out its own rules.
LoadedShared(r) == IF cache[r] # None THEN cache[r] ELSE rules[r]

\* The rule as it was copied (deepCopy).
Loaded(r) == rules[r]

\* The result of RuleEvaluator.Evaluate.
Evaluate(v) ==
  IF ~RuleScopesMatch(v.scopes, ToTransactionScope(tx)) THEN "false"
  ELSE IF tx.huge THEN "precision"
  ELSE IF tx \in v.fails THEN "error"
  ELSE IF tx \in v.true THEN "true" ELSE "false"

\* Mutant of EvaluateRule: a rule that fails is logged and skipped.
EvaluateRuleSkip ==
  /\ stage = "each"
  /\ \E r \in todo :
       LET outcome == Evaluate(Loaded(r)) IN
         /\ todo' = todo \ {r}
         /\ matched' = IF outcome = "true" THEN matched \cup {r} ELSE matched
  /\ UNCHANGED <<cache, changes, tx, stage, rules, total, result, seen>>

\* A step of EvaluateAll; the first rule that fails ends it.
EvaluateRule ==
  /\ stage = "each"
  /\ \E r \in todo :
       LET outcome == Evaluate(Loaded(r)) IN
         /\ todo' = todo \ {r}
         /\ matched' = IF outcome = "true" THEN matched \cup {r} ELSE matched
         /\ stage' = IF outcome \in {"error", "precision"} THEN "error" ELSE stage
         /\ result' = IF outcome \in {"error", "precision"} THEN outcome ELSE result
  /\ UNCHANGED <<cache, changes, tx, rules, total, seen>>

\* The rules that matched with an action (DenyRuleIDs and so on).
WithAction(action) == {r \in matched : rules[r].action = action}

MakeDecision ==
  IF WithAction("DENY") # {} THEN "DENY"
  ELSE IF WithAction("REVIEW") # {} THEN "REVIEW"
  ELSE IF WithAction("ALLOW") # {} THEN "ALLOW" ELSE DefaultDecision

\* The end of Execute, with WithTruncationInfo.
Decide ==
  /\ stage = "each" /\ todo = {}
  /\ stage' = "done"
  /\ result' = [decision |-> MakeDecision, matched |-> matched, evaluated |-> DOMAIN rules,
                total |-> total, truncated |-> total > MaxRulesPerRequest]
  /\ UNCHANGED <<cache, changes, tx, rules, todo, matched, total, seen>>

\* EvaluateAll looks at the context before every rule, Execute at its beginning.
CancelEvaluation ==
  /\ stage = "load" \/ (stage = "each" /\ todo # {})
  /\ stage' = "error"
  /\ result' = "cancelled"
  /\ UNCHANGED <<cache, changes, tx, rules, todo, matched, total, seen>>

\* The sync worker or a rule command changes the cache: UpsertRule, RemoveRule, ApplyChanges.
ChangeCache ==
  /\ stage \in {"load", "each"}
  /\ changes < MaxChanges
  /\ \E r \in Rules, v \in RuleVersions \cup {None} :
       /\ v # cache[r]
       /\ cache' = [cache EXCEPT ![r] = v]
  /\ changes' = changes + 1
  /\ UNCHANGED <<tx, stage, rules, todo, matched, total, result, seen>>
-----------------------------------------------------------------------------
(* Properties.                                                             *)

\* The reference: the rules of a cache whose scopes and expression the transaction meets,
\* and those that concern it and fail.
Concern(c, t) == {r \in Rules : c[r] # None /\ RuleScopesMatch(c[r].scopes, ToTransactionScope(t))}
Hits(c, t) == {r \in Concern(c, t) : t \in c[r].true}
Actions(c, t) == {c[r].action : r \in Hits(c, t)}
Reference(c, t) ==
  CASE "DENY" \in Actions(c, t) -> "DENY"
    [] Actions(c, t) = {"ALLOW"} -> "ALLOW"
    [] Actions(c, t) = {} -> DefaultDecision
    [] OTHER -> "REVIEW"

\* The decision is that of the rules in the cache at the moment they were loaded, DENY
\* before REVIEW before ALLOW before the default, in whatever order the map gives them and
\* whatever happens to the cache meanwhile; and all that matched are reported.
DecisionByPrecedence ==
  stage = "done" /\ ~result.truncated =>
    /\ result.decision = Reference(seen, tx)
    /\ result.matched = Hits(seen, tx)

\* No decision is taken over a rule that failed: unless rules were cut, a transaction has
\* a result only when every rule that concerns it could be evaluated (EvaluateAll).
FailsClosed ==
  stage = "done" /\ ~result.truncated =>
    \A r \in Concern(seen, tx) : ~tx.huge /\ tx \notin seen[r].fails

\* A decision over a part of the rules says so, counts them all, looks at as many as it
\* may, and invents no match (MaxRulesPerRequest).
TruncationTold ==
  stage = "done" =>
    LET n == Cardinality(Concern(seen, tx)) IN
      /\ result.truncated <=> n > MaxRulesPerRequest
      /\ result.total = n
      /\ Cardinality(result.evaluated) = IF result.truncated THEN MaxRulesPerRequest ELSE n
      /\ result.matched \subseteq Hits(seen, tx)

\* A limit applies to a transaction that is evaluated when a rule with the same scopes
\* would, but that a scope with a merchant never does: CheckLimitsInput has no merchant.
LimitScopeAgrees ==
  stage = "done" =>
    \A scopes \in LimitScopes :
      LimitApplies(scopes, tx) <=>
        \/ scopes = <<>>
        \/ \E i \in DOMAIN scopes : /\ scopes[i]["merchantId"] = None
                                   /\ RuleScopesMatch(<<scopes[i]>>, ToTransactionScope(tx))

\* The amounts a limit counts, of the transaction that is evaluated and of all others, are
\* not spread over more counters of a period than it has scopes ("prevents counter
\* fragmentation").
CountersNotFragmented ==
  stage = "done" =>
    \A scopes \in LimitScopes :
      LimitApplies(scopes, tx) =>
        Cardinality({LimitKey(scopes, t) : t \in {u \in Transactions : LimitApplies(scopes, u)}})
          <= IF scopes = <<>> THEN 1 ELSE Len(scopes)

\* A window is the minutes met on the way from its start to its end, around midnight where
\* need be.
Cyclic(start, end, minute) == (minute - start) % 1440 < (end - start) % 1440

\* When the limits of a transaction come to be checked, the time window of each holds the
\* minutes from its start on, around midnight where need be, and its end no more.
WindowIsCyclic ==
  stage = "done" =>
    \A w \in Windows, m \in Minutes :
      ValidateTimeWindow(w[1], w[2]) =>
        (IsWithinTimeWindow(w[1], w[2], m) <=> Cyclic(w[1], w[2], m))
=============================================================================
