-------------------------- MODULE RequestsProofs --------------------------
(***************************************************************************)
(* Theorems about Requests and Evaluation, for any requests, rows, rules,  *)
(* scopes, windows and transactions: what is evaluated and decided, and    *)
(* what the answer of a request tells of what was done.                    *)
(***************************************************************************)
EXTENDS Requests, SumTheorems

\* A window seen as an arc of the day, around midnight.
LEMMA WindowOf == WindowIsCyclic
<1> SUFFICES ASSUME NEW w \in Windows, NEW minute \in Minutes, w[1] # w[2]
             PROVE  IsWithinTimeWindow(w[1], w[2], minute) <=> Cyclic(w[1], w[2], minute)
  BY DEF WindowIsCyclic, ValidateTimeWindow
<1> DEFINE start == w[1]
           end == w[2]
<1>1. start \in 0 .. 1439 /\ end \in 0 .. 1439 /\ minute \in 0 .. 1439 /\ start # end
  BY EvaluationAssumption
<1> HIDE DEF start, end
<1>2. (minute - start) % 1440 = IF minute >= start THEN minute - start ELSE minute - start + 1440
  BY <1>1
<1>3. (end - start) % 1440 = IF end >= start THEN end - start ELSE end - start + 1440
  BY <1>1
<1>4. IsWithinTimeWindow(start, end, minute) <=> Cyclic(start, end, minute)
  BY <1>1, <1>2, <1>3 DEF IsWithinTimeWindow, Cyclic
<1> QED BY <1>4 DEF start, end, IsWithinTimeWindow, Cyclic

\* The time window of a limit, of the day or overnight, holds the minutes from its start to
\* its end around midnight, for every window and minute of the day.
THEOREM WindowHolds == Spec => []WindowIsCyclic
BY WindowOf, PTL

\* What a limit looks at is the scope of the transaction without its merchant.
LEMMA LimitScopeOf ==
  ASSUME NEW t, NEW s
  PROVE  ScopeMatches(s, buildTransactionScope(ToCheckLimitsInput(t))) <=>
           s["merchantId"] = None /\ ScopeMatches(s, ToTransactionScope(t))
<1> DEFINE limitScope == buildTransactionScope(ToCheckLimitsInput(t))
           ruleScope == ToTransactionScope(t)
<1>1. \A f \in Fields : limitScope[f] = IF f = "merchantId" THEN None ELSE t[f]
  BY DEF buildTransactionScope, ToCheckLimitsInput, Restrict, Fields, IdFields
<1>2. \A f \in Fields : ruleScope[f] = t[f]
  BY DEF ToTransactionScope, Restrict
<1>3. "merchantId" \in Fields
  BY DEF Fields, IdFields
<1> HIDE DEF limitScope, ruleScope
<1>4. ScopeMatches(s, limitScope) <=> s["merchantId"] = None /\ ScopeMatches(s, ruleScope)
  BY <1>1, <1>2, <1>3 DEF ScopeMatches, ptrMatches
<1> QED BY <1>4 DEF limitScope, ruleScope

LEMMA LimitScopeOfAll == LimitScopeAgrees
<1> SUFFICES ASSUME NEW scopes \in LimitScopes
             PROVE  LimitApplies(scopes, tx) <=>
                      \/ scopes = <<>>
                      \/ \E i \in DOMAIN scopes :
                           /\ scopes[i]["merchantId"] = None
                           /\ RuleScopesMatch(<<scopes[i]>>, ToTransactionScope(tx))
  BY DEF LimitScopeAgrees
<1>1. ASSUME NEW s PROVE RuleScopesMatch(<<s>>, ToTransactionScope(tx)) <=>
                           ScopeMatches(s, ToTransactionScope(tx))
  BY DEF RuleScopesMatch
<1> QED BY <1>1, LimitScopeOf DEF LimitApplies, scopeMatchesLimit

\* A limit applies to the transactions a rule with its scopes would, except that a scope
\* with a merchant never does, for all scopes and transactions.
THEOREM LimitScopeHolds == Spec => []LimitScopeAgrees
BY LimitScopeOfAll, PTL

LEMMA KeyOfScope ==
  ASSUME NEW scopes, scopes # <<>>, DOMAIN scopes \subseteq Nat, NEW t, LimitApplies(scopes, t)
  PROVE  \E i \in DOMAIN scopes : LimitKey(scopes, t) = CalculateScopeKey(scopes[i])
<1> DEFINE matching == {i \in DOMAIN scopes :
                          ScopeMatches(scopes[i], buildTransactionScope(ToCheckLimitsInput(t)))}
           first == CHOOSE i \in matching : \A j \in matching : i <= j
<1>1. matching # {} /\ matching \subseteq Nat
  BY DEF LimitApplies, scopeMatchesLimit
<1>2. \E i \in matching : \A j \in matching : i <= j
  <2> HIDE DEF matching
  <2> QED BY <1>1, LeastNatural
<1>3. first \in matching
  <2> HIDE DEF matching
  <2> QED BY <1>2
<1>4. LimitKey(scopes, t) = CalculateScopeKey(scopes[first])
  BY <1>1 DEF LimitKey, calculateScopeKeyFromScopes
<1> HIDE DEF first
<1> QED BY <1>3, <1>4

LEMMA KeysAreFew ==
  ASSUME NEW scopes, scopes \in Seq(Range(scopes)), NEW Users,
         \A t \in Users : LimitApplies(scopes, t)
  PROVE  Cardinality({LimitKey(scopes, t) : t \in Users})
           <= IF scopes = <<>> THEN 1 ELSE Len(scopes)
<1> DEFINE keys == {LimitKey(scopes, t) : t \in Users}
<1>1. CASE scopes = <<>>
  <2>1. keys \in SUBSET {"global"}
    BY <1>1 DEF LimitKey, calculateScopeKeyFromScopes
  <2>2. IsFiniteSet({"global"}) /\ Cardinality({"global"}) = 1
    BY FS_Singleton
  <2> HIDE DEF keys
  <2>3. Cardinality(keys) <= 1
    BY <2>1, <2>2, FS_Subset
  <2> QED BY <1>1, <2>3 DEF keys
<1>2. CASE scopes # <<>>
  <2> DEFINE ofScope == [i \in 1 .. Len(scopes) |-> CalculateScopeKey(scopes[i])]
             images == {ofScope[i] : i \in 1 .. Len(scopes)}
  <2>1. Len(scopes) \in Nat /\ DOMAIN scopes = 1 .. Len(scopes)
    OBVIOUS
  <2>2. ASSUME NEW t \in Users PROVE LimitKey(scopes, t) \in images
    <3>1. PICK i \in DOMAIN scopes : LimitKey(scopes, t) = CalculateScopeKey(scopes[i])
      BY <1>2, <2>1, KeyOfScope
    <3> QED BY <2>1, <3>1
  <2>3. keys \in SUBSET images
    BY <2>2
  <2>4. ofScope \in Surjection(1 .. Len(scopes), images)
    BY DEF Surjection
  <2>5. IsFiniteSet(1 .. Len(scopes)) /\ Cardinality(1 .. Len(scopes)) = Len(scopes)
    BY <2>1, FS_Interval
  <2> HIDE DEF keys, images, ofScope
  <2>6. IsFiniteSet(images) /\ Cardinality(images) <= Len(scopes)
    BY <2>4, <2>5, FS_Surjection
  <2>7. Cardinality(keys) <= Cardinality(images) /\ IsFiniteSet(keys)
    BY <2>3, <2>6, FS_Subset
  <2>8. Cardinality(keys) \in Nat /\ Cardinality(images) \in Nat
    BY <2>6, <2>7, FS_CardinalityType
  <2> QED BY <1>2, <2>1, <2>6, <2>7, <2>8 DEF keys
<1> QED BY <1>1, <1>2

LEMMA NotFragmented == CountersNotFragmented
<1> SUFFICES ASSUME NEW scopes \in LimitScopes
             PROVE  Cardinality({LimitKey(scopes, t) :
                                   t \in {u \in Transactions : LimitApplies(scopes, u)}})
                      <= IF scopes = <<>> THEN 1 ELSE Len(scopes)
  BY DEF CountersNotFragmented
<1>1. scopes \in Seq(Range(scopes))
  BY EvaluationAssumption
<1> QED BY <1>1, KeysAreFew

\* What a limit counts is in at most as many counters of a period as the limit has scopes,
\* for any transactions and any scopes: calculateScopeKeyFromScopes never makes a counter
\* of its own for a transaction.
THEOREM FragmentationHolds == Spec => []CountersNotFragmented
BY NotFragmented, PTL
-----------------------------------------------------------------------------
(* The evaluation.  Only its own steps change it; from LoadRules on it is  *)
(* about the copies, and they are those of the cache as it was then.       *)

\* What was loaded: rules that concern the transaction, as many as may be, as they were.
LoadedInv ==
  /\ DOMAIN rules \subseteq Concern(seen, tx)
  /\ total = Cardinality(Concern(seen, tx))
  /\ Cardinality(DOMAIN rules) = IF total > MaxRulesPerRequest THEN MaxRulesPerRequest ELSE total
  /\ \A r \in DOMAIN rules : rules[r] = seen[r]

\* What has been evaluated: no rule that fails, and the matches are those whose expression
\* is true.
EvaluatedInv ==
  /\ todo \subseteq DOMAIN rules
  /\ \A r \in DOMAIN rules \ todo : ~tx.huge /\ tx \notin seen[r].fails
  /\ matched = {r \in DOMAIN rules \ todo : tx \in seen[r].true}

EvalInv ==
  /\ cache \in Caches /\ seen \in Caches
  /\ stage \in {"idle", "load"} => matched = {}
  /\ stage \in {"each", "done"} => LoadedInv /\ EvaluatedInv
  /\ stage = "done" =>
       /\ todo = {}
       /\ result = [decision |-> MakeDecision, matched |-> matched, evaluated |-> DOMAIN rules,
                    total |-> total, truncated |-> total > MaxRulesPerRequest]

LEMMA EvalInit == Init => EvalInv
<1> SUFFICES ASSUME Init PROVE EvalInv
  OBVIOUS
<1>1. cache \in Caches
  BY DEF Init, EvaluationInit, Caches
<1>2. seen = cache /\ stage = "idle" /\ matched = {}
  BY DEF Init, EvaluationInit
<1> QED BY <1>1, <1>2 DEF EvalInv

LEMMA EvalStutter == EvalInv /\ UNCHANGED evaluation => EvalInv'
BY DEF EvalInv, evaluation, LoadedInv, EvaluatedInv, MakeDecision, WithAction

LEMMA EvalBegin == ASSUME EvalInv, NEW t, BeginEvaluation(t) PROVE EvalInv'
BY DEF EvalInv, BeginEvaluation

LEMMA EvalLoad == EvalInv /\ LoadRules => EvalInv'
<1> SUFFICES ASSUME EvalInv, LoadRules PROVE EvalInv'
  OBVIOUS
<1>1. PICK ids \in Kept(InScope) : rules' = [r \in ids |-> cache[r]] /\ todo' = ids
  BY DEF LoadRules
<1>2. /\ total' = Cardinality(InScope) /\ seen' = cache /\ stage' = "each"
      /\ tx' = tx /\ matched' = {} /\ cache' = cache
  BY DEF LoadRules, EvalInv
<1>3. Concern(seen', tx') = InScope
  BY <1>2 DEF Concern, InScope
<1>4. DOMAIN rules' = ids /\ ids \subseteq InScope
  BY <1>1 DEF Kept
<1>5. Cardinality(ids) = IF total' > MaxRulesPerRequest THEN MaxRulesPerRequest ELSE total'
  BY <1>1, <1>2 DEF Kept
<1>6. \A r \in DOMAIN rules' : rules'[r] = seen'[r]
  BY <1>1, <1>2
<1>7. LoadedInv'
  BY <1>2, <1>3, <1>4, <1>5, <1>6 DEF LoadedInv
<1>8. EvaluatedInv'
  BY <1>1, <1>2, <1>4 DEF EvaluatedInv
<1> QED BY <1>2, <1>7, <1>8 DEF EvalInv

\* The copies of rules in scope are evaluated as the reference looks at the cache.
LEMMA OutcomeOf ==
  ASSUME EvalInv, stage = "each", NEW r \in todo
  PROVE  Evaluate(Loaded(r)) = IF tx.huge THEN "precision"
                               ELSE IF tx \in seen[r].fails THEN "error"
                               ELSE IF tx \in seen[r].true THEN "true" ELSE "false"
<1>1. Loaded(r) = seen[r] /\ r \in Concern(seen, tx)
  BY DEF EvalInv, LoadedInv, EvaluatedInv, Loaded
<1>2. RuleScopesMatch(seen[r].scopes, ToTransactionScope(tx))
  BY <1>1 DEF Concern
<1> QED BY <1>1, <1>2 DEF Evaluate

LEMMA EvalRule == EvalInv /\ EvaluateRule => EvalInv'
<1> SUFFICES ASSUME EvalInv, EvaluateRule PROVE EvalInv'
  OBVIOUS
<1>1. /\ stage = "each"
      /\ UNCHANGED <<cache, changes, tx, rules, total, seen>>
  BY DEF EvaluateRule
<1>2. PICK r \in todo :
        /\ todo' = todo \ {r}
        /\ matched' = IF Evaluate(Loaded(r)) = "true" THEN matched \cup {r} ELSE matched
        /\ stage' = IF Evaluate(Loaded(r)) \in {"error", "precision"} THEN "error" ELSE stage
  BY DEF EvaluateRule
<1>3. CASE Evaluate(Loaded(r)) \in {"error", "precision"}
  BY <1>1, <1>2, <1>3 DEF EvalInv
<1>4. CASE Evaluate(Loaded(r)) \notin {"error", "precision"}
  <2>1. ~tx.huge /\ tx \notin seen[r].fails
    BY <1>1, <1>4, OutcomeOf
  <2>2. Evaluate(Loaded(r)) = "true" <=> tx \in seen[r].true
    BY <1>1, <2>1, OutcomeOf
  <2>3. LoadedInv'
    BY <1>1 DEF EvalInv, LoadedInv
  <2>4. todo' \subseteq DOMAIN rules' /\ DOMAIN rules' \ todo' = (DOMAIN rules \ todo) \cup {r}
    BY <1>1, <1>2 DEF EvalInv, EvaluatedInv
  <2>5. matched' = {q \in DOMAIN rules' \ todo' : tx' \in seen'[q].true}
    BY <1>1, <1>2, <2>2, <2>4 DEF EvalInv, EvaluatedInv
  <2>6. EvaluatedInv'
    BY <1>1, <2>1, <2>4, <2>5 DEF EvalInv, EvaluatedInv
  <2> QED BY <1>1, <1>2, <1>4, <2>3, <2>6 DEF EvalInv
<1> QED BY <1>3, <1>4

LEMMA EvalDecide == EvalInv /\ Decide => EvalInv'
BY DEF EvalInv, Decide, LoadedInv, EvaluatedInv, MakeDecision, WithAction

LEMMA EvalCancel == EvalInv /\ CancelEvaluation => EvalInv'
BY DEF EvalInv, CancelEvaluation

LEMMA EvalChange == EvalInv /\ ChangeCache => EvalInv'
<1> SUFFICES ASSUME EvalInv, ChangeCache PROVE EvalInv'
  OBVIOUS
<1>1. cache' \in Caches
  BY DEF EvalInv, ChangeCache, Caches
<1>2. UNCHANGED <<tx, stage, rules, todo, matched, total, result, seen>> /\ stage # "done"
  BY DEF ChangeCache
<1> QED BY <1>1, <1>2 DEF EvalInv, LoadedInv, EvaluatedInv

\* The steps of a request that are no step of the evaluation leave it alone.
LEMMA EvaluationMoves ==
  ASSUME [Next]_vars
  PROVE  \/ UNCHANGED evaluation
         \/ \E t : BeginEvaluation(t)
         \/ LoadRules \/ EvaluateRule \/ Decide \/ CancelEvaluation \/ ChangeCache
<1>1. RuleHandler => UNCHANGED evaluation
  BY DEF RuleHandler, CreateRule, UpdateRule, GetRule, ActivateRule,
     DeactivateRule, DraftRule, DeleteRule, Construct, Fetch
<1>2. LimitHandler => UNCHANGED evaluation
  BY DEF LimitHandler, CreateLimit, UpdateLimit, GetLimit, GetLimitUsage,
     ReadUsage, ActivateLimit, DeactivateLimit, DraftLimit, DeleteLimit, Construct, Fetch
<1>3. QueryHandler => UNCHANGED evaluation
  BY DEF QueryHandler, GetTransactionValidation, GetAuditEvent, VerifyHashChain, Fetch
<1>4. Receive \/ Write \/ Evaluated \/ CheckLimits \/ Store \/ Fail => UNCHANGED evaluation
  BY DEF Receive, Write, Evaluated, CheckLimits, Store, Fail
<1>5. OtherChangesRow \/ OtherTakesName \/ OtherCounts \/ Done \/ UNCHANGED vars
        => UNCHANGED evaluation
  BY DEF OtherChangesRow, OtherTakesName, OtherCounts, Other, Done, vars
<1>6. FindByRequestID => UNCHANGED evaluation \/ \E t : BeginEvaluation(t)
  BY DEF FindByRequestID
<1>7. /\ EvaluateStep => LoadRules \/ EvaluateRule \/ Decide
      /\ EvaluationCancelled => CancelEvaluation
      /\ OtherChangesCache => ChangeCache
  BY DEF EvaluateStep, EvaluationCancelled, OtherChangesCache
<1> QED BY <1>1, <1>2, <1>3, <1>4, <1>5, <1>6, <1>7 DEF Next, Handle

LEMMA EvalStep == EvalInv /\ [Next]_vars => EvalInv'
BY EvaluationMoves, EvalStutter, EvalBegin, EvalLoad, EvalRule, EvalDecide, EvalCancel, EvalChange

LEMMA EvalHolds == Spec => []EvalInv
BY EvalInit, EvalStep, PTL DEF Spec

\* Without a cut, what was loaded is all that concerns the transaction.
LEMMA AllLoaded ==
  ASSUME EvalInv, stage = "done"
  PROVE  /\ Concern(seen, tx) \subseteq Rules
         /\ total \in Nat
         /\ ~(total > MaxRulesPerRequest) => DOMAIN rules = Concern(seen, tx)
<1>1. Concern(seen, tx) \in SUBSET Rules
  BY DEF Concern
<1>2. IsFiniteSet(Concern(seen, tx))
  BY <1>1, FS_Subset, EvaluationAssumption
<1>3. total \in Nat
  BY <1>2, FS_CardinalityType DEF EvalInv, LoadedInv
<1>4. ASSUME ~(total > MaxRulesPerRequest) PROVE DOMAIN rules = Concern(seen, tx)
  <2>1. DOMAIN rules \in SUBSET Concern(seen, tx)
    BY DEF EvalInv, LoadedInv
  <2>2. Cardinality(Concern(seen, tx)) = Cardinality(DOMAIN rules)
    BY <1>4 DEF EvalInv, LoadedInv
  <2> QED BY <1>2, <2>1, <2>2, FS_Subset
<1> QED BY <1>1, <1>3, <1>4

\* Among the matches, the precedence of MakeDecision is that of the reference.
LEMMA DecisionOf ==
  ASSUME seen \in Caches, matched = Hits(seen, tx), \A r \in matched : rules[r] = seen[r]
  PROVE  MakeDecision = Reference(seen, tx)
<1>1. \A r \in matched : seen[r].action \in Decisions
  <2>1. \A r \in matched : r \in Rules /\ seen[r] # None
    BY DEF Hits, Concern
  <2>2. \A r \in matched : seen[r] \in RuleVersions
    BY <2>1 DEF Caches
  <2> QED BY <2>2, EvaluationAssumption DEF Rule
<1>2. \A a : (WithAction(a) # {}) <=> a \in Actions(seen, tx)
  BY DEF WithAction, Actions
<1>3. Actions(seen, tx) \subseteq Decisions
  BY <1>1 DEF Actions
<1>4. CASE "DENY" \in Actions(seen, tx)
  BY <1>2, <1>4 DEF MakeDecision, Reference
<1>5. CASE "DENY" \notin Actions(seen, tx) /\ "REVIEW" \in Actions(seen, tx)
  <2>1. MakeDecision = "REVIEW"
    BY <1>2, <1>5 DEF MakeDecision
  <2>2. Actions(seen, tx) # {} /\ Actions(seen, tx) # {"ALLOW"}
    BY <1>5
  <2> QED BY <1>5, <2>1, <2>2 DEF Reference
<1>6. CASE "DENY" \notin Actions(seen, tx) /\ "REVIEW" \notin Actions(seen, tx)
  <2>1. CASE "ALLOW" \in Actions(seen, tx)
    <3>1. Actions(seen, tx) = {"ALLOW"}
      BY <1>3, <1>6, <2>1 DEF Decisions
    <3> QED BY <1>2, <1>6, <2>1, <3>1 DEF MakeDecision, Reference
  <2>2. CASE "ALLOW" \notin Actions(seen, tx)
    <3>1. Actions(seen, tx) = {}
      BY <1>3, <1>6, <2>2 DEF Decisions
    <3> QED BY <1>2, <1>6, <2>2, <3>1 DEF MakeDecision, Reference
  <2> QED BY <2>1, <2>2
<1> QED BY <1>4, <1>5, <1>6

LEMMA NotCut == ASSUME EvalInv, stage = "done", ~result.truncated PROVE ~(total > MaxRulesPerRequest)
<1>1. result.truncated = (total > MaxRulesPerRequest)
  BY DEF EvalInv
<1> QED BY <1>1

LEMMA EvalDecision == EvalInv => DecisionByPrecedence
<1> SUFFICES ASSUME EvalInv, stage = "done", ~result.truncated
             PROVE  result.decision = Reference(seen, tx) /\ result.matched = Hits(seen, tx)
  BY DEF DecisionByPrecedence
<1>1. result.decision = MakeDecision /\ result.matched = matched /\ ~(total > MaxRulesPerRequest)
  BY NotCut DEF EvalInv
<1>2. DOMAIN rules = Concern(seen, tx)
  BY <1>1, AllLoaded
<1>3. todo = {} /\ EvaluatedInv /\ LoadedInv /\ seen \in Caches
  BY DEF EvalInv
<1>4. matched = Hits(seen, tx)
  BY <1>2, <1>3 DEF EvaluatedInv, Hits
<1>5. \A r \in matched : rules[r] = seen[r]
  BY <1>2, <1>3, <1>4 DEF LoadedInv, Hits
<1>6. MakeDecision = Reference(seen, tx)
  BY <1>3, <1>4, <1>5, DecisionOf
<1> QED BY <1>1, <1>4, <1>6

\* The decision is that of the rules the cache held when they were loaded, by precedence,
\* in whatever order they were evaluated and whatever the workers did to the cache since.
THEOREM DecisionHolds == Spec => []DecisionByPrecedence
BY EvalHolds, EvalDecision, PTL

LEMMA EvalFails == EvalInv => FailsClosed
<1> SUFFICES ASSUME EvalInv, stage = "done", ~result.truncated, NEW r \in Concern(seen, tx)
             PROVE  ~tx.huge /\ tx \notin seen[r].fails
  BY DEF FailsClosed
<1>1. ~(total > MaxRulesPerRequest) /\ todo = {} /\ EvaluatedInv
  BY NotCut DEF EvalInv
<1>2. DOMAIN rules = Concern(seen, tx)
  BY <1>1, AllLoaded
<1> QED BY <1>1, <1>2 DEF EvaluatedInv

\* No decision is taken while a rule that concerns the transaction could not be evaluated.
THEOREM FailsClosedHolds == Spec => []FailsClosed
BY EvalHolds, EvalFails, PTL

LEMMA EvalTruncation == EvalInv => TruncationTold
<1> SUFFICES ASSUME EvalInv, stage = "done" PROVE TruncationTold
  BY DEF TruncationTold
<1>1. /\ result.total = total /\ result.evaluated = DOMAIN rules /\ result.matched = matched
      /\ result.truncated = (total > MaxRulesPerRequest)
      /\ LoadedInv /\ EvaluatedInv
  BY DEF EvalInv
<1>2. matched \subseteq Hits(seen, tx)
  BY <1>1 DEF LoadedInv, EvaluatedInv, Hits
<1> QED BY <1>1, <1>2 DEF TruncationTold, LoadedInv

\* A decision over a part of the rules says so, with the right numbers, and reports no rule
\* that did not match.
THEOREM TruncationHolds == Spec => []TruncationTold
BY EvalHolds, EvalTruncation, PTL
-----------------------------------------------------------------------------
(* The errors of a request and the tables that answer them.                *)

\* The sequences of checks have the errors they give as elements.
LEMMA ChecksAreSequences ==
  /\ <<>> \in Seq(Range(<<>>))
  /\ ValidateHandler \in Seq(Range(ValidateHandler))
  /\ CreateRuleHandler \in Seq(Range(CreateRuleHandler))
  /\ UpdateRuleHandler \in Seq(Range(UpdateRuleHandler))
  /\ CreateLimitHandler \in Seq(Range(CreateLimitHandler))
  /\ UpdateLimitHandler \in Seq(Range(UpdateLimitHandler))
  /\ CreateRuleChecks \in Seq(Range(CreateRuleChecks))
  /\ CreateLimitChecks \in Seq(Range(CreateLimitChecks))
  /\ UpdateLimitChecks \in Seq(Range(UpdateLimitChecks))
<1>1. <<>> \in Seq(Range(<<>>))
  OBVIOUS
<1>2. ValidateHandler \in Seq(Range(ValidateHandler))
  BY DEF ValidateHandler, ValidateRequestChecks, Range
<1>3. /\ CreateRuleHandler \in Seq(Range(CreateRuleHandler))
      /\ UpdateRuleHandler \in Seq(Range(UpdateRuleHandler))
      /\ CreateLimitHandler \in Seq(Range(CreateLimitHandler))
      /\ UpdateLimitHandler \in Seq(Range(UpdateLimitHandler))
  BY DEF CreateRuleHandler, UpdateRuleHandler, CreateLimitHandler, UpdateLimitHandler, Range
<1>4. CreateRuleChecks \in Seq(Range(CreateRuleChecks))
  BY DEF CreateRuleChecks, CompileChecks, Range
<1>5. CreateLimitChecks \in Seq(Range(CreateLimitChecks))
  BY DEF CreateLimitChecks, ValidateCustomPeriodChecks, Range
<1>6. UpdateLimitChecks \in Seq(Range(UpdateLimitChecks))
  BY DEF UpdateLimitChecks, ValidateCustomPeriodChecks, Range
<1> QED BY <1>1, <1>2, <1>3, <1>4, <1>5, <1>6

\* The first check that fails is one of the sequence.
LEMMA FirstFailedIn ==
  ASSUME NEW checks, checks \in Seq(Range(checks)), NEW body
  PROVE  FirstFailed(checks, body) \in Range(checks) \cup {None}
<1> DEFINE failing == {i \in DOMAIN checks : checks[i] \in body}
           first == CHOOSE i \in failing : \A j \in failing : i <= j
<1>1. failing \subseteq Nat
  OBVIOUS
<1>2. CASE failing = {}
  BY <1>2 DEF FirstFailed
<1>3. CASE failing # {}
  <2> HIDE DEF failing
  <2>1. \E i \in failing : \A j \in failing : i <= j
    BY <1>1, <1>3, LeastNatural
  <2>2. first \in failing
    BY <2>1
  <2> HIDE DEF first
  <2>3. first \in DOMAIN checks
    BY <2>2 DEF failing
  <2>4. FirstFailed(checks, body) = checks[first]
    BY <1>3 DEF FirstFailed, failing, first
  <2> QED BY <2>3, <2>4 DEF Range
<1> QED BY <1>2, <1>3

\* None of the checks of the handlers is an error the tables lack, and only that of POST
\* /v1/validations looks at the size of the body.
LEMMA HandlerWords ==
  /\ \A e \in Range(ValidateHandler) \cup Range(CreateRuleHandler) \cup Range(UpdateRuleHandler)
              \cup Range(CreateLimitHandler) \cup Range(UpdateLimitHandler) :
       e \notin Unmapped \cup {"error", "Unauthenticated", "Forbidden"}
  /\ "PayloadTooLarge" \notin Range(CreateRuleHandler) \cup Range(UpdateRuleHandler)
                              \cup Range(CreateLimitHandler) \cup Range(UpdateLimitHandler)
<1>1. \A e \in Range(ValidateHandler) : e \notin Unmapped \cup {"error", "Unauthenticated", "Forbidden"}
  BY DEF ValidateHandler, ValidateRequestChecks, Range, Unmapped
<1>2. \A e \in Range(CreateRuleHandler) \cup Range(UpdateRuleHandler)
               \cup Range(CreateLimitHandler) \cup Range(UpdateLimitHandler) :
        e \notin Unmapped \cup {"error", "Unauthenticated", "Forbidden", "PayloadTooLarge"}
  BY DEF CreateRuleHandler, UpdateRuleHandler, CreateLimitHandler, UpdateLimitHandler, Range,
     Unmapped
<1> QED BY <1>1, <1>2

\* What is refused before the service is called is refused with 400, 401, by the plugin
\* with 403 or, for the size of a validation, with 413.
LEMMA InputAnswers ==
  ASSUME NEW r \in Requests, NEW e, e = InputError(r), e # None
  PROVE  /\ e \in Errors \ (Unmapped \cup {"error"})
         /\ InputStatus(e) \in {400, 401, 403, 413}
         /\ InputStatus(e) = 403 => r.access.pluginAuthEnabled
         /\ InputStatus(e) = 413 => r.verb = "validate"
<1>1. CASE With(r) # None \/ r.id = "malformed"
  <2>1. /\ e \in {"Unauthenticated", "Forbidden", "InvalidPathParameter"}
        /\ e = "Forbidden" => r.access.pluginAuthEnabled
    <3>1. /\ With(r) \in {None, "Unauthenticated", "Forbidden"}
          /\ With(r) = "Forbidden" => r.access.pluginAuthEnabled
      <4>1. "Forbidden" # None
        BY NoneAssumption DEF Errors
      <4> QED BY <4>1, RequestsAssumption DEF With, Protect, APIKeyAuth
    <3> QED BY <1>1, <3>1 DEF InputError
  <2> QED BY <2>1 DEF InputStatus, Errors, Unmapped
<1>2. CASE ~(With(r) # None \/ r.id = "malformed")
  <2>1. e = FirstFailed(HandlerChecks(r), r.body)
    BY <1>2 DEF InputError
  <2>2. CASE r.verb = "validate"
    <3>1. e \in Range(ValidateHandler)
      BY <2>1, <2>2, ChecksAreSequences, FirstFailedIn DEF HandlerChecks
    <3> QED BY <2>2, <3>1, HandlerWords DEF InputStatus, Errors
  <2>3. CASE r.verb = "create"
    <3>1. e \in Range(CreateRuleHandler) \cup Range(CreateLimitHandler)
      BY <2>1, <2>3, ChecksAreSequences, FirstFailedIn DEF HandlerChecks
    <3> QED BY <3>1, HandlerWords DEF InputStatus, Errors
  <2>4. CASE r.verb = "update"
    <3>1. e \in Range(UpdateRuleHandler) \cup Range(UpdateLimitHandler)
      BY <2>1, <2>4, ChecksAreSequences, FirstFailedIn DEF HandlerChecks
    <3> QED BY <3>1, HandlerWords DEF InputStatus, Errors
  <2>5. CASE r.verb \notin {"validate", "create", "update"}
    <3>1. HandlerChecks(r) = <<>>
      BY <2>5 DEF HandlerChecks
    <3>2. FirstFailed(<<>>, r.body) = None
      BY DEF FirstFailed
    <3> QED BY <2>1, <3>1, <3>2
  <2> QED BY <2>2, <2>3, <2>4, <2>5
<1> QED BY <1>1, <1>2

\* The errors of the services are 400 where the tables have them and 500 where not.
LEMMA ServiceWords ==
  /\ \A e \in Range(CreateRuleChecks) :
       e # "error" /\ handleServiceError(e) = IF e \in Unmapped THEN 500 ELSE 400
  /\ \A e \in Range(CreateLimitChecks) \cup Range(UpdateLimitChecks) :
       e # "error" /\ handleLimitServiceError(e) = IF e \in Unmapped THEN 500 ELSE 400
<1>1. \A e \in Range(CreateRuleChecks) :
        e # "error" /\ handleServiceError(e) = IF e \in Unmapped THEN 500 ELSE 400
  BY DEF CreateRuleChecks, CompileChecks, Range, Unmapped, handleServiceError
<1>2. \A e \in Range(CreateLimitChecks) :
        e # "error" /\ handleLimitServiceError(e) = IF e \in Unmapped THEN 500 ELSE 400
  BY DEF CreateLimitChecks, ValidateCustomPeriodChecks, Range, Unmapped, handleLimitServiceError
<1>3. \A e \in Range(UpdateLimitChecks) :
        e # "error" /\ handleLimitServiceError(e) = IF e \in Unmapped THEN 500 ELSE 400
  BY DEF UpdateLimitChecks, ValidateCustomPeriodChecks, Range, Unmapped, handleLimitServiceError
<1> QED BY <1>1, <1>2, <1>3

\* The verbs that change a row are those of rules and limits.
LEMMA KindsOfVerbs ==
  ASSUME NEW r \in Requests
  PROVE  /\ r.verb \in StatusVerbs \cup {"create", "update"} => r.kind \in {"rules", "limits"}
         /\ r.verb = "usage" => r.kind = "limits"
         /\ r.verb = "verify" => r.kind = "audit-events"
         /\ r.verb = "validate" => r.kind = "validations"
         /\ r.verb \in StatusVerbs \cup {"create", "update", "get", "usage", "verify", "validate"}
         /\ r.kind \in Kinds
BY RequestsAssumption DEF Kinds, NewRoutes, StatusVerbs

\* What a command refuses.
LEMMA ServiceAnswers ==
  ASSUME NEW r \in Requests, r.verb \in StatusVerbs \cup {"create", "update"}, NEW status,
         NEW e, e = ServiceError(r, status), e # None
  PROVE  /\ e \in Errors \ {"error"}
         /\ ErrorStatus(r, e) = IF e \in Unmapped THEN 500 ELSE 400
<1>1. CASE r.kind = "rules"
  <2>1. ErrorStatus(r, e) = handleServiceError(e)
    BY <1>1 DEF ErrorStatus, StatusVerbs
  <2>2. e \in Range(CreateRuleChecks)
               \cup {"ErrExpressionNotModifiable", "ErrExpressionSyntax", "InvalidTransitionError"}
    BY <1>1, ChecksAreSequences, FirstFailedIn
       DEF ServiceError, UpdateRuleError, StatusError, StatusVerbs
  <2>3. CASE e \in Range(CreateRuleChecks)
    BY <2>1, <2>3, ServiceWords DEF Errors
  <2>4. CASE e \in {"ErrExpressionNotModifiable", "ErrExpressionSyntax", "InvalidTransitionError"}
    <3>1. "ErrExpressionSyntax" \in Range(CreateRuleChecks)
      BY DEF CreateRuleChecks, CompileChecks, Range
    <3> QED BY <2>1, <2>4, <3>1 DEF handleServiceError, Unmapped, Errors
  <2> QED BY <2>2, <2>3, <2>4
<1>2. CASE r.kind = "limits"
  <2>1. ErrorStatus(r, e) = handleLimitServiceError(e)
    BY <1>2 DEF ErrorStatus, StatusVerbs
  <2>2. e \in Range(CreateLimitChecks) \cup Range(UpdateLimitChecks)
               \cup {"ErrLimitInvalidStatusChange"}
    BY <1>2, ChecksAreSequences, FirstFailedIn DEF ServiceError, StatusError, StatusVerbs
  <2>3. CASE e \in Range(CreateLimitChecks) \cup Range(UpdateLimitChecks)
    BY <2>1, <2>3, ServiceWords DEF Errors
  <2>4. CASE e = "ErrLimitInvalidStatusChange"
    BY <2>1, <2>4 DEF handleLimitServiceError, Unmapped, Errors
  <2> QED BY <2>2, <2>3, <2>4
<1> QED BY <1>1, <1>2, KindsOfVerbs

\* What a request is told when there is no row to read, or none any more.
LEMMA NotFoundAnswers ==
  ASSUME NEW r \in Requests, r.verb \notin {"create", "validate"},
         NEW e, e \in {NilIDError(r.kind), NotFoundError(r.kind)}
  PROVE  /\ e \in Errors \ {"error"}
         /\ ErrorStatus(r, e) = IF e \in Unmapped THEN 500 ELSE 404
         /\ e = NotFoundError(r.kind) => e \notin Unmapped
<1>1. r.kind \in Kinds /\ (r.kind = "validations" => r.verb = "get")
  BY RequestsAssumption DEF Kinds, NewRoutes
<1>2. e \in Errors
  BY <1>1 DEF Errors
<1>3. CASE r.kind = "rules"
  BY <1>2, <1>3 DEF NilIDError, NotFoundError, ErrorStatus, handleServiceError, Unmapped
<1>4. CASE r.kind = "limits"
  BY <1>2, <1>4 DEF NilIDError, NotFoundError, ErrorStatus, handleLimitServiceError, Unmapped
<1>5. CASE r.kind = "validations"
  BY <1>1, <1>2, <1>5 DEF NilIDError, NotFoundError, ErrorStatus,
     handleTransactionValidationServiceError, Unmapped
<1>6. CASE r.kind = "audit-events"
  BY <1>2, <1>6 DEF NilIDError, NotFoundError, ErrorStatus, handleAuditEventServiceError, Unmapped
<1> QED BY <1>1, <1>3, <1>4, <1>5, <1>6 DEF Kinds

\* A name that is taken is a conflict.
LEMMA NameTakenAnswers ==
  ASSUME NEW r \in Requests, r.verb \in {"create", "update"}, NEW e, e = NameTakenError(r.kind)
  PROVE  /\ e \in Errors \ (Unmapped \cup {"error"})
         /\ ErrorStatus(r, e) = 409
<1>1. r.kind \in {"rules", "limits"}
  BY KindsOfVerbs
<1>2. e \in Errors
  BY <1>1 DEF Errors
<1> QED BY <1>1, <1>2 DEF NameTakenError, ErrorStatus, handleServiceError,
          handleLimitServiceError, Unmapped

\* What the database and the end of a context give is 500, of a validation 503.
LEMMA FailureAnswers ==
  ASSUME NEW r \in Requests, NEW e \in {"error", "cancelled"}
  PROVE  /\ e \in Errors
         /\ ErrorStatus(r, e) \in {500, 503}
         /\ ErrorStatus(r, e) \in Answers(r)
<1>1. e \in Errors
  BY DEF Errors
<1>2. ErrorStatus(r, e) \in {500, 503} /\ (r.verb # "validate" => ErrorStatus(r, e) = 500)
  BY KindsOfVerbs DEF ErrorStatus, handleServiceError, handleLimitServiceError, Kinds,
     handleTransactionValidationServiceError, handleAuditEventServiceError, handleValidationError
<1>3. 500 \in Answers(r) /\ (r.verb = "validate" => 503 \in Answers(r))
  BY DEF Answers, Documented
<1> QED BY <1>1, <1>2, <1>3
-----------------------------------------------------------------------------
(* The handling of a request.                                              *)

\* Where the handling is, for which verbs it may be there, and what it may have met on the
\* way: nothing is written, no error is met and nothing has failed before the answer, but
\* that the evaluation may have been cancelled.
HandlingInv ==
  /\ req \in Requests /\ pc \in Pcs
  /\ row \in RowStatuses(req.kind)
  /\ taken \in BOOLEAN /\ failed \in BOOLEAN
  /\ read \in Statuses \cup {None}
  /\ others \in 0 .. MaxOthers
  /\ pc = "arrived" => read = None
  /\ pc = "create" => req.verb = "create"
  /\ pc = "fetch" => req.verb \notin {"create", "validate"} /\ req.id \in {"nil", "known"}
  /\ pc = "usage" => req.verb = "usage"
  /\ pc = "write" => /\ req.verb \in StatusVerbs \cup {"create", "update"}
                     /\ req.verb # "create" => read \in Live
  /\ pc \in {"find", "evaluate", "check", "store"} => req.verb = "validate"
  /\ pc \in {"find", "evaluate", "check"} => read = None
  /\ pc = "store" => read \in {"STORED", None}
  /\ pc = "evaluate" => IF failed THEN stage = "error" /\ result = "cancelled"
                        ELSE stage = "error" => result \in {"error", "precision"}
  /\ pc # "answered" => resp = None /\ err = None /\ effect = None
  /\ pc \notin {"evaluate", "answered"} => ~failed

\* What an answer says.
ToldInv ==
  /\ pc = "answered" => /\ resp \in Answers(req)
                        /\ err \in Errors \cup {None}
                        /\ effect \in Statuses \cup {None}
  /\ AnswerTellsEffect
  /\ ServerErrorsExplained

\* Nothing is told before the answer.
LEMMA NothingTold == pc # "answered" => ToldInv
BY DEF ToldInv, AnswerTellsEffect, ServerErrorsExplained

\* The documented answers, by the verb.
LEMMA DocumentedAnswers ==
  ASSUME NEW r
  PROVE  /\ {400, 401, 500} \subseteq Answers(r)
         /\ r.verb # "validate" /\ r.verb # "create" => 404 \in Answers(r)
         /\ r.verb \in {"create", "update"} => 409 \in Answers(r)
         /\ r.verb = "validate" => {200, 201, 413, 503} \subseteq Answers(r)
         /\ r.verb # "validate" => SuccessStatus(r.verb) \in Answers(r)
BY DEF Answers, Documented, SuccessStatus

\* An answer to an error that was met while nothing had failed and nothing was written.
LEMMA ErrorTold ==
  ASSUME HandlingInv, pc # "answered", ~failed, NEW e \in Errors, NEW status,
         pc' = "answered", resp' = status, err' = e,
         UNCHANGED <<req, row, effect, failed>>,
         status \in Answers(req), status \in {400, 401, 403, 404, 409, 413, 500},
         status = 500 <=> e \in Unmapped \cup {"error"},
         status = 404 => row \in {"ABSENT", "DELETED"} \/ req.id = "nil"
  PROVE  ToldInv'
<1>1. effect' = None /\ failed' = FALSE
  BY DEF HandlingInv
<1>2. AnswerTellsEffect'
  BY <1>1 DEF AnswerTellsEffect
<1>3. ServerErrorsExplained'
  BY <1>1 DEF ServerErrorsExplained
<1> QED BY <1>1, <1>2, <1>3 DEF ToldInv

\* No error the tables lack is the absence of an error.
LEMMA ErrorsAreNotNone == None \notin Unmapped \cup {"error"}
<1>1. {"ErrLimitTimeWindowMismatch", "ErrLimitTimeWindowZeroWidth",
       "ErrLimitCustomDatesNotAllowed", "ErrLimitCustomPeriodTooLong",
       "ErrLimitCustomPeriodExpired", "ErrLimitInvalidCustomStartFormat",
       "ErrLimitInvalidCustomEndFormat", "ErrLimitCustomDatesRequired",
       "ErrLimitCustomDatesOrder", "CustomWithoutDates"} \subseteq Range(CreateLimitChecks)
  BY DEF CreateLimitChecks, ValidateCustomPeriodChecks, Range
<1>2. {"ErrRuleNameRequired", "ErrExpressionCostEstimation", "ErrExpressionProgram"}
         \subseteq Range(CreateRuleChecks)
  BY DEF CreateRuleChecks, CompileChecks, Range
<1>3. {"ErrLimitInvalidID", "ErrInvalidPathParameter"} \subseteq {NilIDError(kind) : kind \in Kinds}
  BY DEF NilIDError, Kinds
<1>4. Unmapped \cup {"error"} \subseteq Errors
  BY <1>1, <1>2, <1>3 DEF Unmapped, Errors
<1> QED BY <1>4, NoneAssumption

\* A success without failure.
LEMMA SuccessTold ==
  ASSUME HandlingInv, ~failed, pc' = "answered", resp' \in {200, 201, 204}, resp' \in Answers(req),
         err' = None, UNCHANGED <<req, failed>>, effect' \in Statuses \cup {None}, AnswerTellsEffect'
  PROVE  ToldInv'
<1>1. ServerErrorsExplained'
  BY ErrorsAreNotNone DEF ServerErrorsExplained
<1> QED BY <1>1 DEF ToldInv

\* The invariant, once the request is answered.
LEMMA AnsweredHandling ==
  ASSUME HandlingInv, pc' = "answered", UNCHANGED <<req, taken, others>>,
         row' \in RowStatuses(req.kind), failed' \in BOOLEAN, read' \in Statuses \cup {None}
  PROVE  HandlingInv'
BY DEF HandlingInv, Pcs

LEMMA HandlingInit == Init => HandlingInv /\ ToldInv
<1> SUFFICES ASSUME Init PROVE HandlingInv /\ ToldInv
  OBVIOUS
<1>1. req \in Requests /\ pc = "arrived" /\ read = None /\ err = None /\ resp = None
      /\ effect = None /\ failed = FALSE /\ others = 0
  BY DEF Init
<1>2. row \in RowStatuses(req.kind)
  BY <1>1, RequestsAssumption DEF Init, RowStatuses
<1>3. taken \in BOOLEAN
  BY DEF Init
<1>4. 0 \in 0 .. MaxOthers
  BY RequestsAssumption
<1>5. HandlingInv
  BY <1>1, <1>2, <1>3, <1>4 DEF HandlingInv, Pcs
<1> QED BY <1>1, <1>5, NothingTold

LEMMA HandleReceive == HandlingInv /\ Receive => HandlingInv' /\ ToldInv'
<1> SUFFICES ASSUME HandlingInv, Receive PROVE HandlingInv' /\ ToldInv'
  OBVIOUS
<1>1. /\ pc = "arrived" /\ err' = InputError(req) /\ ~failed /\ read = None /\ resp = None
      /\ UNCHANGED <<req, taken, others, row, read, effect, failed>>
  BY DEF Receive, HandlingInv, scene
<1>2. req \in Requests /\ row \in RowStatuses(req.kind) /\ failed \in BOOLEAN /\ effect = None
  BY <1>1 DEF HandlingInv
<1>3. CASE err' # None
  <2>1. pc' = "answered" /\ resp' = InputStatus(err')
    BY <1>3 DEF Receive, Answer
  <2>2. /\ err' \in Errors \ (Unmapped \cup {"error"}) /\ InputStatus(err') \in {400, 401, 403, 413}
        /\ InputStatus(err') = 403 => req.access.pluginAuthEnabled
        /\ InputStatus(err') = 413 => req.verb = "validate"
    BY <1>1, <1>2, <1>3, InputAnswers
  <2>3. InputStatus(err') \in Answers(req)
    BY <2>2, DocumentedAnswers DEF Answers
  <2>4. ToldInv'
    BY <1>1, <2>1, <2>2, <2>3, ErrorTold
  <2> QED BY <1>1, <1>2, <2>1, <2>4, AnsweredHandling
<1>4. CASE err' = None
  <2>1. /\ pc' = CASE req.verb = "validate" -> "find" [] req.verb = "create" -> "create"
                   [] OTHER -> "fetch"
        /\ resp' = resp
    BY <1>4 DEF Receive
  <2>2. req.id # "malformed"
    BY <1>1, <1>4, NoneAssumption DEF InputError, Errors
  <2>3. req.verb \notin {"create", "validate"} => req.id \in {"nil", "known"}
    BY <1>2, <2>2, RequestsAssumption
  <2>4. HandlingInv'
    BY <1>1, <1>2, <1>4, <2>1, <2>3 DEF HandlingInv, Pcs
  <2> QED BY <2>1, <2>4, NothingTold DEF ToldInv, AnswerTellsEffect, ServerErrorsExplained
<1> QED BY <1>3, <1>4

\* A row that is read is there; of rules and limits it has one of the three statuses.
LEMMA FetchFound ==
  ASSUME HandlingInv, pc = "fetch", FetchError = None
  PROVE  /\ req.id = "known" /\ row \in Live \cup {"STORED"}
         /\ req.kind \in {"rules", "limits"} => row \in Live
<1>1. req \in Requests /\ req.id \in {"nil", "known"} /\ req.verb \notin {"create", "validate"}
      /\ row \in RowStatuses(req.kind)
  BY DEF HandlingInv
<1>2. NilIDError(req.kind) # None /\ NotFoundError(req.kind) # None
  BY <1>1, NotFoundAnswers, NoneAssumption
<1>3. req.id = "known" /\ Found
  BY <1>1, <1>2 DEF FetchError
<1>4. req.kind \in {"rules", "limits"} => row \in Live
  BY <1>1, <1>3 DEF Found, RowStatuses, Live
<1> QED BY <1>3, <1>4 DEF Found

\* Without a row the answer is 404, or what the zero id is refused with.
LEMMA FetchRefused ==
  ASSUME HandlingInv, pc = "fetch", FetchError # None, ReturnError(FetchError), read' = read,
         UNCHANGED <<scene, row, effect, failed>>
  PROVE  HandlingInv' /\ ToldInv'
<1>1. /\ req \in Requests /\ req.id \in {"nil", "known"} /\ req.verb \notin {"create", "validate"}
      /\ row \in RowStatuses(req.kind) /\ failed = FALSE /\ read \in Statuses \cup {None}
  BY DEF HandlingInv
<1> DEFINE e == FetchError
           status == ErrorStatus(req, e)
<1>2. e \in {NilIDError(req.kind), NotFoundError(req.kind)}
  BY <1>1 DEF FetchError
<1>3. e \in Errors \ {"error"} /\ status = IF e \in Unmapped THEN 500 ELSE 404
  BY <1>1, <1>2, NotFoundAnswers
<1>4. status = 404 => row \in {"ABSENT", "DELETED"} \/ req.id = "nil"
  <2>1. req.id = "known" => ~Found
    BY <1>1 DEF FetchError
  <2> QED BY <1>1, <2>1 DEF Found, RowStatuses
<1>5. pc' = "answered" /\ resp' = status /\ err' = e /\ UNCHANGED <<req, taken, others>>
  BY DEF ReturnError, Answer, scene
<1>6. status \in Answers(req)
  BY <1>1, <1>3, DocumentedAnswers
<1> HIDE DEF e, status
<1>7. ToldInv'
  BY <1>1, <1>3, <1>4, <1>5, <1>6, ErrorTold
<1> QED BY <1>1, <1>5, <1>7, AnsweredHandling

\* A command that finds its request wrong says so, and has done nothing.
LEMMA CommandRefused ==
  ASSUME HandlingInv, pc \in {"fetch", "create"}, req.verb \in StatusVerbs \cup {"create", "update"},
         NEW e, e = ServiceError(req, row), e # None, ReturnError(e),
         read' \in Statuses \cup {None}, UNCHANGED <<scene, row, effect, failed>>
  PROVE  HandlingInv' /\ ToldInv'
<1>1. /\ req \in Requests /\ row \in RowStatuses(req.kind) /\ failed = FALSE
  BY DEF HandlingInv
<1> DEFINE status == ErrorStatus(req, e)
<1>2. e \in Errors \ {"error"} /\ status = IF e \in Unmapped THEN 500 ELSE 400
  BY <1>1, ServiceAnswers
<1>3. pc' = "answered" /\ resp' = status /\ err' = e /\ UNCHANGED <<req, taken, others>>
  BY DEF ReturnError, Answer, scene
<1>4. status \in Answers(req)
  BY <1>2, DocumentedAnswers
<1> HIDE DEF status
<1>5. ToldInv'
  BY <1>1, <1>2, <1>3, <1>4, ErrorTold
<1> QED BY <1>1, <1>3, <1>5, AnsweredHandling

\* A command that finds nothing wrong goes to its write.
LEMMA CommandGoesOn ==
  ASSUME HandlingInv, pc \in {"fetch", "create"}, req.verb \in StatusVerbs \cup {"create", "update"},
         GoTo("write"), read' \in Statuses \cup {None}, req.verb # "create" => read' \in Live,
         UNCHANGED <<scene, row, effect, failed>>
  PROVE  HandlingInv' /\ ToldInv'
<1>1. pc' = "write" /\ UNCHANGED <<req, taken, others, err, resp, effect, failed, row>>
  BY DEF GoTo, scene
<1>2. HandlingInv'
  BY <1>1 DEF HandlingInv, Pcs
<1>3. ToldInv'
  BY <1>1 DEF ToldInv, AnswerTellsEffect, ServerErrorsExplained
<1> QED BY <1>2, <1>3

\* A request that has read its row and has nothing to write is answered.
LEMMA ReadTold ==
  ASSUME HandlingInv, pc = "fetch", read' = row, Succeed, UNCHANGED <<scene, row, effect, failed>>,
         req.verb \in StatusVerbs => row = Target(req.verb),
         req.verb \in StatusVerbs \cup {"get", "verify"}
  PROVE  HandlingInv' /\ ToldInv'
<1>1. /\ pc' = "answered" /\ resp' = SuccessStatus(req.verb) /\ err' = None
      /\ UNCHANGED <<req, taken, others, row, effect, failed>>
      /\ effect' = None /\ failed = FALSE
  BY DEF Succeed, Answer, scene, HandlingInv
<1>2. req \in Requests /\ row \in RowStatuses(req.kind) /\ row \in Statuses
  BY DEF HandlingInv, RowStatuses, Statuses
<1>3. SuccessStatus(req.verb) \in {200, 204} /\ SuccessStatus(req.verb) \in Answers(req)
  BY DocumentedAnswers DEF SuccessStatus, StatusVerbs
<1>4. HandlingInv'
  BY <1>1, <1>2, AnsweredHandling
<1>5. AnswerTellsEffect'
  BY <1>1, <1>3 DEF AnswerTellsEffect, StatusVerbs
<1>6. effect' \in Statuses \cup {None}
  BY <1>1
<1>7. ToldInv'
  BY <1>1, <1>3, <1>5, <1>6, SuccessTold
<1> QED BY <1>4, <1>7

LEMMA HandleQuery ==
  ASSUME HandlingInv, req.verb \in {"get", "verify"}, Fetch(Succeed)
  PROVE  HandlingInv' /\ ToldInv'
<1>1. pc = "fetch" /\ UNCHANGED <<scene, row, effect, failed>>
  BY DEF Fetch
<1>2. CASE FetchError # None
  BY <1>1, <1>2, FetchRefused DEF Fetch
<1>3. CASE FetchError = None
  BY <1>1, <1>3, ReadTold DEF Fetch, StatusVerbs
<1> QED BY <1>2, <1>3

LEMMA HandleUsage ==
  ASSUME HandlingInv, req.verb = "usage", Fetch(GoTo("usage"))
  PROVE  HandlingInv' /\ ToldInv'
<1>1. pc = "fetch" /\ UNCHANGED <<scene, row, effect, failed>>
  BY DEF Fetch
<1>2. CASE FetchError # None
  BY <1>1, <1>2, FetchRefused DEF Fetch
<1>3. CASE FetchError = None
  <2>1. pc' = "usage" /\ read' = row /\ UNCHANGED <<err, resp>>
    BY <1>3 DEF Fetch, GoTo
  <2>2. row \in Statuses
    BY DEF HandlingInv, RowStatuses, Statuses
  <2>3. HandlingInv'
    BY <1>1, <2>1, <2>2 DEF HandlingInv, Pcs, scene
  <2> QED BY <2>1, <2>3 DEF ToldInv, AnswerTellsEffect, ServerErrorsExplained
<1> QED BY <1>2, <1>3

\* What becomes of a command at its check.
LEMMA CommandChecked ==
  ASSUME HandlingInv, pc \in {"fetch", "create"}, req.verb \in StatusVerbs \cup {"create", "update"},
         Checked, read' \in Statuses \cup {None}, req.verb # "create" => read' \in Live,
         UNCHANGED <<scene, row, effect, failed>>
  PROVE  HandlingInv' /\ ToldInv'
<1> DEFINE e == ServiceError(req, row)
<1>1. CASE e # None
  <2>1. ReturnError(e)
    BY <1>1 DEF Checked
  <2> HIDE DEF e
  <2> QED BY <1>1, <2>1, CommandRefused DEF e
<1>2. CASE e = None
  <2>1. GoTo("write")
    BY <1>2 DEF Checked
  <2> QED BY <2>1, CommandGoesOn
<1> QED BY <1>1, <1>2

LEMMA HandleUpdate ==
  ASSUME HandlingInv, req.verb = "update", Fetch(Checked)
  PROVE  HandlingInv' /\ ToldInv'
<1>1. pc = "fetch" /\ UNCHANGED <<scene, row, effect, failed>>
  BY DEF Fetch
<1>2. CASE FetchError # None
  BY <1>1, <1>2, FetchRefused DEF Fetch
<1>3. CASE FetchError = None
  <2>1. req.kind \in {"rules", "limits"}
    BY KindsOfVerbs DEF HandlingInv
  <2>2. read' = row /\ row \in Live /\ row \in Statuses /\ Checked
    BY <1>1, <1>3, <2>1, FetchFound DEF Fetch, Statuses
  <2> QED BY <1>1, <2>2, CommandChecked
<1> QED BY <1>2, <1>3

LEMMA HandleStatus ==
  ASSUME HandlingInv, req.verb \in StatusVerbs, Fetch(SetStatus)
  PROVE  HandlingInv' /\ ToldInv'
<1>1. pc = "fetch" /\ UNCHANGED <<scene, row, effect, failed>>
  BY DEF Fetch
<1>2. CASE FetchError # None
  BY <1>1, <1>2, FetchRefused DEF Fetch
<1>3. CASE FetchError = None
  <2>1. req.kind \in {"rules", "limits"}
    BY KindsOfVerbs DEF HandlingInv
  <2>2. read' = row /\ row \in Live /\ row \in Statuses /\ SetStatus
    BY <1>1, <1>3, <2>1, FetchFound DEF Fetch, Statuses
  <2>3. CASE row = Target(req.verb)
    <3>1. Succeed
      BY <2>2, <2>3 DEF SetStatus
    <3> QED BY <1>1, <2>2, <2>3, <3>1, ReadTold
  <2>4. CASE row # Target(req.verb)
    <3>1. Checked
      BY <2>2, <2>4 DEF SetStatus
    <3> QED BY <1>1, <2>2, <3>1, CommandChecked DEF StatusVerbs
  <2> QED BY <2>3, <2>4
<1> QED BY <1>2, <1>3

LEMMA HandleCreate ==
  ASSUME HandlingInv, req.verb = "create", Construct
  PROVE  HandlingInv' /\ ToldInv'
<1>1. pc = "create" /\ Checked /\ read' = read /\ UNCHANGED <<scene, row, effect, failed>>
  BY DEF Construct
<1>2. read' \in Statuses \cup {None}
  BY <1>1 DEF HandlingInv
<1> QED BY <1>1, <1>2, CommandChecked

LEMMA HandleReadUsage == HandlingInv /\ ReadUsage => HandlingInv' /\ ToldInv'
<1> SUFFICES ASSUME HandlingInv, ReadUsage PROVE HandlingInv' /\ ToldInv'
  OBVIOUS
<1>1. /\ pc = "usage" /\ pc' = "answered" /\ resp' = 200 /\ err' = None
      /\ UNCHANGED <<req, taken, others, row, read, effect, failed>>
      /\ effect' = None /\ failed = FALSE /\ req.verb = "usage"
  BY DEF ReadUsage, Answer, scene, HandlingInv
<1>2. AnswerTellsEffect'
  BY <1>1 DEF AnswerTellsEffect, StatusVerbs
<1>3. SuccessStatus(req.verb) = 200
  BY <1>1 DEF SuccessStatus
<1>4. ToldInv'
  BY <1>1, <1>2, <1>3, DocumentedAnswers, SuccessTold
<1>5. row' \in RowStatuses(req.kind) /\ failed' \in BOOLEAN /\ read' \in Statuses \cup {None}
  BY <1>1 DEF HandlingInv
<1> QED BY <1>1, <1>4, <1>5, AnsweredHandling

\* The status a write gives the row.
LEMMA WrittenStatus ==
  ASSUME HandlingInv, pc = "write"
  PROVE  Written \in Live \cup {"DELETED"} /\ req.kind \in {"rules", "limits"}
<1>1. req \in Requests /\ req.verb \in StatusVerbs \cup {"create", "update"}
      /\ (req.verb # "create" => read \in Live)
  BY DEF HandlingInv
<1> QED BY <1>1, KindsOfVerbs DEF Written, Target, StatusVerbs, Live

LEMMA HandleWrite == HandlingInv /\ Write => HandlingInv' /\ ToldInv'
<1> SUFFICES ASSUME HandlingInv, Write PROVE HandlingInv' /\ ToldInv'
  OBVIOUS
<1>1. /\ pc = "write" /\ UNCHANGED <<req, taken, others, read, failed>>
      /\ req \in Requests /\ failed = FALSE /\ effect = None /\ err = None
      /\ read \in Statuses \cup {None} /\ row \in RowStatuses(req.kind)
      /\ req.verb \in StatusVerbs \cup {"create", "update"}
  BY DEF Write, scene, HandlingInv
<1>2. req.verb # "validate"
  BY <1>1 DEF StatusVerbs
<1>3. CASE ~RowsAffected
  <2> DEFINE e == NotFoundError(req.kind)
             status == ErrorStatus(req, e)
  <2>1. ReturnError(e) /\ UNCHANGED <<row, effect>>
    BY <1>3 DEF Write
  <2>2. req.verb # "create" /\ row \in {"ABSENT", "DELETED"}
    BY <1>1, <1>3, WrittenStatus DEF RowsAffected, RowStatuses
  <2>3. e \in Errors \ {"error"} /\ status = 404 /\ e \notin Unmapped
    BY <1>1, <1>2, <2>2, NotFoundAnswers
  <2>4. pc' = "answered" /\ resp' = status /\ err' = e
    BY <2>1 DEF ReturnError, Answer
  <2>5. status \in Answers(req)
    BY <1>2, <2>2, <2>3, DocumentedAnswers
  <2> HIDE DEF e, status
  <2>6. ToldInv'
    BY <1>1, <2>1, <2>2, <2>3, <2>4, <2>5, ErrorTold
  <2> QED BY <1>1, <2>1, <2>4, <2>6, AnsweredHandling
<1>4. CASE RowsAffected /\ NameTaken
  <2> DEFINE e == NameTakenError(req.kind)
             status == ErrorStatus(req, e)
  <2>1. ReturnError(e) /\ UNCHANGED <<row, effect>>
    BY <1>4 DEF Write
  <2>2. req.verb \in {"create", "update"}
    BY <1>4 DEF NameTaken
  <2>3. e \in Errors \ (Unmapped \cup {"error"}) /\ status = 409
    BY <1>1, <2>2, NameTakenAnswers
  <2>4. pc' = "answered" /\ resp' = status /\ err' = e
    BY <2>1 DEF ReturnError, Answer
  <2>5. status \in Answers(req)
    BY <2>2, <2>3, DocumentedAnswers
  <2> HIDE DEF e, status
  <2>6. ToldInv'
    BY <1>1, <2>1, <2>3, <2>4, <2>5, ErrorTold
  <2> QED BY <1>1, <2>1, <2>4, <2>6, AnsweredHandling
<1>5. CASE RowsAffected /\ ~NameTaken
  <2>1. /\ row' = Written /\ effect' = Written /\ err' = None
        /\ pc' = "answered" /\ resp' = SuccessStatus(req.verb)
    BY <1>1, <1>5 DEF Write, Succeed, Answer
  <2>2. Written \in RowStatuses(req.kind) /\ Written \in Statuses
    BY <1>1, WrittenStatus DEF RowStatuses, Statuses
  <2>3. SuccessStatus(req.verb) \in {200, 201, 204} /\ SuccessStatus(req.verb) \in Answers(req)
    BY <1>2, DocumentedAnswers DEF SuccessStatus
  <2>4. effect' # None
    BY <2>1, <2>2, NoneAssumption
  <2>5. AnswerTellsEffect'
    BY <1>1, <1>2, <2>1, <2>3, <2>4 DEF AnswerTellsEffect
  <2>6. ToldInv'
    BY <1>1, <2>1, <2>2, <2>3, <2>5, SuccessTold
  <2> QED BY <1>1, <2>1, <2>2, <2>6, AnsweredHandling
<1> QED BY <1>3, <1>4, <1>5

\* A failure is told as one, whatever of the write has come through.
LEMMA HandleFail == HandlingInv /\ Fail => HandlingInv' /\ ToldInv'
<1> SUFFICES ASSUME HandlingInv, Fail PROVE HandlingInv' /\ ToldInv'
  OBVIOUS
<1>1. PICK e \in {"error", "cancelled"} : ReturnError(e)
  BY DEF Fail
<1>2. /\ failed' = TRUE /\ UNCHANGED <<req, taken, others, read>>
      /\ pc' = "answered" /\ err' = e /\ resp' = ErrorStatus(req, e)
  BY <1>1 DEF Fail, ReturnError, Answer, scene
<1>3. req \in Requests /\ row \in RowStatuses(req.kind) /\ read \in Statuses \cup {None}
  BY DEF HandlingInv
<1>4. e \in Errors /\ resp' \in {500, 503} /\ resp' \in Answers(req)
  BY <1>2, <1>3, FailureAnswers
<1>5. row' \in RowStatuses(req.kind) /\ effect' \in Statuses \cup {None}
  <2>1. CASE UNCHANGED <<row, effect>>
    BY <1>3, <2>1 DEF HandlingInv, Fail
  <2>2. CASE pc = "write" /\ row' = Written /\ effect' = Written
    BY <2>2, WrittenStatus DEF RowStatuses, Statuses
  <2>3. CASE pc = "store" /\ row' = "STORED" /\ effect' = "STORED"
    <3>1. req.kind = "validations"
      BY <1>3, <2>3, KindsOfVerbs DEF HandlingInv
    <3> QED BY <2>3, <3>1 DEF RowStatuses, Statuses
  <2> QED BY <2>1, <2>2, <2>3 DEF Fail
<1>6. HandlingInv'
  BY <1>2, <1>3, <1>5, AnsweredHandling
<1>7. AnswerTellsEffect'
  BY <1>2, <1>4 DEF AnswerTellsEffect
<1>8. ServerErrorsExplained'
  BY <1>2, <1>4 DEF ServerErrorsExplained
<1> QED BY <1>2, <1>4, <1>5, <1>6, <1>7, <1>8 DEF ToldInv

\* A validation is about one of the validations, which is stored or not.
LEMMA ValidationRow ==
  ASSUME HandlingInv, pc \in {"find", "evaluate", "check", "store"}
  PROVE  /\ req.verb = "validate" /\ req.kind = "validations"
         /\ RowStatuses(req.kind) = {"ABSENT", "STORED"} /\ row \in {"ABSENT", "STORED"}
         /\ resp = None /\ err = None /\ effect = None
<1>1. req.verb = "validate" /\ req.kind = "validations" /\ row \in RowStatuses(req.kind)
  BY KindsOfVerbs DEF HandlingInv
<1> QED BY <1>1 DEF RowStatuses, HandlingInv

LEMMA HandleFind == HandlingInv /\ FindByRequestID => HandlingInv' /\ ToldInv'
<1> SUFFICES ASSUME HandlingInv, FindByRequestID PROVE HandlingInv' /\ ToldInv'
  OBVIOUS
<1>1. /\ pc = "find" /\ UNCHANGED <<req, taken, others, row, read, err, effect, failed>>
      /\ failed = FALSE /\ read = None
  BY DEF FindByRequestID, scene, HandlingInv
<1>2. CASE row = "STORED"
  <2>1. pc' = "answered" /\ resp' = 200 /\ err' = None /\ effect' = None
    BY <1>1, <1>2, ValidationRow DEF FindByRequestID, Answer
  <2>2. AnswerTellsEffect'
    BY <1>1, <1>2, <2>1, ValidationRow DEF AnswerTellsEffect, StatusVerbs
  <2>3. ToldInv'
    BY <1>1, <2>1, <2>2, ValidationRow, DocumentedAnswers, SuccessTold
  <2> QED BY <1>1, <2>1, <2>3, AnsweredHandling DEF HandlingInv
<1>3. CASE row # "STORED"
  <2>1. pc' = "evaluate" /\ resp' = resp /\ stage' = "load"
    BY <1>3 DEF FindByRequestID, BeginEvaluation
  <2>2. HandlingInv'
    BY <1>1, <2>1 DEF HandlingInv, Pcs
  <2> QED BY <2>1, <2>2 DEF ToldInv, AnswerTellsEffect, ServerErrorsExplained
<1> QED BY <1>2, <1>3

LEMMA HandleEvaluateStep == HandlingInv /\ EvaluateStep => HandlingInv' /\ ToldInv'
<1> SUFFICES ASSUME HandlingInv, EvaluateStep PROVE HandlingInv' /\ ToldInv'
  OBVIOUS
<1>1. /\ pc = "evaluate" /\ stage \in {"load", "each"}
      /\ UNCHANGED <<req, taken, others, row, pc, read, err, resp, effect, failed>>
  BY DEF EvaluateStep, LoadRules, EvaluateRule, Decide, scene, handling
<1>2. failed = FALSE
  BY <1>1 DEF HandlingInv
<1>3. stage' = "error" => result' \in {"error", "precision"}
  BY <1>1 DEF EvaluateStep, LoadRules, EvaluateRule, Decide
<1>4. HandlingInv'
  BY <1>1, <1>2, <1>3 DEF HandlingInv
<1> QED BY <1>1, <1>4 DEF ToldInv, AnswerTellsEffect, ServerErrorsExplained

LEMMA HandleCancelled == HandlingInv /\ EvaluationCancelled => HandlingInv' /\ ToldInv'
<1> SUFFICES ASSUME HandlingInv, EvaluationCancelled PROVE HandlingInv' /\ ToldInv'
  OBVIOUS
<1>1. /\ pc = "evaluate" /\ failed' = TRUE /\ stage' = "error" /\ result' = "cancelled"
      /\ UNCHANGED <<req, taken, others, row, pc, read, err, resp, effect>>
  BY DEF EvaluationCancelled, CancelEvaluation, scene
<1>2. HandlingInv'
  BY <1>1 DEF HandlingInv
<1> QED BY <1>1, <1>2 DEF ToldInv, AnswerTellsEffect, ServerErrorsExplained

LEMMA HandleEvaluated == HandlingInv /\ Evaluated => HandlingInv' /\ ToldInv'
<1> SUFFICES ASSUME HandlingInv, Evaluated PROVE HandlingInv' /\ ToldInv'
  OBVIOUS
<1>1. /\ pc = "evaluate" /\ stage \in {"done", "error"}
      /\ UNCHANGED <<req, taken, others, row, read, effect, failed, stage, result>>
  BY DEF Evaluated, scene, evaluation
<1>2. /\ req.verb = "validate" /\ req.kind = "validations"
      /\ effect = None /\ read = None /\ failed \in BOOLEAN
  BY <1>1, ValidationRow DEF HandlingInv
<1>3. CASE stage = "error"
  <2>1. pc' = "answered" /\ err' = result /\ resp' = handleValidationError(result)
    BY <1>2, <1>3 DEF Evaluated, ReturnError, Answer, ErrorStatus
  <2>2. IF failed THEN result = "cancelled" ELSE result \in {"error", "precision"}
    BY <1>1, <1>3 DEF HandlingInv
  <2>3. resp' = CASE result = "cancelled" -> 503 [] result = "precision" -> 400 [] OTHER -> 500
    BY <2>1 DEF handleValidationError
  <2>4. resp' \in {400, 500, 503} /\ resp' \in Answers(req)
    BY <1>2, <2>3, DocumentedAnswers
  <2>5. AnswerTellsEffect'
    BY <1>1, <1>2, <2>1, <2>4 DEF AnswerTellsEffect
  <2>6. ServerErrorsExplained'
    BY <1>1, <2>1, <2>2, <2>3 DEF ServerErrorsExplained, Unmapped
  <2>7. err' \in Errors
    BY <1>2, <2>1, <2>2 DEF Errors
  <2>8. HandlingInv'
    BY <1>1, <2>1, AnsweredHandling DEF HandlingInv
  <2> QED BY <1>1, <1>2, <2>1, <2>4, <2>5, <2>6, <2>7, <2>8 DEF ToldInv
<1>4. CASE stage = "done"
  <2>1. pc' \in {"store", "check"} /\ UNCHANGED <<err, resp>>
    BY <1>4 DEF Evaluated, GoTo
  <2>2. failed = FALSE
    BY <1>1, <1>2, <1>4 DEF HandlingInv
  <2>3. HandlingInv'
    BY <1>1, <1>2, <2>1, <2>2 DEF HandlingInv, Pcs
  <2> QED BY <2>1, <2>3 DEF ToldInv, AnswerTellsEffect, ServerErrorsExplained
<1> QED BY <1>1, <1>3, <1>4

LEMMA HandleCheckLimits == HandlingInv /\ CheckLimits => HandlingInv' /\ ToldInv'
<1> SUFFICES ASSUME HandlingInv, CheckLimits PROVE HandlingInv' /\ ToldInv'
  OBVIOUS
<1>1. /\ pc = "check" /\ pc' = "store" /\ read' \in {"STORED", None}
      /\ UNCHANGED <<req, taken, others, row, err, resp, effect, failed>>
  BY DEF CheckLimits, scene
<1>2. HandlingInv'
  BY <1>1 DEF HandlingInv, Pcs, Statuses
<1> QED BY <1>1, <1>2 DEF ToldInv, AnswerTellsEffect, ServerErrorsExplained

LEMMA HandleStore == HandlingInv /\ Store => HandlingInv' /\ ToldInv'
<1> SUFFICES ASSUME HandlingInv, Store PROVE HandlingInv' /\ ToldInv'
  OBVIOUS
<1>1. /\ pc = "store" /\ UNCHANGED <<req, taken, others, read, err, failed>>
      /\ failed = FALSE /\ read \in {"STORED", None} /\ None # "STORED"
      /\ read \in Statuses \cup {None}
  BY NoneAssumption DEF Store, scene, HandlingInv, Statuses
<1>2. pc' = "answered" /\ err' = None
  BY <1>1, ValidationRow DEF Store, Answer
<1>3. \/ row = "STORED" /\ read = "STORED" /\ resp' = 200 /\ row' = "STORED" /\ effect' = None
      \/ read = None /\ resp' = 201 /\ row' \in {"ABSENT", "STORED"} /\ effect' \in {None, "STORED"}
      \/ resp' = 201 /\ row' = "STORED" /\ effect' = "STORED"
  BY <1>1, ValidationRow DEF Store, Answer
<1>4. resp' \in {200, 201} /\ resp' \in Answers(req) /\ effect' \in Statuses \cup {None}
  BY <1>1, <1>3, ValidationRow, DocumentedAnswers DEF Statuses
<1>5. AnswerTellsEffect'
  BY <1>1, <1>3, ValidationRow DEF AnswerTellsEffect, StatusVerbs
<1>6. ToldInv'
  BY <1>1, <1>2, <1>4, <1>5, SuccessTold
<1>7. row' \in RowStatuses(req.kind)
  BY <1>1, <1>3, ValidationRow
<1> QED BY <1>1, <1>2, <1>6, <1>7, AnsweredHandling

\* What others do.
LEMMA HandleOthers ==
  HandlingInv /\ (OtherChangesRow \/ OtherTakesName \/ OtherCounts) => HandlingInv' /\ ToldInv'
<1> SUFFICES ASSUME HandlingInv, OtherChangesRow \/ OtherTakesName \/ OtherCounts
             PROVE  HandlingInv' /\ ToldInv'
  OBVIOUS
<1>1. /\ pc \notin {"arrived", "answered"} /\ others < MaxOthers /\ others' = others + 1
      /\ UNCHANGED <<req, pc, read, err, resp, effect, failed, stage, result>>
  BY DEF OtherChangesRow, OtherTakesName, OtherCounts, Other, handling, evaluation
<1>2. req \in Requests /\ row \in RowStatuses(req.kind) /\ taken \in BOOLEAN
      /\ others \in 0 .. MaxOthers
  BY DEF HandlingInv
<1>3. taken' \in BOOLEAN
  BY <1>2 DEF OtherChangesRow, OtherTakesName, OtherCounts
<1>4. row' \in RowStatuses(req.kind)
  <2>1. CASE row' = row
    BY <1>2, <2>1
  <2>2. CASE \E s \in Statuses : CanTransitionTo(row, s) /\ row' = s
    BY <1>2, <2>2 DEF CanTransitionTo, RowStatuses, Live
  <2>3. CASE req.verb = "validate" /\ row' = "STORED"
    BY <1>2, <2>3, KindsOfVerbs DEF RowStatuses
  <2> QED BY <2>1, <2>2, <2>3 DEF OtherChangesRow, OtherTakesName, OtherCounts
<1>5. others' \in 0 .. MaxOthers
  BY <1>1, <1>2, RequestsAssumption
<1>6. HandlingInv'
  BY <1>1, <1>3, <1>4, <1>5 DEF HandlingInv
<1> QED BY <1>1, <1>6 DEF ToldInv, AnswerTellsEffect, ServerErrorsExplained

LEMMA HandleCache == HandlingInv /\ OtherChangesCache => HandlingInv' /\ ToldInv'
<1> SUFFICES ASSUME HandlingInv, OtherChangesCache PROVE HandlingInv' /\ ToldInv'
  OBVIOUS
<1>1. /\ pc = "evaluate" /\ UNCHANGED <<req, taken, others, row, pc, read, err, resp, effect, failed>>
      /\ UNCHANGED <<stage, result>>
  BY DEF OtherChangesCache, ChangeCache, scene, handling
<1>2. HandlingInv'
  BY <1>1 DEF HandlingInv
<1> QED BY <1>1, <1>2 DEF ToldInv, AnswerTellsEffect, ServerErrorsExplained

LEMMA HandleStutter == HandlingInv /\ ToldInv /\ UNCHANGED vars => HandlingInv' /\ ToldInv'
<1> SUFFICES ASSUME HandlingInv, ToldInv, UNCHANGED vars PROVE HandlingInv' /\ ToldInv'
  OBVIOUS
<1>1. UNCHANGED <<req, taken, others, row, pc, read, err, resp, effect, failed, stage, result>>
  BY DEF vars, scene, handling, evaluation
<1>2. HandlingInv'
  BY <1>1 DEF HandlingInv
<1>3. AnswerTellsEffect' /\ ServerErrorsExplained'
  BY <1>1 DEF ToldInv, AnswerTellsEffect, ServerErrorsExplained
<1> QED BY <1>1, <1>2, <1>3 DEF ToldInv

LEMMA HandlingStep == HandlingInv /\ ToldInv /\ [Next]_vars => HandlingInv' /\ ToldInv'
<1> SUFFICES ASSUME HandlingInv, ToldInv, [Next]_vars PROVE HandlingInv' /\ ToldInv'
  OBVIOUS
<1>1. CASE RuleHandler
  BY <1>1, HandleCreate, HandleUpdate, HandleQuery, HandleStatus
     DEF RuleHandler, CreateRule, UpdateRule, GetRule, ActivateRule, DeactivateRule, DraftRule,
     DeleteRule, Endpoint, StatusVerbs
<1>2. CASE LimitHandler
  BY <1>2, HandleCreate, HandleUpdate, HandleQuery, HandleStatus, HandleUsage, HandleReadUsage
     DEF LimitHandler, CreateLimit, UpdateLimit, GetLimit, GetLimitUsage, ActivateLimit,
     DeactivateLimit, DraftLimit, DeleteLimit, Endpoint, StatusVerbs
<1>3. CASE QueryHandler
  BY <1>3, HandleQuery
     DEF QueryHandler, GetTransactionValidation, GetAuditEvent, VerifyHashChain, Endpoint
<1> QED BY <1>1, <1>2, <1>3, HandleReceive, HandleWrite, HandleFind, HandleEvaluateStep,
          HandleEvaluated, HandleCheckLimits, HandleStore, HandleFail, HandleCancelled,
          HandleOthers, HandleCache, HandleStutter DEF Next, Handle, Done

LEMMA HandlingHolds == Spec => [](HandlingInv /\ ToldInv)
BY HandlingInit, HandlingStep, PTL DEF Spec

\* The answer tells what was done, for any requests, rows and interference: a success was
\* written or found, a refusal wrote nothing, 404 is said of what is not there.
THEOREM AnswersHold == Spec => []AnswerTellsEffect
<1>1. ToldInv => AnswerTellsEffect
  BY DEF ToldInv
<1> QED BY <1>1, HandlingHolds, PTL

\* An answer 5xx is due to a failure or to one of the errors in the list Unmapped, and every
\* such error is answered 5xx: the list is exact.
THEOREM ServerErrorsHold == Spec => []ServerErrorsExplained
<1>1. ToldInv => ServerErrorsExplained
  BY DEF ToldInv
<1> QED BY <1>1, HandlingHolds, PTL
-----------------------------------------------------------------------------
(* The types.                                                              *)

LEMMA TypesLoad == EvalInv /\ EvaluationTypeOK /\ LoadRules => EvaluationTypeOK'
<1> SUFFICES ASSUME EvalInv, EvaluationTypeOK, LoadRules PROVE EvaluationTypeOK'
  OBVIOUS
<1>1. PICK ids \in Kept(InScope) : rules' = [r \in ids |-> cache[r]] /\ todo' = ids
  BY DEF LoadRules
<1>2. /\ total' = Cardinality(InScope) /\ seen' = cache /\ stage' = "each" /\ matched' = {}
      /\ UNCHANGED <<cache, changes>> /\ cache \in Caches /\ changes \in 0 .. MaxChanges
  BY DEF LoadRules, EvalInv, EvaluationTypeOK
<1>3. ids \subseteq InScope /\ InScope \in SUBSET Rules
  BY DEF Kept, InScope
<1>4. \A r \in ids : cache[r] \in RuleVersions
  BY <1>2, <1>3 DEF InScope, Caches
<1>5. Cardinality(InScope) \in 0 .. Cardinality(Rules)
  <2>1. /\ IsFiniteSet(InScope) /\ Cardinality(InScope) <= Cardinality(Rules)
        /\ IsFiniteSet(Rules)
    BY <1>3, FS_Subset, EvaluationAssumption
  <2>2. Cardinality(InScope) \in Nat /\ Cardinality(Rules) \in Nat
    BY <2>1, FS_CardinalityType
  <2> QED BY <2>1, <2>2
<1>6. /\ DOMAIN rules' = ids /\ ids \subseteq Rules
      /\ \A r \in ids : rules'[r] \in RuleVersions
  BY <1>1, <1>3, <1>4
<1> QED BY <1>1, <1>2, <1>5, <1>6 DEF EvaluationTypeOK, EvaluationStages

LEMMA TypesRule == EvaluationTypeOK /\ EvaluateRule => EvaluationTypeOK'
<1> SUFFICES ASSUME EvaluationTypeOK, EvaluateRule PROVE EvaluationTypeOK'
  OBVIOUS
<1>1. stage = "each" /\ UNCHANGED <<cache, changes, tx, rules, total, seen>>
  BY DEF EvaluateRule
<1>2. PICK r \in todo :
        /\ todo' = todo \ {r}
        /\ matched' = IF Evaluate(Loaded(r)) = "true" THEN matched \cup {r} ELSE matched
        /\ stage' = IF Evaluate(Loaded(r)) \in {"error", "precision"} THEN "error" ELSE stage
  BY DEF EvaluateRule
<1>3. todo' \subseteq DOMAIN rules' /\ matched' \subseteq DOMAIN rules' \ todo'
  BY <1>1, <1>2 DEF EvaluationTypeOK
<1>4. stage' \in {"each", "error"}
  BY <1>1, <1>2
<1> QED BY <1>1, <1>3, <1>4 DEF EvaluationTypeOK, EvaluationStages

LEMMA TypesDecide == EvaluationTypeOK /\ Decide => EvaluationTypeOK'
<1> SUFFICES ASSUME EvaluationTypeOK, Decide PROVE EvaluationTypeOK'
  OBVIOUS
<1>1. MakeDecision \in Decisions
  BY EvaluationAssumption DEF MakeDecision, Decisions
<1>2. /\ stage' = "done" /\ UNCHANGED <<cache, changes, rules, todo, matched, total, seen>>
      /\ result'.decision = MakeDecision /\ result'.total = total
      /\ result'.evaluated = DOMAIN rules
  BY DEF Decide
<1> QED BY <1>1, <1>2 DEF EvaluationTypeOK, EvaluationStages

LEMMA TypesChange == EvaluationTypeOK /\ ChangeCache => EvaluationTypeOK'
<1> SUFFICES ASSUME EvaluationTypeOK, ChangeCache PROVE EvaluationTypeOK'
  OBVIOUS
<1>1. cache' \in Caches
  BY DEF EvaluationTypeOK, ChangeCache, Caches
<1>2. changes' \in 0 .. MaxChanges
  BY EvaluationAssumption DEF EvaluationTypeOK, ChangeCache
<1>3. UNCHANGED <<tx, stage, rules, todo, matched, total, result, seen>> /\ stage # "done"
  BY DEF ChangeCache
<1> QED BY <1>1, <1>2, <1>3 DEF EvaluationTypeOK

LEMMA TypesInit == Init => EvaluationTypeOK
<1> SUFFICES ASSUME Init PROVE EvaluationTypeOK
  OBVIOUS
<1>1. cache \in Caches
  BY DEF Init, EvaluationInit, Caches
<1>2. /\ changes = 0 /\ stage = "idle" /\ rules = NoRules /\ todo = {} /\ matched = {}
      /\ total = 0 /\ seen = cache
  BY DEF Init, EvaluationInit
<1>3. DOMAIN NoRules = {}
  BY DEF NoRules
<1>4. Cardinality(Rules) \in Nat /\ MaxChanges \in Nat
  BY FS_CardinalityType, EvaluationAssumption
<1> QED BY <1>1, <1>2, <1>3, <1>4 DEF EvaluationTypeOK, EvaluationStages

LEMMA TypesStep == EvalInv /\ EvaluationTypeOK /\ [Next]_vars => EvaluationTypeOK'
<1> SUFFICES ASSUME EvalInv, EvaluationTypeOK, [Next]_vars PROVE EvaluationTypeOK'
  OBVIOUS
<1>1. CASE UNCHANGED evaluation
  BY <1>1 DEF evaluation, EvaluationTypeOK
<1>2. CASE \E t : BeginEvaluation(t)
  BY <1>2 DEF BeginEvaluation, EvaluationTypeOK, EvaluationStages
<1>3. CASE CancelEvaluation
  BY <1>3 DEF CancelEvaluation, EvaluationTypeOK, EvaluationStages
<1> QED BY <1>1, <1>2, <1>3, TypesLoad, TypesRule, TypesDecide, TypesChange, EvaluationMoves
-----------------------------------------------------------------------------
(* The usage that is reported.                                             *)

\* What the counters of the current period held is still counted, and what was reported
\* is not below it.
UsageInv ==
  /\ counters \in [CounterKeys -> Nat] /\ before \in [CounterKeys -> Nat]
  /\ \A k \in CurrentKeys : before[k] <= counters[k]
  /\ UsageNeverUnderstated

LEMMA UsageInit == Init => UsageInv
<1> SUFFICES ASSUME Init PROVE UsageInv
  OBVIOUS
<1>1. counters \in [CounterKeys -> Nat] /\ before = counters /\ snapshot = None
  BY RequestsAssumption DEF Init
<1>2. \A k \in CurrentKeys : before[k] <= counters[k]
  BY <1>1, RequestsAssumption
<1> QED BY <1>1, <1>2 DEF UsageInv, UsageNeverUnderstated

\* The sum over all counters of the limit covers that over the current ones.
LEMMA UsageRead == UsageInv /\ ReadUsage => UsageInv'
<1> SUFFICES ASSUME UsageInv, ReadUsage PROVE UsageInv'
  OBVIOUS
<1>1. UNCHANGED <<counters, before>> /\ snapshot' = NewUsageSnapshot
  BY DEF ReadUsage, scene
<1> DEFINE spent == SumFunctionOnSet(before, CurrentKeys)
           usage == SumFunctionOnSet(counters, CounterKeys)
<1>2. /\ IsFiniteSet(CounterKeys) /\ CurrentKeys \in SUBSET CounterKeys
      /\ \A k \in CurrentKeys : before[k] \in Nat /\ before[k] <= counters[k]
      /\ \A k \in CounterKeys : counters[k] \in Nat
  BY RequestsAssumption DEF UsageInv
<1>3. spent <= usage /\ usage \in Nat
  BY <1>2, SumMonotone, SumNat
<1>4. spent \in Nat
  <2>1. IsFiniteSet(CurrentKeys)
    BY <1>2, FS_Subset
  <2> QED BY <1>2, <2>1, SumNat
<1>5. SumFunction(counters) = usage
  <2>1. DOMAIN counters = CounterKeys
    BY DEF UsageInv
  <2> QED BY <2>1 DEF SumFunction
<1> HIDE DEF spent, usage
<1>6. snapshot' = [currentUsage |-> usage, nearLimit |-> usage * 100 > 80 * MaxAmount]
  BY <1>1, <1>5 DEF NewUsageSnapshot
<1>7. snapshot'.currentUsage >= spent
  BY <1>3, <1>4, <1>6
<1>8. ASSUME spent * 100 > 80 * MaxAmount PROVE snapshot'.nearLimit
  <2>1. usage * 100 > 80 * MaxAmount
    BY <1>3, <1>4, <1>8, RequestsAssumption
  <2> QED BY <1>6, <2>1
<1>9. UsageNeverUnderstated'
  BY <1>1, <1>7, <1>8 DEF UsageNeverUnderstated, spent
<1> QED BY <1>1, <1>9 DEF UsageInv

LEMMA UsageStep == UsageInv /\ [Next]_vars => UsageInv'
<1> SUFFICES ASSUME UsageInv, [Next]_vars PROVE UsageInv'
  OBVIOUS
<1>1. CASE UNCHANGED <<counters, before, snapshot>>
  BY <1>1 DEF UsageInv, UsageNeverUnderstated
<1>2. CASE OtherCounts
  <2>1. pc # "answered" /\ UNCHANGED <<before, snapshot>>
    BY <1>2 DEF OtherCounts, Other, handling
  <2>2. PICK k \in CounterKeys :
          counters' = [counters EXCEPT ![k] = IF k \in CurrentKeys THEN @ + 1 ELSE 0]
    BY <1>2 DEF OtherCounts
  <2>3. counters' \in [CounterKeys -> Nat] /\ \A j \in CurrentKeys : before[j] <= counters'[j]
    BY <2>2, RequestsAssumption DEF UsageInv
  <2> QED BY <2>1, <2>3 DEF UsageInv, UsageNeverUnderstated
<1>3. CASE ~OtherCounts /\ ~ReadUsage
  <2>1. UNCHANGED <<counters, before, snapshot>>
    BY <1>3 DEF Next, Handle, vars, scene, handling, Receive, RuleHandler, LimitHandler,
       QueryHandler, CreateRule, UpdateRule, GetRule, ActivateRule, DeactivateRule, DraftRule,
       DeleteRule, CreateLimit, UpdateLimit, GetLimit, GetLimitUsage, ActivateLimit,
       DeactivateLimit, DraftLimit, DeleteLimit, GetTransactionValidation, GetAuditEvent,
       VerifyHashChain, Construct, Fetch, Write, FindByRequestID, EvaluateStep, Evaluated,
       CheckLimits, Store, Fail, EvaluationCancelled, OtherChangesRow, OtherTakesName, Other,
       OtherChangesCache, Done
  <2> QED BY <1>1, <2>1
<1> QED BY <1>2, <1>3, UsageRead

LEMMA UsageHolds == Spec => []UsageInv
BY UsageInit, UsageStep, PTL DEF Spec

\* GetLimitUsage never shows less than what the current period held over all scopes when the
\* request arrived, and shows the limit to be near when it was, for any number of counters,
\* whatever validations and the clean-up do meanwhile.
THEOREM UsageNeverLess == Spec => []UsageNeverUnderstated
<1>1. UsageInv => UsageNeverUnderstated
  BY DEF UsageInv
<1> QED BY <1>1, UsageHolds, PTL

\* Every answer is one that the comments of the handlers list, and every variable has its type.
THEOREM TypeCorrect == Spec => []TypeOK
<1>1. Spec => []EvaluationTypeOK
  BY TypesInit, TypesStep, EvalHolds, PTL DEF Spec
<1>2. EvaluationTypeOK /\ HandlingInv /\ ToldInv /\ UsageInv => TypeOK
  BY DEF TypeOK, HandlingInv, ToldInv, UsageInv
<1> QED BY <1>1, <1>2, HandlingHolds, UsageHolds, PTL
=============================================================================
