SPECIFICATION Spec
CONSTANTS
  Rules = {1, 2, 3}
  RuleVersions <- McVersions
  Transactions <- McTransactions
  Trimmed <- McTrimmed
  MaxRulesPerRequest = 2
  DefaultDecision = "DENY"
  MaxChanges = 1
  LimitScopes <- McLimitScopes
  Windows <- McWindows
  Minutes <- McEdges
  None = None
  Requests <- McRequests
  Rows <- McRows
  CounterKeys = {"past", "now", "elsewhere"}
  CurrentKeys = {"now", "elsewhere"}
  MaxUsage = 3
  MaxAmount = 5
  MaxOthers = 2
INVARIANTS
  TypeOK AnswerTellsEffect ServerErrorsExplained UsageNeverUnderstated
  DecisionByPrecedence FailsClosed TruncationTold
  LimitScopeAgrees CountersNotFragmented WindowIsCyclic
