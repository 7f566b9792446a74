SPECIFICATION Spec
CONSTANTS
  h1 = h1  h2 = h2  h3 = h3  r1 = r1  r2 = r2
  Attempts <- McAttempts2
  Requests <- McRequests
  Limits = {1, 2}
  Times = {1, 2}
  Req <- McReqOther
  Amount <- McAmount
  Matches <- McMatches
  PerTransaction = {2}
  Window <- McWindow
  Buckets = {"b", "c"}
  Bucket <- McPeriods
  RuleDecisions = {"ALLOW", "DENY", "REVIEW"}
  Managed = {1}
  MaxAmounts <- McChangingMax
  Faults = FALSE
  None = None
INVARIANTS CountersReconcile
PROPERTIES ImplementsLedger
CHECK_DEADLOCK FALSE
