SPECIFICATION FairSpec
CONSTANTS
  h1 = h1  h2 = h2  h3 = h3  r1 = r1  r2 = r2
  Attempts <- McAttempts3
  Requests <- McRequests
  Limits = {1, 2}
  Times = {1}
  Req <- McReqMixed
  Amount <- McAmount
  Matches <- McMatches
  PerTransaction = {}
  Window <- McAlways
  Buckets = {"b"}
  Bucket <- McOneBucket
  RuleDecisions = {"ALLOW", "DENY", "REVIEW"}
  Managed = {}
  MaxAmounts <- McFixedMax
  Faults = TRUE
  None = None
INVARIANTS UsageWithinCeiling DuplicateRepeatsRecord CountersReconcile AllowIsBacked AllowTrailAtomic
PROPERTIES ImplementsLedger EveryCallEnds
CHECK_DEADLOCK FALSE
