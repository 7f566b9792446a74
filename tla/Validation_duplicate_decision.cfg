SPECIFICATION Spec
CONSTANTS
  h1 = h1  h2 = h2  h3 = h3  r1 = r1  r2 = r2
  Attempts <- McAttempts2
  Requests <- McRequests
  Limits = {1}
  Times = {1}
  Req <- McReqSame
  Amount <- McAmount3
  Matches <- McMatches
  PerTransaction = {}
  Window <- McAlways
  Buckets = {"b"}
  Bucket <- McOneBucket
  RuleDecisions = {"ALLOW"}
  Managed = {}
  MaxAmounts <- McFixedMax
  Faults = FALSE
  None = None
INVARIANT OneDecisionPerRequest
CHECK_DEADLOCK FALSE
