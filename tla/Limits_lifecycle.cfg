SPECIFICATION FairSpec
CONSTANTS
  l1 = l1  l2 = l2  c1 = c1  c2 = c2  h1 = h1  h2 = h2
  Limits <- McLimits
  Names = {"a", "b", "c"}
  Tables <- McTables
  Custom = {l1}
  Commands = {c1, c2}
  RequestsOf <- McRequestsOf
  Charges <- McCharges
  ChargeOf <- McChargeOf
  Amount <- McAmount
  Period = 3
  Retention = 2
  Lag = 1
  BatchSize = 1
  MaxTime = 4
  None = None
INVARIANTS AuditedWasApplied
PROPERTIES OpenPeriodKept ExpiredIsRemoved ImplementsLedger
CHECK_DEADLOCK FALSE
