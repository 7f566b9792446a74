SPECIFICATION FairSpec
CONSTANTS
  p = p  q = q  c1 = c1  c2 = c2  c3 = c3  c4 = c4  c5 = c5
  Rules <- McRules
  Commands <- McCommandsLate
  Op <- McOpLate
  Target <- McTargetLate
  Local = {c1, c3}
  Overlap = 3
  Lag = 1
  Cycle = 1
  MaxTime = 5
  MaxRestarts = 0
  None = None
INVARIANTS StaleIsInReach
PROPERTIES PollRepairs CacheConverges
CHECK_DEADLOCK FALSE
