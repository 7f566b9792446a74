SPECIFICATION FairSpec
CONSTANTS
  p = p  q = q  c1 = c1  c2 = c2  c3 = c3  c4 = c4  c5 = c5
  Rules = {p}
  Commands <- McCommandsRace
  Op <- McOpRace
  Target <- McTargetRace
  Local = {c1, c3}
  Overlap = 2
  Lag = 3
  Cycle = 1
  MaxTime = 3
  MaxRestarts = 1
  None = None
INVARIANTS CacheWasCommitted
PROPERTIES DeletedIsFinal
CHECK_DEADLOCK FALSE
