SPECIFICATION FairSpec
CONSTANTS
  w1 = w1  w2 = w2  w3 = w3  w4 = w4
  validation1 = validation1  validation2 = validation2  rule1 = rule1
  None = None
  Writers <- McWriters
  Resources <- McResources
  Resource <- McResource
  Validating <- McValidating
INVARIANTS FirstInvalidIsLate
PROPERTIES EveryInsertEnds ImplementsChain
CHECK_DEADLOCK FALSE
