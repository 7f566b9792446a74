SPECIFICATION FairSpec
CONSTANTS
  a = a  b = b
  Instances = {a, b}
  Configs <- McConfigs
  Files <- McFiles
  FailureThresh = 2
  OpenTimeout = 2
  CacheStalenessThreshold = 2
  MaxOutage = 6
  MaxSteady = 5
  None = None  Garbage = Garbage  Invalid = Invalid
INVARIANTS StartsWhole MigratedOnce LoadBounded RecoversInTime SilentOutageReported
PROPERTIES EveryStartEnds
