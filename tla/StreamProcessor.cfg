SPECIFICATION FairSpec
CONSTANTS
  N = 3
  Deployments <- MCDeployments
  QueueLimit = 2
  MemoryMax = 2
INVARIANTS TypeOK EveryEventAccounted InOrder RememberedWasHandled ProcessedOnce
PROPERTIES QueueDrains
CHECK_DEADLOCK FALSE
