SPECIFICATION FairSpec
CONSTANTS
  t1 = t1
  t2 = t2
  t3 = t3
  p1 = p1
  p2 = p2
  Nobody = Nobody
  Tasks = {t1, t2, t3}
  Processes = {p1, p2}
  Uses <- MCUses
  MaxRetries = 2
  MaxCalls = 3
INVARIANTS NoLostUpdate CacheWasCommitted LocksHaveOwners
PROPERTIES VersionsNeverFall CallsReturn
CHECK_DEADLOCK FALSE
