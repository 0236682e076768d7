SPECIFICATION Spec
CONSTANTS
  e1 = e1
  e2 = e2
  t1 = t1
  t2 = t2
  t3 = t3
  b1 = b1
  b2 = b2
  None = None
  Events = {e1, e2}
  Tasks = {t1}
  Buses = {b1}
  BusOf <- MCBusOfOne
  CacheMax = 1
  Retries = 2
  Faults = {{"server"}}
  MaxCalls = 3
INVARIANTS AckedIsDelivered
CHECK_DEADLOCK FALSE
