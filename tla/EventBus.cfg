SPECIFICATION FairSpec
CONSTANTS
  e1 = e1
  e2 = e2
  t1 = t1
  t2 = t2
  t3 = t3
  b1 = b1
  b2 = b2
  None = None
  Events = {e1, e2}
  Tasks = {t1, t2, t3}
  Buses = {b1, b2}
  BusOf <- MCBusOf
  CacheMax = 1
  Retries = 2
  Faults = {{}, {"server", "cancel", "crash"}}
  MaxCalls = 3
INVARIANTS DeliveryBounds RememberedIsStored ExactlyOnceDelivery
PROPERTIES NothingAfterCompletion ImplementsTopic PublishReturns
CHECK_DEADLOCK FALSE
