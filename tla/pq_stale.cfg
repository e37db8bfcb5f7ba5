CONSTANTS
  c1 = c1
  c2 = c2
  c3 = c3
  Clients = {c1, c2}
  NumQueues = 1
  Capacity = 2
  PoolSize = 3
  BatchSize = 2
  Ops = {"sync"}
  QueueOf <- OneRing
  TimesOut = TRUE
  NoSlot = NoSlot
SPECIFICATION Spec
INVARIANT SyncSuccessMeansServed
