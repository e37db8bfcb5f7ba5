CONSTANTS
  c1 = c1
  c2 = c2
  c3 = c3
  Clients = {c1, c2}
  NumQueues = 1
  Capacity = 2
  PoolSize = 3
  BatchSize = 2
  Ops = {"async", "batch"}
  QueueOf <- OneRing
  TimesOut = FALSE
  NoSlot = NoSlot
SPECIFICATION Spec
INVARIANT AsyncIsFreed
