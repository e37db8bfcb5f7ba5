CONSTANTS
  c1 = c1
  c2 = c2
  c3 = c3
  Clients = {c1, c2, c3}
  NumQueues = 2
  Capacity = 2
  PoolSize = 3
  BatchSize = 2
  Ops = {"sync"}
  QueueOf <- LastRing
  TimesOut = FALSE
  NoSlot = NoSlot
SPECIFICATION FairSpec
INVARIANTS
  NoStaleReference
  SyncSuccessMeansServed
  HandlerHasContext
PROPERTIES
  CallReturns
