CONSTANTS
  c1 = c1
  c2 = c2
  Clients = {c1, c2}
  NumQueues = 2
  RingSize = 4
  PoolSize = 4
  Ops = {"async", "sync"}
  Answers = {"marks", "silent"}
  CanStop = TRUE
  CounterMod = 8
  NoSlot = NoSlot
  NoQueue = NoQueue
SPECIFICATION MCSpec
INVARIANTS
  TypeOK
  PoolAgrees
  PendingAgreesUnderLoad
PROPERTIES
  ImplementsFifo
  WaitsOnlyForBusyRings
  StopWakesWaiters
CHECK_DEADLOCK FALSE
