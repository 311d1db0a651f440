SPECIFICATION Spec
CONSTANTS
  tidle = tidle
  tmain = tmain
  tpeer = tpeer
  thigh = thigh
  Thread <- Four
  Idle = tidle
  PRIORITY_MAX = 3
  Queue = {}
  Defunct = Defunct
  InitPrio <- PrioOf
  InitTick <- TickOf
  May <- MayLife
  Static = {tpeer}
  Cleanup = {tpeer}
  Timeout = {0, 2}
  MaxNest = 2
INVARIANTS TypeOK ReadyQueueConsistent ThreadStates HighestRuns HeldThreads
PROPERTY LockHolds
