SPECIFICATION Spec
CONSTANTS
  tidle = tidle
  tmain = tmain
  tpeer = tpeer
  thigh = thigh
  Thread <- Three
  Idle = tidle
  PRIORITY_MAX = 3
  Queue = {}
  Defunct = Defunct
  InitPrio <- PrioOf
  InitTick <- TickOf
  May <- MayDeleteSleeper
  Static = {}
  Cleanup = {}
  Timeout = {1}
  MaxNest = 0
INVARIANT ClosedOffReadyQueue
