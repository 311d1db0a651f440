SPECIFICATION SemSpec
CONSTANTS
  tidle = tidle
  tlow = tlow
  tpeer = tpeer
  thigh = thigh
  sem = sem
  Thread <- Four
  Idle = tidle
  PRIORITY_MAX = 3
  Queue = {sem}
  Defunct = Defunct
  InitPrio <- PrioOf
  InitTick <- TickOf
  May <- MaySleep
  Static = {}
  Cleanup = {}
  Timeout = {1}
  MaxNest = 0
  Flag <- Priority
  DetachTimed = FALSE
  WaitTime <- WaitAny
  Uses <- UsesAll
  Sem = sem
  InitValue = {0, 1}
  MaxValue = 2
INVARIANT NoLostWakeup
PROPERTIES PermitsAreReleased WakesHighest ImplementsSemaphore
