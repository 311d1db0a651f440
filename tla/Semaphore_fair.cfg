SPECIFICATION SemFairSpec
CONSTANTS
  tidle = tidle
  tlow = tlow
  tpeer = tpeer
  thigh = thigh
  sem = sem
  Thread <- Three
  Idle = tidle
  PRIORITY_MAX = 3
  Queue = {sem}
  Defunct = Defunct
  InitPrio <- PrioOf
  InitTick <- TickOf
  May <- MaySleep
  Static = {}
  Cleanup = {}
  Timeout = {2}
  MaxNest = 0
  Flag <- Fifo
  DetachTimed = FALSE
  WaitTime <- WaitForever
  Uses <- UsesTake
  Sem = sem
  InitValue = {0}
  MaxValue = 1
INVARIANT NobodyLeftBehind
PROPERTIES SleepEnds RoundRobin WaiterIsServed
