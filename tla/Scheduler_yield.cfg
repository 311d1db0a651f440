SPECIFICATION Spec
CONSTANTS
  tidle = tidle
  tmain = tmain
  tpeer = tpeer
  thigh = thigh
  Thread <- Three
  Idle = tidle
  PRIORITY_MAX = 3
  Queue = {}
  Defunct = Defunct
  InitPrio <- PrioOf
  InitTick <- TickOf
  May <- MayLife
  Static = {}
  Cleanup = {}
  Timeout = {1}
  MaxNest = 0
PROPERTY YieldGivesUp
