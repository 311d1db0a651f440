SPECIFICATION MtxSpec
CONSTANTS
  tidle = tidle
  tlow = tlow
  tmid = tmid
  thigh = thigh
  ma = ma
  mb = mb
  Thread <- Three
  Idle = tidle
  PRIORITY_MAX = 4
  Queue = {ma, mb}
  Defunct = Defunct
  InitPrio <- PrioOf
  InitTick <- TickOf
  May <- MaySleep
  Static = {}
  Cleanup = {}
  Timeout = {1}
  MaxNest = 0
  Flag <- Priority
  DetachTimed = FALSE
  WaitTime <- WaitAny
  Uses <- UsesNested
  Mtx = {ma, mb}
  Nobody = Nobody
  MaxHold = 1
INVARIANT BoostEnds
