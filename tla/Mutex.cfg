SPECIFICATION MtxSpec
CONSTANTS
  tidle = tidle
  tlow = tlow
  tmid = tmid
  thigh = thigh
  ma = ma
  mb = mb
  Thread <- Four
  Idle = tidle
  PRIORITY_MAX = 4
  Queue = {ma}
  Defunct = Defunct
  InitPrio <- PrioOf
  InitTick <- TickOf
  May <- MaySleep
  Static = {}
  Cleanup = {}
  Timeout = {1}
  MaxNest = 0
  Flag <- Priority
  DetachTimed = FALSE
  WaitTime <- WaitAny
  Uses <- UsesAll
  Mtx = {ma}
  Nobody = Nobody
  MaxHold = 2
INVARIANTS OwnerIsAlone OwnerInherits BoostEnds
