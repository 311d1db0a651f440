SPECIFICATION Spec
CONSTANTS
  tidle = tidle
  tmain = tmain
  tpeer = tpeer
  thigh = thigh
  Thread <- Four
  Idle = tidle
  PRIORITY_MAX = 3
  Queue = {}
  Defunct = Defunct
  InitPrio <- PrioOf
  InitTick <- TickOf
  May <- MayManage
  Static = {thigh}
  Cleanup = {}
  Timeout = {1}
  MaxNest = 0
INVARIANTS ReadyQueueConsistent ResumesSuspended
PROPERTY ClosedStaysClosed
