SPECIFICATION ObjectsSpec
CONSTANTS
  tidle = tidle
  tlow = tlow
  thigh = thigh
  ev = ev
  rq = rq
  sq = sq
  mp = mp
  cm = cm
  ws = ws
  Apps = {"event", "mailbox", "queue", "pool", "completion", "work"}
  Thread <- Three
  Idle = tidle
  PRIORITY_MAX = 3
  Queue = {ev, rq, sq, mp, cm, ws}
  Defunct = Defunct
  InitPrio <- PrioOf
  InitTick <- TickOf
  May <- MaySleep
  Static = {}
  Cleanup = {}
  Timeout = {1}
  MaxNest = 0
  Flag <- Fifo
  DetachTimed = FALSE
  WaitTime <- WaitAny
  Uses <- UsesAll
  Ev = ev
  Bit = {1, 2}
  Request <- Requests
  Receivers = rq
  Senders = sq
  Mail = {m1, m2}
  NoMail = NoMail
  MailboxSize = 2
  Msg = {m1, m2}
  NoMsg = NoMsg
  MaxMsgs = 2
  Pool = mp
  NumBlocks = 2
  Comp = cm
  WorkThread = thigh
  WorkSem = ws
  Work = {w1, w2}
  NoWork = NoWork
SYMMETRY Symm
INVARIANTS EventNotMissed TimesOutOnTime MailNotMissed SlotsConserved MessageNotMissed
  BlocksConserved BlockNotMissed DoneIsNotReused WorkNotForgotten
PROPERTIES EventsClearedOnce MailboxIsChannel QueueIsChannel
