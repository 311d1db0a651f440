SPECIFICATION ServicesSpec
CONSTANTS
  h1 = h1
  s1 = s1
  s2 = s2
  Services = {"timer"}
  Hard = {h1}
  Soft = {s1, s2}
  ThreadTimer = tt
  TickMax = 9
  Delay = {1, 2}
  MaxLate = 1
  Ops <- StartsSoft
  Time <- Times
  Periodic = {h1, s2}
  Task = {t1, t2}
  MemSize = 21
  HeaderSize = 3
  MinSize = 3
  Sizes = {1, 4, 9}
  BufferSize = 4
  Byte = {0, 1}
  Chunk <- Chunks
INVARIANT SuspendsWithoutTimer
