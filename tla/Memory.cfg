SPECIFICATION Spec
CONSTANTS
  p1 = p1
  p2 = p2
  NULL = NULL
  Proc = {p1, p2}
  First = p1
  Stack = 5
  PerTable = 2
  Frames = 4
  ByteBits = 2
  BlockSize <- MCBlockSize
  PageSize = 7
  Header = 1
  Size = {2, 3, 8}
  Buffer = {2, 3}
  MaxLive = 2
  Segment <- MCSegment
CHECK_DEADLOCK FALSE
INVARIANTS
  MemoryInv
  ScanExact
PROPERTIES
  LiveKept
