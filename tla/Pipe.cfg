SPECIFICATION FairSpec
CONSTANTS
  Main = Main
  Idle = Idle
  InitProc = InitProc
  p1 = p1
  p2 = p2
  NULL = NULL
  Thread <- MCThread
  Priority <- MCPriority
  BufSize = 3
  MaxCount = 3
  Zero = "a"
  Char = {"a", "b"}
  Keyboard = FALSE
  Reader <- One
  Writer <- Other
INVARIANTS
  TypeOK
  SleepsWithReason
  PipeReadNeverBlocks
PROPERTIES
  SleepersWoken
  ImplementsByteQueue
