SPECIFICATION Spec
CONSTANTS
  Main = Main
  Idle = Idle
  InitProc = InitProc
  p1 = p1
  p2 = p2
  NULL = NULL
  Thread <- MCThread
  Priority <- MCPriority
  BufSize = 3
  MaxCount = 3
  Zero = "a"
  Char = {"a", "b"}
  Keyboard = TRUE
  Reader <- Two
  Writer <- Nobody
INVARIANTS
  NoAssertFails
  SleepersRecorded
  NoLostWakeup
