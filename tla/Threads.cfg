SPECIFICATION TFairSpec
CONSTANTS
  Main = Main
  Idle = Idle
  InitProc = InitProc
  p1 = p1
  p2 = p2
  Thread <- MCThread
  Priority <- MCPriority
INVARIANTS
  TTypeOK
  SchedInv
PROPERTIES
  NoOvertaking
  StarvedOnlyByWakeups
  AbstractScheduler
