SPECIFICATION Spec
CONSTANTS
  Main = Main
  Idle = Idle
  InitProc = InitProc
  p1 = p1
  p2 = p2
  p3 = p3
  p4 = p4
  Thread <- MCThread
  Priority <- MCPriority
  PidCount = 6
  PathLen = {14}
  NameBound = 15
SYMMETRY Pages
CHECK_DEADLOCK FALSE
INVARIANTS
  ProcessInv
  KnownStops
