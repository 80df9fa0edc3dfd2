SPECIFICATION FairSpec
CONSTANTS
  Main = Main
  Idle = Idle
  InitProc = InitProc
  p1 = p1
  p2 = p2
  p3 = p3
  p4 = p4
  Thread <- SmallThread
  Priority <- SmallPriority
  PidCount = 5
  PathLen = {5}
  NameBound = 10
CHECK_DEADLOCK FALSE
PROPERTIES
  WaitReturns
