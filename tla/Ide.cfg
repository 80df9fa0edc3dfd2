SPECIFICATION FairSpec
CONSTANTS
  Main = Main
  Idle = Idle
  InitProc = InitProc
  p1 = p1
  Thread <- MCThread
  Priority <- MCPriority
  User <- MCUser
  MaxCmds = 2
INVARIANTS
  IdeInv
  CommandWhenIdle
  DiskWillWake
PROPERTIES
  OwnerFinishes
CHECK_DEADLOCK FALSE
