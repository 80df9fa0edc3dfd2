SPECIFICATION FairSpec
CONSTANTS
  Main = Main
  Idle = Idle
  InitProc = InitProc
  p1 = p1
  NULL = NULL
  MaxRepeat = 2
  Thread <- MCThread
  Priority <- MCPriority
INVARIANTS
  TypeOK
  MutualExclusion
  SyncInv
  NoLostWakeup
PROPERTIES
  LockLive
