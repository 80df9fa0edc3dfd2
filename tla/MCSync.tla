------------------------------- MODULE MCSync --------------------------------
(***************************************************************************)
(* Main, idle, init and one process that is forked; every tick ends a time *)
(* slice.                                                                  *)
(***************************************************************************)
EXTENDS Sync
CONSTANT p1
MCThread == {Main, Idle, InitProc, p1}
MCPriority == [t \in MCThread |-> 0]
==============================================================================
