-------------------------------- MODULE MCIde --------------------------------
(***************************************************************************)
(* Main while it initialises the file system, and a process; every tick    *)
(* ends a time slice.                                                      *)
(***************************************************************************)
EXTENDS Ide
CONSTANT p1
MCThread == {Main, Idle, InitProc, p1}
MCPriority == [t \in MCThread |-> 0]
MCUser == {Main, p1}
==============================================================================
