------------------------------ MODULE MCThreads ------------------------------
(***************************************************************************)
(* Main, idle, init and two more processes.  The slice of main outlives a  *)
(* tick, the others do not.                                                *)
(***************************************************************************)
EXTENDS Threads
CONSTANTS p1, p2
MCThread == {Main, Idle, InitProc, p1, p2}
MCPriority == [t \in MCThread |-> IF t = Main THEN 1 ELSE 0]
==============================================================================
