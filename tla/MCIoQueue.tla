------------------------------ MODULE MCIoQueue ------------------------------
(***************************************************************************)
(* Main, idle, init and one or two forked processes on a ring of three     *)
(* slots, which holds two bytes; every tick ends a time slice.             *)
(***************************************************************************)
EXTENDS IoQueue
CONSTANTS p1, p2
MCThread == {Main, Idle, InitProc, p1, p2}
MCPriority == [t \in MCThread |-> 0]
One == {p1}
Other == {p2}
Two == {p1, p2}
Nobody == {}
==============================================================================
