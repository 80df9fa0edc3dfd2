------------------------------ MODULE MCProcess ------------------------------
(***************************************************************************)
(* Main, idle, init, the process it forks and its offspring; every tick    *)
(* ends a time slice.                                                      *)
(***************************************************************************)
EXTENDS Process, TLC
CONSTANTS p1, p2, p3, p4
MCThread == {Main, Idle, InitProc, p1, p2, p3, p4}
SmallThread == {Main, Idle, InitProc, p1, p2}
MCPriority == [t \in MCThread |-> 0]
SmallPriority == [t \in SmallThread |-> 0]
\* PCB pages are alike.
Pages == Permutations({p1, p2, p3, p4})
==============================================================================
