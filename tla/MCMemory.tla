------------------------------ MODULE MCMemory ------------------------------
(***************************************************************************)
(* Two processes with five pages each below the stack, two to a page table *)
(* of which the first is that of the buffers; blocks of two sizes, three   *)
(* and two to an arena; large memory of two pages; programs of one page    *)
(* and of two, beside the buffers and in a page table of their own.        *)
(***************************************************************************)
EXTENDS Memory
CONSTANTS p1, p2
MCBlockSize == <<2, 3>>
MCSegment == {<<1, 1>>, <<2, 1>>, <<2, 2>>}
=============================================================================
