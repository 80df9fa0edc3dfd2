------------------------------ MODULE ByteQueue ------------------------------
(***************************************************************************)
(* What an ioqueue promises whoever uses it: a bounded first-in first-out  *)
(* channel of bytes.                                                       *)
(***************************************************************************)
EXTENDS Naturals, Sequences
CONSTANTS Char, Capacity
VARIABLES
    q,          \* the bytes in the channel, the oldest first
    got         \* the byte the last read returned

QInit == q = <<>> /\ got \in Char

Put(c) == Len(q) < Capacity /\ q' = Append(q, c) /\ UNCHANGED got

Get == q # <<>> /\ got' = Head(q) /\ q' = Tail(q)

QNext == Get \/ \E c \in Char : Put(c)

QSpec == QInit /\ [][QNext]_<<q, got>>
==============================================================================
