-------------------------------- MODULE Lists --------------------------------
(***************************************************************************)
(* The linked lists of lib/kern/list.c as sequences.  A tag is linked into *)
(* a list by its two pointers, so it must not be in a list twice.          *)
(***************************************************************************)
EXTENDS Naturals, Sequences

\* elem_find
Find(list, t) == \E i \in 1..Len(list) : list[i] = t

\* What list_append and list_push rely on: a tag is in the list once.
NoDup(list) == \A i, j \in 1..Len(list) : list[i] = list[j] => i = j

\* Where an element that is in the list stands in it.
Position(list, t) == CHOOSE i \in 1..Len(list) : list[i] = t

\* list_remove of an element that is in the list
Remove(list, t) ==
    [i \in 1..Len(list) - 1 |-> list[IF i < Position(list, t) THEN i ELSE i + 1]]

\* list_push
Push(list, t) == <<t>> \o list

\* list_traversal whose callback returns 1 for the members of S: the first of them
Traversal(list, S) ==
    list[CHOOSE i \in 1..Len(list) :
            list[i] \in S /\ \A j \in 1..Len(list) : list[j] \in S => i <= j]
==============================================================================
