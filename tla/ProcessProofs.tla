---------------------------- MODULE ProcessProofs ----------------------------
(***************************************************************************)
(* fork, execv, exit and wait keep the list of processes, the PIDs and the *)
(* parents consistent for any number of PCB pages, any size of the PID     *)
(* pool and any paths, and the kernel stops only where it is known to.     *)
(***************************************************************************)
EXTENDS Process, ThreadsProofs, WellFoundedInduction

(***************************************************************************)
(* What the operations on lists do to membership and order, for lists of   *)
(* any length                                                              *)
(***************************************************************************)
\* The first of a set of indices, which bitmap_scan and list_traversal find
LEMMA Least ==
    ASSUME NEW S \in SUBSET Nat, S # {}
    PROVE  \E m \in S : \A k \in S : m <= k
<1> DEFINE R == OpToRel(<, Nat)
<1>1. IsWellFoundedOn(R, Nat)
  BY NatLessThanWellFounded
<1>2. ASSUME NEW x \in Nat, NEW y \in Nat, x < y PROVE <<x, y>> \in R
  BY <1>2 DEF OpToRel
<1> HIDE DEF R
<1>3. S \subseteq Nat
  OBVIOUS
<1>4. \E x \in S : \A y \in S : ~(<<y, x>> \in R)
  BY <1>1, <1>3, WFMin
<1>5. PICK x \in S : \A y \in S : ~(<<y, x>> \in R)
  BY <1>4
<1>6. \A k \in S : ~(k < x)
  BY <1>2, <1>3, <1>5
<1>7. \A k \in S : x <= k
  BY <1>3, <1>6
<1>. QED  BY <1>7

\* list_remove
LEMMA RemoveFacts ==
    ASSUME NEW S, NEW list \in Seq(S), NEW t, Find(list, t), NoDup(list)
    PROVE  /\ Remove(list, t) \in Seq(S)
           /\ NoDup(Remove(list, t))
           /\ \A u : Find(Remove(list, t), u) <=> Find(list, u) /\ u # t
<1> DEFINE k == Position(list, t)
           rest == Remove(list, t)
<1>1. k \in 1..Len(list) /\ list[k] = t
  BY DEF Find, Position
<1>2. rest = [i \in 1..Len(list) - 1 |-> list[IF i < k THEN i ELSE i + 1]]
  BY DEF Remove
<1> HIDE DEF k, rest
<1>3. Len(list) \in Nat /\ Len(list) - 1 \in Nat
  BY <1>1
<1>4. \A i \in 1..Len(list) - 1 : rest[i] = list[IF i < k THEN i ELSE i + 1]
  BY <1>2
<1>5. rest \in Seq(S) /\ Len(rest) = Len(list) - 1
  <2>1. \A i \in 1..Len(list) - 1 : (IF i < k THEN i ELSE i + 1) \in 1..Len(list)
    BY <1>1, <1>3
  <2>2. rest \in [1..Len(list) - 1 -> S]
    BY <1>2, <2>1
  <2>. QED  BY <1>3, <2>2
<1>6. NoDup(rest)
  BY <1>1, <1>3, <1>4, <1>5 DEF NoDup
<1>7. ASSUME NEW u PROVE Find(rest, u) <=> Find(list, u) /\ u # t
  <2>1. ASSUME NEW i \in 1..Len(rest) PROVE Find(list, rest[i]) /\ rest[i] # t
    BY <1>1, <1>3, <1>4, <1>5, <2>1, SMTT(30) DEF Find, NoDup
  <2>2. ASSUME NEW i \in 1..Len(list), list[i] # t PROVE Find(rest, list[i])
    <3>1. CASE i < k
      BY <1>1, <1>3, <1>4, <1>5, <3>1 DEF Find
    <3>2. CASE i > k
      <4>1. i - 1 \in 1..Len(rest) /\ rest[i - 1] = list[i]
        BY <1>1, <1>3, <1>4, <1>5, <3>2
      <4>. QED  BY <4>1 DEF Find
    <3>. QED  BY <1>1, <2>2, <3>1, <3>2
  <2>. QED  BY <2>1, <2>2 DEF Find
<1>. QED  BY <1>5, <1>6, <1>7 DEF rest

\* A traversal that finds something returns one of what it looks for.
LEMMA TraversalFound ==
    ASSUME NEW T, NEW list \in Seq(T), NEW S, NEW c \in S, Find(list, c)
    PROVE  Traversal(list, S) \in S
<1> DEFINE I == {i \in 1..Len(list) : list[i] \in S}
<1>1. I \in SUBSET Nat /\ I # {}
  BY DEF Find
<1>2. PICK m \in I : \A k \in I : m <= k
  BY <1>1, Least
<1>3. \E i \in 1..Len(list) :
         list[i] \in S /\ \A j \in 1..Len(list) : list[j] \in S => i <= j
  BY <1>2
<1>. QED  BY <1>3 DEF Traversal

-----------------------------------------------------------------------------
LEMMA FreePidFree ==
    ASSUME used \subseteq Pids, used # Pids PROVE FreePid \in Pids \ used
<1> USE ProcessAssumption
<1> DEFINE S == Pids \ used
<1>a. Pids \subseteq Nat
  BY DEF Pids
<1>1. S \in SUBSET Nat /\ S # {}
  BY <1>a
<1>2. \E m \in S : \A k \in S : m <= k
  BY <1>1, Least
<1>. QED  BY <1>2 DEF FreePid

-----------------------------------------------------------------------------
\* The kernel threads make no calls, init neither waits nor exits, and init is
\* the process orphans are given to.
KernelsInv ==
    /\ pc[Main] = "user" /\ pc[Idle] = "user"
    /\ pc[InitProc] \in {"user", "fork", "return"}
    /\ pid[InitProc] = InitPid

\* A process that has lost the CPU inside a call gets it back with interrupts off.
FlagsInv == \A t \in Thread : pc[t] # "user" /\ t # cur => ~saved[t]

\* What a failed fork leaves behind is not the page of a process.
LostInv == \A t \in lost : status[t] = "DIED"

ListsInv == AllListExact /\ PidsDistinct /\ ParentsAlive /\ WaitsForSomeone /\ LostInv
CallsInv == CallsMatch /\ FlagsInv /\ KernelsInv
PInv == TypeOK /\ SchedInv /\ ListsInv /\ CallsInv

\* The inductive invariant.
IInv == panic \in BOOLEAN /\ (~panic => PInv) /\ KnownStops

LEMMA PidsKnown ==
    ASSUME TypeOK
    PROVE  /\ Pids \subseteq Nat /\ NoPid \notin Pids /\ InitPid \in Pids
           /\ PidsDistinct => \A t \in Alive \cup lost : pid[t] \in used /\ pid[t] \in Pids
<1>1. Pids \subseteq Nat /\ NoPid \notin Pids /\ InitPid \in Pids
  BY ProcessAssumption DEF Pids, NoPid, InitPid
<1>2. ASSUME PidsDistinct, NEW t \in Alive \cup lost PROVE pid[t] \in used /\ pid[t] \in Pids
  BY <1>2 DEF PidsDistinct, TypeOK
<1>. QED  BY <1>1, <1>2

LEMMA PInitInv == Init => IInv
<1> SUFFICES ASSUME Init PROVE IInv
  OBVIOUS
<1> USE ThreadAssumption, ProcessAssumption DEF Init
<1>1. TInv
  BY TInitInv
<1>2. /\ all_list \in Seq(Thread) /\ Len(all_list) = 3
      /\ all_list[1] = InitProc /\ all_list[2] = Main /\ all_list[3] = Idle
  OBVIOUS
<1>3. 1 \in Pids /\ 2 \in Pids /\ 3 \in Pids
  BY DEF Pids
<1>4. TypeOK
  BY <1>1, <1>2, <1>3 DEF TypeOK, TInv, NoPid, InitPid
<1>5. \A t \in Thread : Find(all_list, t) <=> t \in Kernels
  BY <1>2, 1 \in 1..3, 2 \in 1..3, 3 \in 1..3, \A i \in 1..3 : i = 1 \/ i = 2 \/ i = 3
  DEF Find, Kernels
<1>6. Alive = Kernels /\ panic = FALSE
  BY DEF Alive, Kernels, TInit
<1>7. NoDup(all_list)
  BY <1>2, \A i \in 1..3 : i = 1 \/ i = 2 \/ i = 3 DEF NoDup
<1>8. AllListExact
  BY <1>5, <1>6, <1>7 DEF AllListExact
<1>9. pid[InitProc] = 1 /\ pid[Main] = 2 /\ pid[Idle] = 3 /\ lost = {}
  BY DEF InitPid
<1>10. PidsDistinct
  BY <1>6, <1>9 DEF PidsDistinct, Kernels
<1>11. ParentsAlive /\ WaitsForSomeone /\ LostInv
  BY <1>6 DEF ParentsAlive, WaitsForSomeone, LostInv, TInit
<1>12. CallsInv
  BY <1>9 DEF CallsInv, CallsMatch, FlagsInv, KernelsInv, TInit, InitPid
<1>13. PInv
  BY <1>1, <1>4, <1>8, <1>10, <1>11, <1>12 DEF PInv, TInv, ListsInv
<1>. QED  BY <1>6, <1>13 DEF IInv, KnownStops

-----------------------------------------------------------------------------
\* Steps that neither wake, kill nor create anybody and leave the lists alone.
Calm == {"READY", "RUNNING", "BLOCKED"}
Calmly == \A u \in Thread : \/ status'[u] = status[u]
                            \/ status[u] \in Calm /\ status'[u] \in Calm

LEMMA CalmLists ==
    ASSUME lost \subseteq Thread, ListsInv, Calmly,
           UNCHANGED <<pid, parent, used, all_list, lost>>
    PROVE  ListsInv'
<1>1. /\ \A u \in Thread : status'[u] = "DIED" <=> status[u] = "DIED"
      /\ \A u \in Thread : status'[u] = "WAITING" <=> status[u] = "WAITING"
      /\ \A u \in Thread : status'[u] = "HANGING" <=> status[u] = "HANGING"
  BY DEF Calmly, Calm
<1>2. Alive' = Alive
  BY <1>1 DEF Alive
<1>3. AllListExact' /\ PidsDistinct'
  BY <1>2 DEF ListsInv, AllListExact, PidsDistinct
<1>4. ParentsAlive'
  BY <1>1, <1>2 DEF ListsInv, ParentsAlive, Alive
<1>5. WaitsForSomeone'
  BY <1>1 DEF ListsInv, WaitsForSomeone, Children, HangingChildren
<1>6. LostInv'
  BY <1>1 DEF ListsInv, LostInv
<1>. QED  BY <1>3, <1>4, <1>5, <1>6 DEF ListsInv

\* A switch brings back the flag each process had.
LEMMA SwitchFlags ==
    ASSUME TTypeOK, CallsInv, cur' \in Thread, UNCHANGED pc,
           Switched \/ UNCHANGED <<cur, intr, saved>>
    PROVE  FlagsInv' /\ \A t \in Thread : t = cur' /\ pc'[t] # "user" => ~intr'
<1>1. CASE Switched
  <2>1. \A t \in Thread : saved'[t] = IF t = cur THEN intr ELSE saved[t]
    BY <1>1 DEF Switched, TTypeOK
  <2>2. intr' = saved'[cur']
    BY <1>1 DEF Switched
  <2>. QED  BY <2>1, <2>2 DEF CallsInv, CallsMatch, FlagsInv
<1>2. CASE UNCHANGED <<cur, intr, saved>>
  BY <1>2 DEF CallsInv, CallsMatch, FlagsInv
<1>. QED  BY <1>1, <1>2

LEMMA CalmCalls ==
    ASSUME CallsInv, Calmly, UNCHANGED <<pc, pid>>, FlagsInv',
           \A t \in Thread : t = cur' /\ pc'[t] # "user" => ~intr'
    PROVE  CallsInv'
<1>1. /\ \A u \in Thread : status'[u] = "WAITING" => status[u] = "WAITING"
      /\ \A u \in Thread : status'[u] = "HANGING" => status[u] = "HANGING"
  BY DEF Calmly, Calm
<1>2. CallsMatch'
  BY <1>1 DEF CallsInv, CallsMatch, Kernels
<1>. QED  BY <1>2 DEF CallsInv, KernelsInv

LEMMA Combine ==
    ASSUME TInv', TypeOK', ListsInv', CallsInv'
    PROVE  IInv'
BY DEF IInv, PInv, TInv, KnownStops, SchedInv, NoPanic, TTypeOK

LEMMA KernelInv == PInv /\ Kernel => IInv'
<1> SUFFICES ASSUME PInv, Kernel PROVE IInv'
  OBVIOUS
<1> USE ThreadAssumption
<1>1. /\ TInv /\ TTypeOK /\ ListsInv /\ CallsInv /\ TypeOK /\ lost \subseteq Thread
      /\ UNCHANGED <<pc, pid, parent, name, used, all_list, lost, leaked>>
      /\ Tick \/ IdleBlock \/ IdleHlt \/ (cur = Main /\ IntrEnable)
  BY DEF PInv, TInv, TypeOK, Kernel, pvars
<1>2. TInv'
  BY <1>1, TNextInv DEF TNext
<1>3. TypeOK'
  BY <1>1, <1>2 DEF TypeOK, TInv
<1>4. Calmly
  <2>1. \A u \in Thread \ {Idle} :
           status'[u] = status[u] \/ (status[u] \in Live /\ status'[u] \in Live)
    BY <1>1, QuietStatus
  <2>2. status[Idle] \in Calm /\ status'[Idle] \in Calm
    BY <1>1, <1>2 DEF TInv, SchedInv, IdleSleeps, Calm
  <2>. QED  BY <2>1, <2>2 DEF Calmly, Calm, Live
<1>5. FlagsInv' /\ \A t \in Thread : t = cur' /\ pc'[t] # "user" => ~intr'
  <2>1. CASE Tick \/ IdleBlock
    <3>1. cur' \in Thread
      BY <1>2 DEF TInv, TTypeOK
    <3>. QED  BY <1>1, <2>1, <3>1, QuietFlags, SwitchFlags
  <2>2. CASE IdleHlt \/ (cur = Main /\ IntrEnable)
    BY <1>1, <2>2 DEF IdleHlt, IntrEnable, CallsInv, FlagsInv, KernelsInv
  <2>. QED  BY <1>1, <2>1, <2>2
<1>6. ListsInv'
  BY <1>1, <1>4, CalmLists
<1>7. CallsInv'
  BY <1>1, <1>4, <1>5, CalmCalls
<1>. QED  BY <1>2, <1>3, <1>6, <1>7, Combine

\* Steps inside a call by which only the place in it, the flag or the name change.
LEMMA StayInv ==
    ASSUME PInv, NEW t \in Thread, At(t, pc[t]),
           UNCHANGED <<cur, status, ready, ticks, saved, idle_pc, panic,
                       pid, parent, used, all_list, lost>>,
           NEW l \in {"user", "fork", "execv", "exit", "wait", "return"},
           t = InitProc => l \in {"user", "fork", "return"},
           Goto(t, l), intr' \in BOOLEAN, l # "user" => ~intr',
           name' \in [Thread -> Nat], leaked' \subseteq Thread
    PROVE  IInv'
<1> USE ThreadAssumption
<1>1. /\ TInv /\ TTypeOK /\ ListsInv /\ CallsInv /\ TypeOK /\ lost \subseteq Thread
      /\ cur = t /\ t \notin {Main, Idle}
  BY DEF PInv, TInv, TypeOK, At
<1>2. \A u \in Thread : pc'[u] = IF u = t THEN l ELSE pc[u]
  BY <1>1 DEF Goto, TypeOK
<1>3. TInv'
  BY <1>1, FlagCorrect DEF TInv, TTypeOK
<1>4. TypeOK'
  <2>1. pc' \in [Thread -> {"user", "fork", "execv", "exit", "wait", "return", "fault"}]
    BY <1>1 DEF Goto, TypeOK
  <2>. QED  BY <1>1, <1>3, <2>1 DEF TypeOK, TInv
<1>5. ListsInv'
  BY <1>1, CalmLists DEF Calmly
<1>6. status[t] = "RUNNING"
  BY <1>1 DEF TInv, SchedInv, OneRunning
<1>7. CallsMatch'
  BY <1>1, <1>2, <1>6 DEF CallsInv, CallsMatch, Kernels
<1>8. FlagsInv' /\ KernelsInv'
  BY <1>1, <1>2 DEF CallsInv, FlagsInv, KernelsInv
<1>. QED  BY <1>3, <1>4, <1>5, <1>7, <1>8, Combine DEF CallsInv

LEMMA QuietCallInv ==
    ASSUME PInv, NEW t \in Thread,
           \/ Return(t) \/ SysWaitNone(t) \/ SysForkNoPage(t) \/ SysExecvFails(t)
           \/ \E c \in Thread : SysForkNoBuffer(t, c)
           \/ \E n \in PathLen : SysExecv(t, n)
           \/ \E call \in {"fork", "execv", "exit", "wait"} : Call(t, call)
    PROVE  IInv'
<1> USE ThreadAssumption
<1>1. TypeOK /\ TTypeOK /\ CallsInv
  BY DEF PInv, TypeOK
<1>2. CASE Return(t)
  BY <1>1, <1>2, StayInv DEF Return, At, TypeOK
<1>3. CASE SysWaitNone(t)
  BY <1>1, <1>3, StayInv DEF SysWaitNone, At, TypeOK, tvars, CallsInv, CallsMatch, TTypeOK
<1>4. ASSUME NEW n \in PathLen, SysExecv(t, n) PROVE IInv'
  <2>1. n \in Nat
    BY ProcessAssumption
  <2>2. name' \in [Thread -> Nat]
    BY <1>1, <1>4, <2>1 DEF SysExecv, TypeOK
  <2>3. leaked' \subseteq Thread /\ ~intr' /\ intr' \in BOOLEAN
    BY <1>1, <1>4 DEF SysExecv, At, TypeOK, tvars, CallsInv, CallsMatch, TTypeOK
  <2>. QED
    BY <1>1, <1>4, <2>2, <2>3, StayInv DEF SysExecv, At, tvars
<1>5. ASSUME NEW call \in {"fork", "execv", "exit", "wait"}, Call(t, call) PROVE IInv'
  BY <1>1, <1>5, StayInv DEF Call, At, TypeOK
<1>6. CASE SysForkNoPage(t) \/ SysExecvFails(t)
  BY <1>1, <1>6, StayInv
  DEF SysForkNoPage, SysExecvFails, At, TypeOK, tvars, CallsInv, CallsMatch, TTypeOK
<1>7. ASSUME NEW c \in Thread, SysForkNoBuffer(t, c) PROVE IInv'
  <2>1. leaked' \subseteq Thread
    BY <1>1, <1>7 DEF SysForkNoBuffer, TypeOK
  <2>. QED
    BY <1>1, <1>7, <2>1, StayInv
    DEF SysForkNoBuffer, At, TypeOK, tvars, CallsInv, CallsMatch, TTypeOK
<1>. QED  BY <1>2, <1>3, <1>4, <1>5, <1>6, <1>7

\* What the running process is: alive, and neither main, idle nor, in wait and
\* exit, init.
LEMMA Caller ==
    ASSUME PInv, NEW t \in Thread, NEW l, At(t, l)
    PROVE  /\ cur = t /\ pc[t] = l /\ t \notin {Main, Idle} /\ status[t] = "RUNNING"
           /\ l # "user" => ~intr
           /\ l \in {"exit", "wait"} => t \notin Kernels
BY DEF At, PInv, SchedInv, OneRunning, CallsInv, CallsMatch, KernelsInv, Kernels

LEMMA WaitBlockInv ==
    ASSUME PInv, NEW t \in Thread, SysWaitBlock(t) PROVE IInv'
<1> USE ThreadAssumption
<1>1. /\ TInv /\ TTypeOK /\ ListsInv /\ CallsInv /\ TypeOK /\ lost \subseteq Thread
      /\ UNCHANGED <<pc, pid, parent, name, used, all_list, lost, leaked>>
      /\ At(t, "wait") /\ HangingChildren(t) = {} /\ Children(t) # {}
      /\ ThreadBlock("WAITING")
  BY DEF PInv, TInv, TypeOK, SysWaitBlock, pvars
<1>2. cur = t /\ pc[t] = "wait" /\ t \notin Kernels /\ status[t] = "RUNNING"
  BY <1>1, Caller
<1>3. /\ TInv' /\ Switched /\ cur' # cur /\ status'[t] = "WAITING"
      /\ \A u \in Thread \ {Idle, t} :
            status'[u] = status[u] \/ (status[u] \in Live /\ status'[u] \in Live)
  BY <1>1, <1>2, BlockStep DEF ThreadBlock, Sleeping
<1>4. status[Idle] \in Calm /\ status'[Idle] \in Calm
  BY <1>1, <1>3 DEF TInv, SchedInv, IdleSleeps, Calm
<1>5. /\ \A u \in Thread : status'[u] = "DIED" <=> status[u] = "DIED"
      /\ \A u \in Thread : status'[u] = "WAITING" <=> status[u] = "WAITING" \/ u = t
      /\ \A u \in Thread : status'[u] = "HANGING" <=> status[u] = "HANGING"
  BY <1>2, <1>3, <1>4 DEF Calm, Live
<1>6. TypeOK'
  BY <1>1, <1>3 DEF TypeOK, TInv
<1>7. Alive' = Alive
  BY <1>5 DEF Alive
<1>8. AllListExact' /\ PidsDistinct' /\ ParentsAlive' /\ LostInv'
  BY <1>1, <1>5, <1>7 DEF ListsInv, AllListExact, PidsDistinct, ParentsAlive, LostInv, Alive
<1>9. WaitsForSomeone'
  BY <1>1, <1>5 DEF ListsInv, WaitsForSomeone, Children, HangingChildren
<1>10. FlagsInv' /\ \A u \in Thread : u = cur' /\ pc'[u] # "user" => ~intr'
  <2>1. cur' \in Thread
    BY <1>3 DEF TInv, TTypeOK
  <2>. QED  BY <1>1, <1>3, <2>1, SwitchFlags
<1>11. CallsMatch'
  BY <1>1, <1>2, <1>5, <1>10 DEF CallsInv, CallsMatch, Kernels
<1>12. KernelsInv'
  BY <1>1 DEF CallsInv, KernelsInv
<1>. QED
  BY <1>3, <1>6, <1>8, <1>9, <1>10, <1>11, <1>12, Combine DEF ListsInv, CallsInv

LEMMA WaitReapInv ==
    ASSUME PInv, NEW t \in Thread, SysWaitReap(t) PROVE IInv'
<1> USE ThreadAssumption
<1> DEFINE c == Traversal(all_list, HangingChildren(t))
<1>1. /\ TInv /\ TTypeOK /\ ListsInv /\ CallsInv /\ TypeOK /\ lost \subseteq Thread
      /\ UNCHANGED <<pid, parent, name, lost, leaked>> /\ Goto(t, "return")
      /\ At(t, "wait") /\ HangingChildren(t) # {}
      /\ ThreadExit(c) /\ all_list' = Remove(all_list, c) /\ used' = used \ {pid[c]}
      /\ all_list \in Seq(Thread)
  BY DEF PInv, TInv, TypeOK, SysWaitReap
<1>2. c \in HangingChildren(t)
  <2>1. PICK h \in HangingChildren(t) : Find(all_list, h)
    BY <1>1 DEF HangingChildren, Children
  <2>. QED  BY <1>1, <2>1, TraversalFound
<1> HIDE DEF c
<1>3. /\ c \in Thread /\ Find(all_list, c) /\ parent[c] = pid[t] /\ status[c] = "HANGING"
      /\ c \in Alive /\ c \notin lost
  BY <1>1, <1>2 DEF HangingChildren, Children, Alive, ListsInv, LostInv
<1>4. cur = t /\ t \notin Kernels /\ status[t] = "RUNNING" /\ ~intr
  BY <1>1, Caller
<1>5. TInv'
  BY <1>1, <1>3, ExitCorrect
<1>6. \A u \in Thread : status'[u] = IF u = c THEN "DIED" ELSE status[u]
  BY <1>1, <1>3 DEF ThreadExit, TTypeOK
<1>7. /\ all_list' \in Seq(Thread) /\ NoDup(all_list')
      /\ \A u : Find(all_list', u) <=> Find(all_list, u) /\ u # c
  BY <1>1, <1>3, RemoveFacts DEF ListsInv, AllListExact
<1>8. TypeOK'
  BY <1>1, <1>5, <1>7 DEF TypeOK, TInv, Goto
<1>9. Alive' = Alive \ {c}
  BY <1>6 DEF Alive
<1>10. AllListExact'
  BY <1>1, <1>7, <1>9 DEF ListsInv, AllListExact
<1>11. PidsDistinct' /\ LostInv'
  <2>1. (Alive \cup lost)' = (Alive \cup lost) \ {c}
    BY <1>1, <1>3, <1>9
  <2>2. \A u, v \in (Alive \cup lost)' : pid'[u] = pid'[v] => u = v
    BY <1>1, <2>1 DEF ListsInv, PidsDistinct
  <2>3. used' = {pid'[u] : u \in (Alive \cup lost)'}
    BY <1>1, <1>3, <2>1 DEF ListsInv, PidsDistinct
  <2>. QED  BY <1>1, <1>3, <1>6, <2>2, <2>3 DEF PidsDistinct, ListsInv, LostInv
<1>12. ParentsAlive'
  BY <1>1, <1>3, <1>6, <1>9 DEF ListsInv, ParentsAlive, Alive
<1>13. WaitsForSomeone'
  <2> SUFFICES ASSUME NEW u \in Thread, status'[u] = "WAITING"
               PROVE  Children(u)' # {} /\ HangingChildren(u)' = {}
    BY DEF WaitsForSomeone
  <2>1. status[u] = "WAITING"
    BY <1>6
  <2>2. Children(u) # {} /\ HangingChildren(u) = {}
    BY <1>1, <2>1 DEF ListsInv, WaitsForSomeone
  <2>3. c \notin Children(u)
    BY <1>3, <2>2 DEF HangingChildren
  <2>4. Children(u)' = Children(u)
    BY <1>1, <1>7, <2>3 DEF Children
  <2>. QED  BY <1>6, <2>2, <2>3, <2>4 DEF HangingChildren, Children
<1>14. \A u \in Thread : pc'[u] = IF u = t THEN "return" ELSE pc[u]
  BY <1>1 DEF Goto, TypeOK
<1>15. CallsMatch' /\ FlagsInv' /\ KernelsInv'
  <2>1. UNCHANGED <<cur, saved>> /\ ~intr'
    BY <1>1 DEF ThreadExit
  <2>2. CallsMatch'
    BY <1>1, <1>4, <1>6, <1>14, <2>1 DEF CallsInv, CallsMatch, Kernels
  <2>3. FlagsInv' /\ KernelsInv'
    BY <1>1, <1>4, <1>14, <2>1 DEF CallsInv, FlagsInv, KernelsInv, Kernels
  <2>. QED  BY <2>2, <2>3
<1>. QED
  BY <1>5, <1>8, <1>10, <1>11, <1>12, <1>13, <1>15, Combine DEF ListsInv, CallsInv

LEMMA ExitInv ==
    ASSUME PInv, NEW t \in Thread, SysExit(t) PROVE IInv'
<1> USE ThreadAssumption
<1> DEFINE found == WithPid(parent'[t])
           bad == parent[t] = NoPid \/ found = {}
           p == Traversal(all_list, found)
<1>1. /\ TInv /\ TTypeOK /\ ListsInv /\ CallsInv /\ TypeOK /\ lost \subseteq Thread
      /\ UNCHANGED <<idle_pc, pc, pid, name, used, all_list, lost, leaked>>
      /\ At(t, "exit") /\ all_list \in Seq(Thread)
      /\ parent' = [c \in Thread |-> IF Find(all_list, c) /\ parent[c] = pid[t]
                                     THEN InitPid ELSE parent[c]]
  BY DEF PInv, TInv, TypeOK, SysExit
<1>2. IF ~bad /\ status[p] = "WAITING"
      THEN Block("HANGING", [status EXCEPT ![p] = "READY"], Push(ready, p), Find(ready, p))
      ELSE Block("HANGING", status, ready, bad)
  BY DEF SysExit
<1>3. cur = t /\ pc[t] = "exit" /\ t \notin Kernels /\ status[t] = "RUNNING" /\ t \in Alive
  BY <1>1, Caller DEF Alive
<1>4. /\ Pids \subseteq Nat /\ NoPid \notin Pids /\ InitPid \in Pids
      /\ \A u \in Alive \cup lost : pid[u] \in used /\ pid[u] \in Pids
      /\ \A u, v \in Alive : pid[u] = pid[v] => u = v
  BY <1>1, PidsKnown DEF ListsInv, PidsDistinct
<1>5. PICK q \in Alive : pid[q] = parent[t] /\ status[q] # "HANGING" /\ q # t
  BY <1>1, <1>3 DEF ListsInv, ParentsAlive
<1>6. parent'[t] = pid[q] /\ parent[t] # NoPid
  BY <1>1, <1>3, <1>4, <1>5
<1>7. found = {q}
  BY <1>1, <1>4, <1>5, <1>6 DEF WithPid, ListsInv, AllListExact, Alive
<1>8. ~bad /\ p = q
  <2>1. Find(all_list, q) /\ q \in found
    BY <1>1, <1>5, <1>7 DEF ListsInv, AllListExact, Alive
  <2> HIDE DEF found
  <2>2. p \in found
    BY <1>1, <2>1, TraversalFound
  <2>. QED  BY <1>6, <1>7, <2>2
<1> HIDE DEF found, bad, p
<1>9. /\ TInv' /\ Switched /\ cur' # cur /\ status'[t] = "HANGING"
      /\ status'[q] \notin {"WAITING", "HANGING", "DIED"}
      /\ \A u \in Thread \ {Idle, t, q} :
            status'[u] = status[u] \/ (status[u] \in Live /\ status'[u] \in Live)
  <2>1. q \in Thread /\ status[q] # "DIED" /\ t \notin {Main, Idle, InitProc}
    BY <1>3, <1>5 DEF Alive, Kernels
  <2>2. CASE status[q] = "WAITING"
    <3>1. q # Idle /\ ~Find(ready, q) /\ status[q] \in Sleeping
      BY <1>1, <2>1, <2>2 DEF TInv, SchedInv, IdleSleeps, ReadyExact, Sleeping
    <3>2. Block("HANGING", [status EXCEPT ![q] = "READY"], Push(ready, q), Find(ready, q))
      BY <1>2, <1>8, <2>2
    <3> DEFINE twice == Find(ready, q)
    <3>3. ~twice /\ UNCHANGED idle_pc
          /\ Block("HANGING", [status EXCEPT ![q] = "READY"], Push(ready, q), twice)
      BY <1>1, <3>1, <3>2
    <3> HIDE DEF twice
    <3>4. /\ TInv' /\ Switched
          /\ cur' # cur /\ status'[cur] = "HANGING" /\ status'[q] \in Live
          /\ \A u \in Thread \ {Idle, cur, q} :
                status'[u] = status[u] \/ (status[u] \in Live /\ status'[u] \in Live)
      <4>1. TInv /\ q \in Thread /\ q # Idle /\ status[q] \in Sleeping
            /\ cur \notin {Main, Idle, InitProc}
        BY <1>1, <1>3, <2>1, <3>1
      <4>. QED  BY <3>3, <4>1, WakeAndBlock
    <3>. QED  BY <1>3, <3>4 DEF Live
  <2>3. CASE status[q] # "WAITING"
    <3>1. Block("HANGING", status, ready, bad)
      BY <1>2, <1>8, <2>3
    <3>2. /\ TInv' /\ Switched /\ cur' # cur /\ status'[t] = "HANGING"
          /\ \A u \in Thread \ {Idle, t} :
                status'[u] = status[u] \/ (status[u] \in Live /\ status'[u] \in Live)
      BY <1>1, <1>3, <1>8, <2>1, <3>1, BlockStep DEF Sleeping
    <3>3. status'[Idle] \in Calm
      BY <3>2 DEF TInv, SchedInv, IdleSleeps, Calm
    <3>4. status'[q] \notin {"WAITING", "HANGING", "DIED"}
      BY <1>5, <2>1, <2>3, <3>2, <3>3 DEF Live, Calm
    <3>. QED  BY <3>2, <3>4
  <2>. QED  BY <2>2, <2>3
<1>10. status[Idle] \in Calm /\ status'[Idle] \in Calm
  BY <1>1, <1>9 DEF TInv, SchedInv, IdleSleeps, Calm
<1>11. /\ \A u \in Thread : status'[u] = "DIED" <=> status[u] = "DIED"
       /\ \A u \in Thread : status'[u] = "WAITING" <=> status[u] = "WAITING" /\ u # q
       /\ \A u \in Thread : status'[u] = "HANGING" <=> status[u] = "HANGING" \/ u = t
  BY <1>3, <1>5, <1>9, <1>10 DEF Calm, Live, Alive
<1>12. TypeOK'
  BY <1>1, <1>4, <1>9 DEF TypeOK, TInv
<1>13. Alive' = Alive
  BY <1>11 DEF Alive
<1>14. AllListExact' /\ PidsDistinct' /\ LostInv'
  BY <1>1, <1>11, <1>13 DEF ListsInv, AllListExact, PidsDistinct, LostInv
<1>15. ParentsAlive'
  <2> SUFFICES ASSUME NEW c \in Alive \ Kernels
               PROVE  \E s \in Alive : pid[s] = parent'[c] /\ status'[s] # "HANGING" /\ s # c
    BY <1>1, <1>13 DEF ParentsAlive, Kernels
  <2>1. Find(all_list, c) /\ c \in Thread
    BY <1>1 DEF ListsInv, AllListExact, Alive
  <2>2. CASE parent[c] = pid[t]
    <3>1. InitProc \in Alive /\ pid[InitProc] = InitPid /\ status'[InitProc] # "HANGING"
      BY <1>1, <1>9 DEF TInv, SchedInv, IdleSleeps, Alive, CallsInv, KernelsInv
    <3>2. parent'[c] = InitPid /\ InitProc # c
      BY <1>1, <2>1, <2>2 DEF Kernels
    <3>. QED  BY <3>1, <3>2
  <2>3. CASE parent[c] # pid[t]
    <3>1. PICK s \in Alive : pid[s] = parent[c] /\ status[s] # "HANGING" /\ s # c
      BY <1>1 DEF ListsInv, ParentsAlive
    <3>2. parent'[c] = parent[c] /\ s # t /\ s \in Thread
      BY <1>1, <2>1, <2>3, <3>1 DEF Alive
    <3>. QED  BY <1>11, <3>1, <3>2
  <2>. QED  BY <2>2, <2>3
<1>16. WaitsForSomeone'
  <2> SUFFICES ASSUME NEW u \in Thread, status'[u] = "WAITING"
               PROVE  Children(u)' # {} /\ HangingChildren(u)' = {}
    BY DEF WaitsForSomeone
  <2>1. status[u] = "WAITING" /\ u # q /\ u # t /\ u # InitProc /\ u \in Alive
    BY <1>1, <1>3, <1>11 DEF TInv, SchedInv, IdleSleeps, Alive
  <2>2. Children(u) # {} /\ HangingChildren(u) = {}
    BY <1>1, <2>1 DEF ListsInv, WaitsForSomeone
  <2>3. InitProc \in Alive /\ pid[InitProc] = InitPid
    BY <1>1 DEF TInv, SchedInv, IdleSleeps, Alive, CallsInv, KernelsInv
  <2>4. pid[u] # pid[t] /\ pid[u] # InitPid /\ pid[u] # pid[q]
    BY <1>3, <1>4, <1>5, <2>1, <2>3
  <2>5. Children(u)' = Children(u)
    BY <1>1, <2>4 DEF Children
  <2>6. t \notin Children(u)
    BY <1>5, <2>4 DEF Children
  <2>. QED  BY <1>11, <2>2, <2>5, <2>6 DEF HangingChildren, Children
<1>17. FlagsInv' /\ \A u \in Thread : u = cur' /\ pc'[u] # "user" => ~intr'
  <2>1. cur' \in Thread
    BY <1>9 DEF TInv, TTypeOK
  <2>. QED  BY <1>1, <1>9, <2>1, SwitchFlags
<1>18. CallsMatch'
  BY <1>1, <1>3, <1>11, <1>17 DEF CallsInv, CallsMatch, Kernels
<1>19. KernelsInv'
  BY <1>1 DEF CallsInv, KernelsInv
<1>. QED
  BY <1>9, <1>12, <1>14, <1>15, <1>16, <1>17, <1>18, <1>19, Combine DEF ListsInv, CallsInv

-----------------------------------------------------------------------------
\* What copy_pcb_vaddrbitmap_stack0 does to a page that is free, if a PID is left.
LEMMA CopyFacts ==
    ASSUME PInv, NEW t \in Thread, NEW c \in Thread, At(t, "fork"), Free(c), CopyPcb(t, c),
           used # Pids
    PROVE  /\ pid' \in [Thread -> Pids \cup {NoPid}]
           /\ parent' \in [Thread -> Pids \cup {NoPid}]
           /\ used' \subseteq Pids
           /\ pid'[c] \in Pids \ used /\ used' = used \cup {pid'[c]}
           /\ parent'[c] = pid[t] /\ pid[t] \in Pids
           /\ \A u \in Thread \ {c} : pid'[u] = pid[u] /\ parent'[u] = parent[u]
           /\ c # t /\ c \notin Alive /\ c \notin lost /\ t \in Alive
           /\ status[c] = "DIED" /\ ~Find(all_list, c) /\ ~Find(ready, c)
<1> USE ThreadAssumption
<1>1. TypeOK /\ ListsInv /\ SchedInv
  BY DEF PInv
<1>2. cur = t /\ status[t] = "RUNNING" /\ t \in Alive
  BY Caller DEF Alive
<1>3. /\ c # t /\ c \notin Alive /\ c \notin lost /\ status[c] = "DIED"
      /\ ~Find(all_list, c) /\ ~Find(ready, c)
  BY <1>1, <1>2 DEF Free, Alive, ListsInv, AllListExact, SchedInv, ReadyExact
<1>4. FreePid \in Pids \ used
  BY <1>1, FreePidFree DEF TypeOK
<1>5. pid[t] \in Pids
  BY <1>1, <1>2, PidsKnown DEF ListsInv
<1>6. /\ pid' = [pid EXCEPT ![c] = FreePid] /\ used' = used \cup {FreePid}
      /\ parent' = [parent EXCEPT ![c] = pid[t]]
  BY DEF CopyPcb
<1>7. pid \in [Thread -> Pids \cup {NoPid}] /\ parent \in [Thread -> Pids \cup {NoPid}]
      /\ used \subseteq Pids
  BY <1>1 DEF TypeOK
<1>. QED  BY <1>2, <1>3, <1>4, <1>5, <1>6, <1>7

LEMMA OneMore ==
    ASSUME NEW A, NEW c, NEW f, NEW g, \A u \in A : g[u] = f[u]
    PROVE  {g[u] : u \in A \cup {c}} = {f[u] : u \in A} \cup {g[c]}
OBVIOUS

\* A fork that succeeds.
LEMMA ForkInv ==
    ASSUME PInv, NEW t \in Thread, NEW c \in Thread, SysFork(t, c) PROVE IInv'
<1> USE ThreadAssumption
<1>1. /\ TInv /\ TTypeOK /\ ListsInv /\ CallsInv /\ TypeOK /\ lost \subseteq Thread
      /\ At(t, "fork") /\ Free(c) /\ CopyPcb(t, c) /\ UNCHANGED <<lost, leaked>>
      /\ used # Pids
      /\ all_list \in Seq(Thread) /\ all_list' = Append(all_list, c)
      /\ pc' = [pc EXCEPT ![t] = "return", ![c] = "user"]
      /\ name' = [name EXCEPT ![c] = name[t] + 5] /\ name \in [Thread -> Nat]
  BY DEF PInv, TInv, TypeOK, SysFork
<1>2. cur = t /\ pc[t] = "fork" /\ status[t] = "RUNNING" /\ t \notin {Main, Idle} /\ ~intr
  BY <1>1, Caller
<1>3. c # t /\ ~Find(ready, c) /\ ~Find(all_list, c)
  BY <1>1, <1>2 DEF Free, TInv, SchedInv, ReadyExact, ListsInv, AllListExact, Alive
<1>4. /\ panic' = (Find(ready, c) \/ Find(all_list, c))
      /\ UNCHANGED <<cur, intr, saved>> \/ saved' = [saved EXCEPT ![c] = TRUE]
      /\ UNCHANGED <<cur, intr, idle_pc>>
  BY DEF SysFork
<1>5. \A u \in Thread : pc'[u] = IF u = t THEN "return" ELSE IF u = c THEN "user" ELSE pc[u]
  BY <1>1, <1>3 DEF TypeOK
<1>6. /\ pid' \in [Thread -> Pids \cup {NoPid}]
      /\ parent' \in [Thread -> Pids \cup {NoPid}]
      /\ used' \subseteq Pids
      /\ pid'[c] \in Pids \ used /\ used' = used \cup {pid'[c]}
      /\ parent'[c] = pid[t]
      /\ \A u \in Thread \ {c} : pid'[u] = pid[u] /\ parent'[u] = parent[u]
      /\ c \notin Alive /\ c \notin lost /\ t \in Alive /\ status[c] = "DIED"
  BY <1>1, <1>1, CopyFacts
<1>a. panic' = FALSE
  BY <1>3, <1>4, <1>1
<1>b. Find(ready, c) = FALSE
  BY <1>3
<1>7. panic' = Find(ready, c)
  BY <1>a, <1>b
<1>8. ThreadStart(c)
  BY <1>2, <1>6, <1>7 DEF SysFork, ThreadStart, At
<1>9. TInv'
  BY <1>1, <1>8, StartCorrect
<1>10. \A u \in Thread : status'[u] = IF u = c THEN "READY" ELSE status[u]
  BY <1>1, <1>8 DEF ThreadStart, TTypeOK
<1>11. /\ all_list' \in Seq(Thread) /\ NoDup(all_list')
      /\ \A u : Find(all_list', u) <=> Find(all_list, u) \/ u = c
  BY <1>1, <1>3, AppendFacts DEF ListsInv, AllListExact
<1>12. TypeOK'
  <2>1. name' \in [Thread -> Nat]
    BY <1>1, SMTT(30)
  <2>2. pc' \in [Thread -> {"user", "fork", "execv", "exit", "wait", "return", "fault"}]
    BY <1>1 DEF TypeOK
  <2>. QED  BY <1>1, <1>6, <1>9, <1>11, <2>1, <2>2 DEF TypeOK, TInv
<1>13. Alive' = Alive \cup {c}
  BY <1>10 DEF Alive
<1>14. AllListExact'
  BY <1>1, <1>11, <1>13 DEF ListsInv, AllListExact
<1>15. PidsDistinct'
  <2>1. \A u \in Alive \cup lost : pid[u] \in used /\ pid'[u] = pid[u] /\ u # c
    BY <1>1, <1>6 DEF ListsInv, PidsDistinct, Alive
  <2>2. (Alive \cup lost)' = (Alive \cup lost) \cup {c}
    BY <1>1, <1>13
  <2>3. \A u, v \in (Alive \cup lost)' : pid'[u] = pid'[v] => u = v
    BY <1>1, <1>6, <2>1, <2>2, ZenonT(60) DEF ListsInv, PidsDistinct
  <2>4. used' = {pid'[u] : u \in (Alive \cup lost)'}
    <3>1. {pid'[u] : u \in (Alive \cup lost) \cup {c}} =
            {pid[u] : u \in Alive \cup lost} \cup {pid'[c]}
      BY <2>1, OneMore
    <3>2. used = {pid[u] : u \in Alive \cup lost}
      BY <1>1 DEF ListsInv, PidsDistinct
    <3>. QED  BY <1>6, <2>2, <3>1, <3>2
  <2>. QED  BY <2>3, <2>4 DEF PidsDistinct
<1>16. ParentsAlive'
  <2> SUFFICES ASSUME NEW d \in Alive' \ Kernels
               PROVE  \E s \in Alive' : pid'[s] = parent'[d] /\ status'[s] # "HANGING" /\ s # d
    BY DEF ParentsAlive, Kernels
  <2>1. CASE d = c
    BY <1>2, <1>3, <1>6, <1>10, <1>13, <2>1
  <2>2. CASE d # c
    <3>1. PICK s \in Alive : pid[s] = parent[d] /\ status[s] # "HANGING" /\ s # d
      BY <1>1, <1>13, <2>2 DEF ListsInv, ParentsAlive
    <3>2. s # c /\ s \in Thread /\ d \in Thread
      BY <1>6, <1>13, <3>1 DEF Alive
    <3>. QED  BY <1>6, <1>10, <1>13, <2>2, <3>1, <3>2
  <2>. QED  BY <2>1, <2>2
<1>17. WaitsForSomeone'
  <2> SUFFICES ASSUME NEW u \in Thread, status'[u] = "WAITING"
               PROVE  Children(u)' # {} /\ HangingChildren(u)' = {}
    BY DEF WaitsForSomeone
  <2>1. status[u] = "WAITING" /\ u # c /\ u # t /\ u \in Alive
    BY <1>2, <1>10 DEF Alive
  <2>2. Children(u) # {} /\ HangingChildren(u) = {}
    BY <1>1, <2>1 DEF ListsInv, WaitsForSomeone
  <2>3. pid'[u] = pid[u] /\ pid[u] # pid[t]
    BY <1>1, <1>6, <2>1 DEF ListsInv, PidsDistinct
  <2>4. Children(u)' = Children(u)
    BY <1>3, <1>6, <1>11, <2>3 DEF Children
  <2>. QED  BY <1>10, <2>2, <2>4 DEF HangingChildren, Children
<1>18. LostInv'
  BY <1>1, <1>6, <1>10 DEF ListsInv, LostInv
<1>19. CallsMatch'
  BY <1>1, <1>2, <1>4, <1>5, <1>10 DEF CallsInv, CallsMatch, Kernels
<1>20. FlagsInv'
  <2>1. \A u \in Thread \ {c} : saved'[u] = saved[u]
    BY <1>1, <1>8 DEF ThreadStart, TTypeOK
  <2>. QED  BY <1>1, <1>2, <1>4, <1>5, <2>1 DEF CallsInv, FlagsInv
<1>21. KernelsInv'
  <2>1. c \notin {Main, Idle, InitProc}
    BY <1>1, <1>6 DEF TInv, SchedInv, IdleSleeps
  <2>. QED  BY <1>1, <1>2, <1>5, <1>6, <2>1 DEF CallsInv, KernelsInv
<1>. QED
  BY <1>9, <1>12, <1>14, <1>15, <1>16, <1>17, <1>18, <1>19, <1>20, <1>21, Combine
  DEF ListsInv, CallsInv

\* A fork that fails for want of memory: the page and the PID are lost, and the
\* lists hold what they held.
LEMMA ForkFailsInv ==
    ASSUME PInv, NEW t \in Thread, NEW c \in Thread, SysForkFails(t, c) PROVE IInv'
<1> USE ThreadAssumption
<1>1. /\ TInv /\ TTypeOK /\ ListsInv /\ CallsInv /\ TypeOK /\ lost \subseteq Thread
      /\ At(t, "fork") /\ Free(c) /\ CopyPcb(t, c) /\ lost' = lost \cup {c}
      /\ used # Pids /\ Goto(t, "return")
      /\ UNCHANGED <<cur, status, ready, ticks, intr, saved, idle_pc, panic, name, all_list,
                     leaked>>
  BY DEF PInv, TInv, TypeOK, SysForkFails, tvars
<1>2. cur = t /\ pc[t] = "fork" /\ status[t] = "RUNNING" /\ t \notin {Main, Idle} /\ ~intr
  BY <1>1, Caller
<1>3. \A u \in Thread : pc'[u] = IF u = t THEN "return" ELSE pc[u]
  BY <1>1 DEF Goto, TypeOK
<1>4. /\ pid' \in [Thread -> Pids \cup {NoPid}]
      /\ parent' \in [Thread -> Pids \cup {NoPid}]
      /\ used' \subseteq Pids
      /\ pid'[c] \in Pids \ used /\ used' = used \cup {pid'[c]}
      /\ \A u \in Thread \ {c} : pid'[u] = pid[u] /\ parent'[u] = parent[u]
      /\ c \notin Alive /\ c \notin lost /\ t \in Alive /\ status[c] = "DIED"
      /\ ~Find(all_list, c)
  BY <1>1, <1>1, CopyFacts
<1>5. TInv'
  BY <1>1, <1>2, FlagCorrect DEF TTypeOK
<1>6. TypeOK'
  BY <1>1, <1>4, <1>5 DEF TypeOK, TInv, Goto
<1>7. Alive' = Alive
  BY <1>1 DEF Alive
<1>8. AllListExact' /\ LostInv'
  BY <1>1, <1>4, <1>7 DEF ListsInv, AllListExact, LostInv
<1>9. PidsDistinct'
  <2>1. \A u \in Alive \cup lost : pid[u] \in used /\ pid'[u] = pid[u] /\ u # c
    BY <1>1, <1>4 DEF ListsInv, PidsDistinct, Alive
  <2>2. (Alive \cup lost)' = (Alive \cup lost) \cup {c}
    BY <1>1, <1>7
  <2>3. \A u, v \in (Alive \cup lost)' : pid'[u] = pid'[v] => u = v
    BY <1>1, <1>4, <2>1, <2>2 DEF ListsInv, PidsDistinct
  <2>4. used' = {pid'[u] : u \in (Alive \cup lost)'}
    <3>1. {pid'[u] : u \in (Alive \cup lost) \cup {c}} =
            {pid[u] : u \in Alive \cup lost} \cup {pid'[c]}
      BY <2>1, OneMore
    <3>2. used = {pid[u] : u \in Alive \cup lost}
      BY <1>1 DEF ListsInv, PidsDistinct
    <3>. QED  BY <1>4, <2>2, <3>1, <3>2
  <2>. QED  BY <2>3, <2>4 DEF PidsDistinct
<1>10. \A u \in Alive : u \in Thread /\ pid'[u] = pid[u] /\ parent'[u] = parent[u]
  BY <1>4 DEF Alive
<1>11. ParentsAlive'
  BY <1>1, <1>7, <1>10 DEF ListsInv, ParentsAlive, Kernels
<1>12. WaitsForSomeone'
  <2> SUFFICES ASSUME NEW u \in Thread, status[u] = "WAITING"
               PROVE  Children(u)' # {} /\ HangingChildren(u)' = {}
    BY <1>1 DEF WaitsForSomeone
  <2>1. Children(u) # {} /\ HangingChildren(u) = {} /\ u # c
    BY <1>1, <1>4 DEF ListsInv, WaitsForSomeone
  <2>2. Children(u)' = Children(u)
    BY <1>1, <1>4, <2>1 DEF Children
  <2>. QED  BY <1>1, <2>1, <2>2 DEF HangingChildren
<1>13. CallsMatch' /\ FlagsInv'
  BY <1>1, <1>2, <1>3 DEF CallsInv, CallsMatch, FlagsInv, Kernels
<1>14. KernelsInv'
  <2>1. c \notin {Main, Idle, InitProc}
    BY <1>1, <1>4 DEF TInv, SchedInv, IdleSleeps
  <2>. QED  BY <1>1, <1>2, <1>3, <1>4, <2>1 DEF CallsInv, KernelsInv
<1>. QED
  BY <1>5, <1>6, <1>8, <1>9, <1>11, <1>12, <1>13, <1>14, Combine DEF ListsInv, CallsInv

\* The ends of the kernel: an ASSERT of the fork, or the read of the PCB that is gone.
LEMMA StopsInv ==
    ASSUME PInv, NEW t \in Thread,
           SysWaitFaults(t) \/ \E c \in Thread : SysForkStops(t, c)
    PROVE  IInv'
<1>1. TypeOK
  BY DEF PInv
<1>2. CASE SysWaitFaults(t)
  BY <1>1, <1>2 DEF SysWaitFaults, At, Goto, TypeOK, IInv, KnownStops
<1>3. ASSUME NEW c \in Thread, SysForkStops(t, c) PROVE IInv'
  <2>1. panic' = TRUE /\ UNCHANGED <<cur, pc, name>> /\ cur = t /\ pc[t] = "fork"
    BY <1>3 DEF SysForkStops, At
  <2>2. used' = Pids \/ name[t] > 10
    <3>1. name[t] \in Nat
      BY <1>1 DEF TypeOK
    <3>. QED  BY <1>3, <3>1 DEF SysForkStops, CopyPcb
  <2>. QED  BY <2>1, <2>2 DEF IInv, KnownStops
<1>. QED  BY <1>2, <1>3

-----------------------------------------------------------------------------
\* execv sleeps while the disk reads ...
LEMMA LoadBlockInv ==
    ASSUME PInv, NEW t \in Thread, LoadBlock(t) PROVE IInv'
<1> USE ThreadAssumption
<1>1. /\ TInv /\ TTypeOK /\ ListsInv /\ CallsInv /\ TypeOK /\ lost \subseteq Thread
      /\ UNCHANGED <<pc, pid, parent, name, used, all_list, lost, leaked>>
      /\ At(t, "execv") /\ ThreadBlock("BLOCKED")
  BY DEF PInv, TInv, TypeOK, LoadBlock, pvars
<1>2. cur = t /\ status[t] = "RUNNING"
  BY <1>1, Caller
<1>3. /\ TInv' /\ Switched /\ status'[t] = "BLOCKED"
      /\ \A u \in Thread \ {Idle, t} :
            status'[u] = status[u] \/ (status[u] \in Live /\ status'[u] \in Live)
  BY <1>1, <1>2, BlockStep DEF ThreadBlock, Sleeping
<1>4. status[Idle] \in Calm /\ status'[Idle] \in Calm
  BY <1>1, <1>3 DEF TInv, SchedInv, IdleSleeps, Calm
<1>5. Calmly
  BY <1>2, <1>3, <1>4 DEF Calmly, Calm, Live
<1>6. TypeOK'
  BY <1>1, <1>3 DEF TypeOK, TInv
<1>7. cur' \in Thread
  BY <1>3 DEF TInv, TTypeOK
<1>8. FlagsInv' /\ \A u \in Thread : u = cur' /\ pc'[u] # "user" => ~intr'
  BY <1>1, <1>3, <1>7, SwitchFlags
<1>9. ListsInv' /\ CallsInv'
  BY <1>1, <1>5, <1>8, CalmLists, CalmCalls
<1>. QED  BY <1>3, <1>6, <1>9, Combine

\* ... and is woken by the disk's interrupt or by another execv.
LEMMA LoadWakeInv ==
    ASSUME PInv, NEW t \in Thread, LoadWake(t) PROVE IInv'
<1> USE ThreadAssumption
<1>1. /\ TInv /\ TTypeOK /\ ListsInv /\ CallsInv /\ TypeOK /\ lost \subseteq Thread
      /\ UNCHANGED <<pc, pid, parent, name, used, all_list, lost, leaked>>
      /\ status[t] = "BLOCKED" /\ ThreadUnblock(t)
  BY DEF PInv, TInv, TypeOK, LoadWake, pvars
<1>2. TInv'
  BY <1>1, TNextInv DEF TNext
<1>3. /\ \A u \in Thread : status'[u] = IF u = t THEN "READY" ELSE status[u]
      /\ UNCHANGED <<cur, intr, saved>>
  BY <1>1 DEF ThreadUnblock, Unblock, TTypeOK
<1>4. Calmly
  BY <1>1, <1>3 DEF Calmly, Calm
<1>5. TypeOK'
  BY <1>1, <1>2 DEF TypeOK, TInv
<1>6. cur' \in Thread
  BY <1>2 DEF TInv, TTypeOK
<1>7. FlagsInv' /\ \A u \in Thread : u = cur' /\ pc'[u] # "user" => ~intr'
  BY <1>1, <1>3, <1>6, SwitchFlags
<1>8. ListsInv' /\ CallsInv'
  BY <1>1, <1>4, <1>7, CalmLists, CalmCalls
<1>. QED  BY <1>2, <1>5, <1>8, Combine

-----------------------------------------------------------------------------
\* A kernel that has stopped does nothing more.
LEMMA Stopped == panic /\ [Next]_vars => UNCHANGED vars
BY DEF Next, Kernel, CallStep, Call, Return, SysFork, SysForkStops, SysForkNoPage,
       SysForkNoBuffer, SysForkFails, LoadBlock, LoadWake, ThreadUnblock, SysExecvFails, SysExecv,
       SysExit, SysWaitReap, SysWaitFaults, SysWaitNone, SysWaitBlock, At, Tick, IdleBlock, IdleHlt, IntrEnable

LEMMA PNextInv == IInv /\ [Next]_vars => IInv'
<1> SUFFICES ASSUME IInv, [Next]_vars PROVE IInv'
  OBVIOUS
<1>1. CASE UNCHANGED vars
  <2>1. CASE panic
    BY <1>1, <2>1 DEF IInv, vars, tvars, pvars, KnownStops
  <2>2. CASE ~panic
    <3>1. /\ TInv /\ TypeOK /\ TTypeOK /\ ListsInv /\ CallsInv /\ lost \subseteq Thread
          /\ UNCHANGED tvars /\ UNCHANGED <<cur, status, intr, saved>>
          /\ UNCHANGED <<pc, pid, parent, name, used, all_list, lost, leaked>>
      BY <1>1, <2>2 DEF IInv, PInv, TInv, TypeOK, vars, tvars, pvars
    <3>2. TInv'
      BY <3>1, TNextInv
    <3>3. TypeOK'
      BY <3>1, <3>2 DEF TypeOK, TInv
    <3>4. Calmly /\ cur' \in Thread
      BY <3>1 DEF Calmly, TTypeOK
    <3>5. ListsInv' /\ CallsInv'
      BY <3>1, <3>4, CalmLists, CalmCalls, SwitchFlags
    <3>. QED  BY <3>2, <3>3, <3>5, Combine
  <2>. QED  BY <2>1, <2>2
<1>2. CASE panic
  BY <1>1, <1>2, Stopped
<1>3. CASE ~panic /\ Next
  <2>1. PInv
    BY <1>3 DEF IInv
  <2>. QED
    BY <1>3, <2>1, KernelInv, QuietCallInv, WaitBlockInv, WaitReapInv, ExitInv, ForkInv,
       ForkFailsInv, StopsInv, LoadBlockInv, LoadWakeInv DEF Next, CallStep
<1>. QED  BY <1>1, <1>2, <1>3

LEMMA SpecInv == Spec => []IInv
BY PInitInv, PNextInv, PTL DEF Spec

\* For any number of processes and PIDs: thread_all_list holds the living, PIDs are
\* theirs alone although they are reused, parents outlive their children's claims
\* on them, and no exit is missed by a wait.
THEOREM ProcessesConsistent == Spec => []ProcessInv
<1>1. IInv => ProcessInv
  BY DEF IInv, PInv, ProcessInv, ListsInv, CallsInv
<1>. QED  BY <1>1, SpecInv, PTL

\* Whatever the number of processes and PIDs, no ASSERT fails but the two of a fork, of
\* a name that is too long or without a PID left; besides them only thread_exit's read
\* of the PCB it has given back stops the kernel.
THEOREM StopsAreKnown == Spec => []KnownStops
<1>1. IInv => KnownStops
  BY DEF IInv
<1>. QED  BY <1>1, SpecInv, PTL

==============================================================================
