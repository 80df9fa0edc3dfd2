------------------------------- MODULE Process -------------------------------
(***************************************************************************)
(* fork, execv, exit and wait (userproc/fork.c, exec.c, wait_exit.c), the  *)
(* PID pool and thread_all_list of thread/thread.c, on top of the          *)
(* scheduler of Threads.                                                   *)
(*                                                                         *)
(* A system call enters through an interrupt gate and runs with interrupts *)
(* off to its end or to a thread_block.  Call is the entry, Return the     *)
(* iretd; what the call does between two blocks is one step.  pid_lock is  *)
(* not modelled: with interrupts off nobody ever finds it taken.  Exit     *)
(* codes are handed from exit to wait as they are and are left out.        *)
(***************************************************************************)
EXTENDS Threads

CONSTANTS
    PidCount,   \* the number of bits of pid_pool
    PathLen,    \* the lengths of the paths given to execv
    NameBound   \* bound: processes with longer names do not fork (10: none that panics)

ASSUME ProcessAssumption ==
    /\ PidCount \in Nat /\ PidCount >= 3
    /\ PathLen \subseteq Nat /\ NameBound \in Nat

VARIABLES
    pc,         \* per thread: in user mode, or in which call
    pid,        \* task_struct.pid
    parent,     \* task_struct.parent_pid
    name,       \* the length of task_struct.name
    used,       \* the PIDs whose bit is set in pid_pool
    all_list,   \* thread_all_list
    lost,       \* PCB pages a failed fork has left allocated, with a PID
    leaked      \* PCB pages it has left before they got one

pvars == <<pc, pid, parent, name, used, all_list, lost, leaked>>
vars == <<tvars, pvars>>

Pids == 1..PidCount
NoPid == 0      \* the parent_pid -1, and the PID of a PCB not yet used
InitPid == 1

\* thread_init: process_execute(init), make_main_thread, thread_start(idle)
Init ==
    /\ TInit
    /\ pc = [t \in Thread |-> "user"]
    /\ pid = [t \in Thread |-> CASE t = InitProc -> InitPid [] t = Main -> 2
                                 [] t = Idle -> 3 [] OTHER -> NoPid]
    /\ parent = [t \in Thread |-> NoPid]
    /\ name = [t \in Thread |-> 4]
    /\ used = {1, 2, 3}
    /\ all_list = <<InitProc, Main, Idle>>
    /\ lost = {} /\ leaked = {}

\* The thread runs in user mode, or is at the given call.
At(t, l) == ~panic /\ cur = t /\ t \notin {Main, Idle} /\ pc[t] = l
Goto(t, l) == pc' = [pc EXCEPT ![t] = l]

\* Those in thread_all_list for which find_child, find_hanging_child or pid_check
\* return 1
Children(t) == {c \in Thread : Find(all_list, c) /\ parent[c] = pid[t]}
HangingChildren(t) == {c \in Children(t) : status[c] = "HANGING"}
WithPid(p) == {s \in Thread : Find(all_list, s) /\ pid[s] = p}

\* bitmap_scan(&pid_pool.pid_bitmap, 1)
FreePid == CHOOSE p \in Pids \ used : \A r \in Pids \ used : p <= r

\* A page of the bounded set Thread that get_kernel_pages may return.
Free(c) == status[c] = "DIED" /\ c \notin lost \cup leaked

\* A system call: the interrupt gate clears the flag.  init forks once and never
\* calls again.
Call(t, call) ==
    /\ At(t, "user") /\ intr
    /\ t = InitProc => call = "fork" /\ Len(all_list) = 3
    /\ call = "fork" => name[t] <= NameBound /\ \E c \in Thread : Free(c)
    /\ intr' = FALSE
    /\ Goto(t, call)
    /\ UNCHANGED <<cur, status, ready, ticks, saved, idle_pc, panic,
                   pid, parent, name, used, all_list, lost, leaked>>

\* iretd
Return(t) ==
    /\ At(t, "return")
    /\ intr' = TRUE
    /\ Goto(t, "user")
    /\ UNCHANGED <<cur, status, ready, ticks, saved, idle_pc, panic,
                   pid, parent, name, used, all_list, lost, leaked>>

\* copy_pcb_vaddrbitmap_stack0 up to its first return: the PCB is copied to page c
\* and gets a PID and a parent; with every PID taken bitmap_scan's ASSERT fails.
CopyPcb(t, c) ==
    /\ pid' = [pid EXCEPT ![c] = IF used = Pids THEN NoPid ELSE FreePid]
    /\ used' = IF used = Pids THEN used ELSE used \cup {FreePid}
    /\ parent' = [parent EXCEPT ![c] = pid[t]]

\* sys_fork into the free page c.  "_fork" is appended to a name whose length
\* has to be less than 11.
SysFork(t, c) ==
    /\ At(t, "fork") /\ Free(c) /\ used # Pids /\ name[t] < 11
    /\ CopyPcb(t, c)
    /\ name' = [name EXCEPT ![c] = name[t] + 5]
    /\ all_list' = Append(all_list, c)
    /\ pc' = [pc EXCEPT ![t] = "return", ![c] = "user"]
    /\ status' = [status EXCEPT ![c] = "READY"]
    /\ ready' = Append(ready, c)
    /\ ticks' = [ticks EXCEPT ![c] = Priority[c]]
    /\ saved' = [saved EXCEPT ![c] = TRUE]
    /\ panic' = (Find(ready, c) \/ Find(all_list, c))
    /\ UNCHANGED <<cur, intr, idle_pc, lost, leaked>>

\* The fork ends in an ASSERT: no PID, or a name that is too long.
SysForkStops(t, c) ==
    /\ At(t, "fork") /\ Free(c) /\ (used = Pids \/ name[t] >= 11)
    /\ CopyPcb(t, c)
    /\ panic' = TRUE
    /\ UNCHANGED <<cur, status, ready, ticks, intr, saved, idle_pc, pc, name, all_list,
                   lost, leaked>>

\* sys_fork returns -1 when get_kernel_pages has no page for the PCB ...
SysForkNoPage(t) ==
    /\ At(t, "fork")
    /\ Goto(t, "return")
    /\ UNCHANGED <<tvars, pid, parent, name, used, all_list, lost, leaked>>

\* ... or none for buf_page, and the page of the PCB, all zeros, is not given back ...
SysForkNoBuffer(t, c) ==
    /\ At(t, "fork") /\ Free(c)
    /\ leaked' = leaked \cup {c}
    /\ Goto(t, "return")
    /\ UNCHANGED <<tvars, pid, parent, name, used, all_list, lost>>

\* ... or none for the child's bitmap or, after the test of the name, for its page
\* directory: neither the page nor the PID is given back.
SysForkFails(t, c) ==
    /\ At(t, "fork") /\ Free(c) /\ used # Pids
    /\ CopyPcb(t, c)
    /\ lost' = lost \cup {c}
    /\ Goto(t, "return")
    /\ UNCHANGED <<tvars, name, all_list, leaked>>

\* sys_execv: load reads the program from the disk, and in every read sleeps until
\* the disk's interrupt or, for the channel's lock, until another execv releases it.
LoadBlock(t) ==
    /\ At(t, "execv")
    /\ ThreadBlock("BLOCKED")
    /\ UNCHANGED pvars
LoadWake(t) ==
    /\ pc[t] = "execv" /\ status[t] = "BLOCKED"
    /\ intr \/ pc[cur] = "execv"
    /\ ThreadUnblock(t)
    /\ UNCHANGED pvars

\* load returns -1, or the program, whose path has length n, is there; TASK_NAME_LEN
\* is 16.
SysExecvFails(t) ==
    /\ At(t, "execv")
    /\ Goto(t, "return")
    /\ UNCHANGED <<tvars, pid, parent, name, used, all_list, lost, leaked>>
SysExecv(t, n) ==
    /\ At(t, "execv")
    /\ name' = [name EXCEPT ![t] = IF n > 15 THEN 15 ELSE n]
    /\ Goto(t, "return")
    /\ UNCHANGED <<tvars, pid, parent, used, all_list, lost, leaked>>

\* Mutants: sys_exit does not give its children to init; it does not look after
\* the parent.
ExitKeepsChildren(t) ==
    /\ At(t, "exit")
    /\ LET p == Traversal(all_list, WithPid(parent[t]))
       IN  IF status[p] = "WAITING"
           THEN Block("HANGING", [status EXCEPT ![p] = "READY"], Push(ready, p), FALSE)
           ELSE Block("HANGING", status, ready, FALSE)
    /\ UNCHANGED <<idle_pc, pc, pid, parent, name, used, all_list, lost, leaked>>
ExitWakesNobody(t) ==
    /\ At(t, "exit")
    /\ parent' = [c \in Thread |-> IF Find(all_list, c) /\ parent[c] = pid[t]
                                   THEN InitPid ELSE parent[c]]
    /\ Block("HANGING", status, ready, FALSE)
    /\ UNCHANGED <<idle_pc, pc, pid, name, used, all_list, lost, leaked>>

\* Mutant: sys_exit wakes its parent without a look at its status.
ExitWakesAlways(t) ==
    /\ At(t, "exit")
    /\ parent' = [c \in Thread |-> IF Find(all_list, c) /\ parent[c] = pid[t]
                                   THEN InitPid ELSE parent[c]]
    /\ LET p == Traversal(all_list, WithPid(parent'[t]))
       IN  Block("HANGING", [status EXCEPT ![p] = "READY"], Push(ready, p), Find(ready, p))
    /\ UNCHANGED <<idle_pc, pc, pid, name, used, all_list, lost, leaked>>

\* sys_exit: init adopts the children, a waiting parent wakes up, and the process
\* hangs until it is reaped.
SysExit(t) ==
    /\ At(t, "exit")
    /\ parent' = [c \in Thread |-> IF Find(all_list, c) /\ parent[c] = pid[t]
                                   THEN InitPid ELSE parent[c]]
    /\ LET found == WithPid(parent'[t])
           bad == parent[t] = NoPid \/ found = {}
           p == Traversal(all_list, found)
       IN  IF ~bad /\ status[p] = "WAITING"
           THEN Block("HANGING", [status EXCEPT ![p] = "READY"], Push(ready, p),
                      Find(ready, p))
           ELSE Block("HANGING", status, ready, bad)
    /\ UNCHANGED <<idle_pc, pc, pid, name, used, all_list, lost, leaked>>

\* sys_wait: thread_exit for the first child that hangs.  It reads the PID in the PCB
\* after it has given back the PCB's page: mfree_page leaves the old mapping in the
\* TLB (memory.c:475), so the read works while it is there ...
SysWaitReap(t) ==
    /\ At(t, "wait") /\ HangingChildren(t) # {}
    /\ LET c == Traversal(all_list, HangingChildren(t))
       IN  /\ ThreadExit(c)
           /\ all_list' = Remove(all_list, c)
           /\ used' = used \ {pid[c]}
    /\ Goto(t, "return")
    /\ UNCHANGED <<pid, parent, name, lost, leaked>>

\* ... and is a page fault, in whose handler the kernel stays, once it is not ...
SysWaitFaults(t) ==
    /\ At(t, "wait") /\ HangingChildren(t) # {}
    /\ LET c == Traversal(all_list, HangingChildren(t))
       IN  /\ status' = [status EXCEPT ![c] = "DIED"]
           /\ all_list' = Remove(all_list, c)
    /\ panic' = TRUE
    /\ Goto(t, "fault")
    /\ UNCHANGED <<cur, ready, ticks, intr, saved, idle_pc, pid, parent, name, used, lost,
                   leaked>>

\* ... or -1 without children ...
SysWaitNone(t) ==
    /\ At(t, "wait") /\ Children(t) = {}
    /\ Goto(t, "return")
    /\ UNCHANGED <<tvars, pid, parent, name, used, all_list, lost, leaked>>

\* ... or sleep until one of them exits, and look again.
SysWaitBlock(t) ==
    /\ At(t, "wait") /\ HangingChildren(t) = {} /\ Children(t) # {}
    /\ ThreadBlock("WAITING")
    /\ UNCHANGED pvars

Kernel ==
    /\ Tick \/ IdleBlock \/ IdleHlt \/ (cur = Main /\ IntrEnable)
    /\ UNCHANGED pvars

CallStep(t) ==
    \/ Return(t) \/ SysExit(t)
    \/ SysWaitReap(t) \/ SysWaitFaults(t) \/ SysWaitNone(t) \/ SysWaitBlock(t)
    \/ SysForkNoPage(t)
    \/ \E c \in Thread : \/ SysFork(t, c) \/ SysForkStops(t, c)
                          \/ SysForkNoBuffer(t, c) \/ SysForkFails(t, c)
    \/ LoadBlock(t) \/ SysExecvFails(t)
    \/ \E n \in PathLen : SysExecv(t, n)

Next ==
    \/ Kernel
    \/ \E t \in Thread :
          \/ CallStep(t) \/ LoadWake(t)
          \/ \E call \in {"fork", "execv", "exit", "wait"} : Call(t, call)

Spec == Init /\ [][Next]_vars

(***************************************************************************)
(* Fairness: that of the scheduler, and a call goes on whenever its        *)
(* process has the CPU.  No process has to call anything.                  *)
(***************************************************************************)
FairSpec ==
    /\ Spec
    /\ SF_vars(Tick /\ UNCHANGED pvars)
    /\ WF_vars(IdleBlock /\ UNCHANGED pvars) /\ WF_vars(IdleHlt /\ UNCHANGED pvars)
    /\ WF_vars(cur = Main /\ IntrEnable /\ UNCHANGED pvars)
    /\ \A t \in Thread : SF_vars(CallStep(t))

-----------------------------------------------------------------------------
TypeOK ==
    /\ TTypeOK
    /\ pc \in [Thread -> {"user", "fork", "execv", "exit", "wait", "return", "fault"}]
    /\ pid \in [Thread -> Pids \cup {NoPid}]
    /\ parent \in [Thread -> Pids \cup {NoPid}]
    /\ name \in [Thread -> Nat]
    /\ used \subseteq Pids
    /\ all_list \in Seq(Thread)
    /\ lost \subseteq Thread /\ leaked \subseteq Thread

Alive == {t \in Thread : status[t] # "DIED"}

\* thread_all_list holds the PCB of every process that has not been reaped, once:
\* no fork, exit or wait leaves one behind or links one twice.
AllListExact ==
    /\ \A t \in Thread : Find(all_list, t) <=> t \in Alive
    /\ NoDup(all_list)

\* A PID names one process, although PIDs are reused as soon as sys_wait gives
\* them back; the bits set in the pool are those of processes and of failed forks.
PidsDistinct ==
    /\ \A s, t \in Alive \cup lost : pid[s] = pid[t] => s = t
    /\ used = {pid[t] : t \in Alive \cup lost}

\* The parent of a process is a process that has not called exit.  So the PID of
\* a reaped parent is never handed to a stranger that would inherit its children,
\* and pid2thread in sys_exit finds the parent.
Kernels == {Main, Idle, InitProc}
ParentsAlive ==
    \A c \in Alive \ Kernels :
        \E p \in Alive : pid[p] = parent[c] /\ status[p] # "HANGING" /\ p # c

\* No exit is missed: a process that sleeps in sys_wait has a child to wait for,
\* and none of its children has exited already.
WaitsForSomeone ==
    \A t \in Thread : status[t] = "WAITING" =>
        Children(t) # {} /\ HangingChildren(t) = {}

\* A process hangs only in sys_exit and waits only in sys_wait; idle and main make
\* no calls, and a PCB that is not in use is not in the middle of one.
CallsMatch ==
    /\ \A t \in Thread : status[t] = "WAITING" => pc[t] = "wait"
    /\ \A t \in Thread : status[t] = "HANGING" => pc[t] = "exit" /\ t \notin Kernels
    /\ \A t \in Thread : t = cur /\ pc[t] # "user" => ~intr

\* The parts together: PIDs, parents, the list of processes and the sleepers in
\* sys_wait agree through every order of fork, execv, exit and wait.  Of a kernel
\* that has stopped nothing is said.
ProcessInv ==
    panic \/ (/\ TypeOK /\ AllListExact /\ PidsDistinct /\ ParentsAlive /\ WaitsForSomeone
             /\ CallsMatch)

\* No order of calls makes an ASSERT of the scheduler, of the lists or of sys_exit
\* fail.  What stops the kernel is a fork: of a process two forks or more away from
\* the last execv, to whose name copy_pcb_vaddrbitmap_stack0 appends "_fork", or one
\* that finds no free PID, because init reaps none of the processes it adopts; or it
\* is the read of a freed PCB in thread_exit.
KnownStops ==
    panic => \/ pc[cur] = "fork" /\ (name[cur] > 10 \/ used = Pids)
             \/ pc[cur] = "fault"

\* sys_wait of a parent whose child has exited comes back, unless the kernel stops or
\* there is no end of processes woken from a read of the disk, each of which goes to
\* the front of the ready list.
WakeFromDisk == \E t \in Thread : LoadWake(t)
WaitReturns ==
    <>[][~WakeFromDisk]_vars =>
        \A t \in Thread :
            (pc[t] = "wait" /\ HangingChildren(t) # {}) ~> (pc[t] # "wait" \/ panic)
==============================================================================
