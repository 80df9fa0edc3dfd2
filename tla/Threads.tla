------------------------------- MODULE Threads -------------------------------
(***************************************************************************)
(* The thread scheduler of thread/thread.c, the timer interrupt that       *)
(* drives it and the interrupt flag that protects it.  There is one CPU.   *)
(* A step of this module is what the CPU does with interrupts off, or one  *)
(* instruction that matters with interrupts on.                            *)
(*                                                                         *)
(* A failed ASSERT ends in panic_spin with interrupts off: the variable    *)
(* panic is set and no action is enabled any more.                         *)
(***************************************************************************)
EXTENDS Lists

CONSTANTS
    Thread,     \* the PCB pages, those of main and idle among them
    Main,       \* main_thread
    Idle,       \* idle_thread
    InitProc,   \* the PCB of init, the first user process
    Priority    \* task_struct.priority of each thread, in timer ticks

ASSUME ThreadAssumption ==
    /\ Main \in Thread /\ Idle \in Thread /\ InitProc \in Thread
    /\ Main # Idle /\ Main # InitProc /\ Idle # InitProc
    /\ Priority \in [Thread -> Nat]

VARIABLES
    cur,        \* running_thread()
    status,     \* task_struct.status; "DIED" also stands for a free PCB page
    ready,      \* thread_ready_list, the next thread to run first
    ticks,      \* task_struct.ticks, what is left of the time slice
    intr,       \* the interrupt flag: TRUE is INTR_ON
    saved,      \* the interrupt flag a thread gets back when it is switched in
    idle_pc,    \* where the loop of idle() stands
    panic       \* an ASSERT has failed

tvars == <<cur, status, ready, ticks, intr, saved, idle_pc, panic>>

Status == {"RUNNING", "READY", "BLOCKED", "WAITING", "HANGING", "DIED"}

\* The states thread_block accepts and thread_unblock expects.
Sleeping == {"BLOCKED", "WAITING", "HANGING"}

\* The state thread_init leaves: init and idle wait for the CPU, main runs, and
\* interrupts stay off until main() enables them.
TInit ==
    /\ cur = Main
    /\ status = [t \in Thread |-> IF t = Main THEN "RUNNING"
                                  ELSE IF t \in {InitProc, Idle} THEN "READY"
                                  ELSE "DIED"]
    /\ ready = <<InitProc, Idle>>
    /\ ticks = Priority
    /\ intr = FALSE
    /\ saved = [t \in Thread |-> TRUE]
    /\ idle_pc = "block"
    /\ panic = FALSE

\* Mutants of schedule(): it forgets the thread whose slice is over; it puts it
\* first instead of last; the thread switched in keeps the flag it finds.
ScheduleLoses(st, rd, bad) ==
    LET next == IF rd = <<>> THEN Idle ELSE Head(rd)
        st1 == IF st[cur] = "RUNNING" THEN [st EXCEPT ![cur] = "READY"] ELSE st
    IN  /\ cur' = next
        /\ status' = [st1 EXCEPT ![next] = "RUNNING"]
        /\ ready' = IF rd = <<>> THEN <<>> ELSE Tail(rd)
        /\ saved' = [saved EXCEPT ![cur] = intr]
        /\ intr' = saved'[next]
        /\ panic' = bad
        /\ UNCHANGED ticks
ScheduleFront(st, rd, bad) ==
    LET expired == st[cur] = "RUNNING"
        queue == IF expired THEN Push(rd, cur) ELSE rd
        next == IF queue = <<>> THEN Idle ELSE Head(queue)
        st1 == IF expired THEN [st EXCEPT ![cur] = "READY"] ELSE st
    IN  /\ cur' = next
        /\ status' = [st1 EXCEPT ![next] = "RUNNING"]
        /\ ready' = IF queue = <<>> THEN <<>> ELSE Tail(queue)
        /\ ticks' = IF expired THEN [ticks EXCEPT ![cur] = Priority[cur]] ELSE ticks
        /\ saved' = [saved EXCEPT ![cur] = intr]
        /\ intr' = saved'[next]
        /\ panic' = bad
ScheduleFlag(st, rd, bad) ==
    LET expired == st[cur] = "RUNNING"
        queue == IF expired THEN Append(rd, cur) ELSE rd
        next == IF queue = <<>> THEN Idle ELSE Head(queue)
        st1 == IF expired THEN [st EXCEPT ![cur] = "READY"] ELSE st
    IN  /\ cur' = next
        /\ status' = [st1 EXCEPT ![next] = "RUNNING"]
        /\ ready' = IF queue = <<>> THEN <<>> ELSE Tail(queue)
        /\ panic' = bad
        /\ UNCHANGED <<ticks, saved, intr>>

(***************************************************************************)
(* schedule() and switch_to(), called with statuses st and ready list rd;  *)
(* bad says that an ASSERT of the caller has failed.  switch_to leaves the *)
(* flag alone, and what a thread does first once it is switched in is to   *)
(* restore the flag it had, by intr_set_status(old_status) or by iretd.    *)
(***************************************************************************)
Schedule(st, rd, bad) ==
    LET expired == st[cur] = "RUNNING"
        queue == IF expired THEN Append(rd, cur) ELSE rd
        next == IF queue = <<>> THEN Idle ELSE Head(queue)
        st1 == IF expired THEN [st EXCEPT ![cur] = "READY"] ELSE st
    IN  /\ cur' = next
        /\ status' = [st1 EXCEPT ![next] = "RUNNING"]
        /\ ready' = IF queue = <<>> THEN <<>> ELSE Tail(queue)
        /\ ticks' = IF expired THEN [ticks EXCEPT ![cur] = Priority[cur]]
                               ELSE ticks
        /\ saved' = [saved EXCEPT ![cur] = intr]
        /\ intr' = saved'[next]
        /\ panic' = \/ bad
                    \/ expired /\ Find(rd, cur)
                    \/ queue = <<>> /\ st1[Idle] \notin Sleeping

\* thread_block(stat), reached with statuses st and ready list rd
Block(stat, st, rd, bad) == Schedule([st EXCEPT ![cur] = stat], rd, bad)

\* An interrupt ends the hlt of idle().
WakeCpu ==
    idle_pc' = IF cur = Idle /\ idle_pc = "hlt" THEN "block" ELSE idle_pc

\* thread_unblock(t); bad says that an ASSERT of the caller has failed.
Unblock(t, bad) ==
    /\ ready' = Push(ready, t)
    /\ status' = [status EXCEPT ![t] = "READY"]
    /\ panic' = (bad \/ status[t] \notin Sleeping \/ Find(ready, t))
    /\ UNCHANGED <<cur, ticks, intr, saved>>

-----------------------------------------------------------------------------
\* Mutant: the timer handler does not look at the slice before it decrements.
TickAlways ==
    /\ ~panic /\ intr
    /\ WakeCpu
    /\ ticks' = [ticks EXCEPT ![cur] = @ - 1]
    /\ UNCHANGED <<cur, status, ready, intr, saved, panic>>

\* intr_timer_handler; iretd will bring back the enabled flag.
Tick ==
    /\ ~panic /\ intr
    /\ WakeCpu
    /\ IF ticks[cur] = 0
       THEN Schedule(status, ready, FALSE)
       ELSE /\ ticks' = [ticks EXCEPT ![cur] = @ - 1]
            /\ UNCHANGED <<cur, status, ready, intr, saved, panic>>

\* idle(): thread_block(TASK_BLOCKED) ...
IdleBlock ==
    /\ ~panic /\ cur = Idle /\ idle_pc = "block"
    /\ Block("BLOCKED", status, ready, FALSE)
    /\ idle_pc' = "woken"

\* ... and, once it has the CPU again, sti; hlt
IdleHlt ==
    /\ ~panic /\ cur = Idle /\ idle_pc = "woken"
    /\ idle_pc' = "hlt"
    /\ intr' = TRUE
    /\ UNCHANGED <<cur, status, ready, ticks, saved, panic>>

\* intr_disable, and the interrupt gate through which a system call enters
IntrDisable ==
    /\ ~panic /\ cur # Idle /\ intr
    /\ intr' = FALSE
    /\ UNCHANGED <<cur, status, ready, ticks, saved, idle_pc, panic>>

\* intr_enable, and the iretd that ends a system call
IntrEnable ==
    /\ ~panic /\ cur # Idle /\ ~intr
    /\ intr' = TRUE
    /\ UNCHANGED <<cur, status, ready, ticks, saved, idle_pc, panic>>

\* thread_block by any thread but idle.  sys_wait and sys_exit, where a thread
\* waits or hangs, are for user processes, and init calls neither.
ThreadBlock(stat) ==
    /\ ~panic /\ cur # Idle
    /\ stat # "BLOCKED" => cur \notin {Main, InitProc}
    /\ Block(stat, status, ready, FALSE)
    /\ UNCHANGED idle_pc

\* thread_unblock of somebody who waits, by the running thread or by the
\* handler of a device interrupt.  Nobody unblocks a HANGING thread.
ThreadUnblock(t) ==
    /\ ~panic /\ t # Idle /\ status[t] \in {"BLOCKED", "WAITING"}
    /\ cur = Idle => intr
    /\ WakeCpu
    /\ Unblock(t, FALSE)

\* thread_yield: schedule() finds the status READY, so the slice is not renewed.
ThreadYield ==
    /\ ~panic /\ cur # Idle
    /\ Schedule([status EXCEPT ![cur] = "READY"], Append(ready, cur),
                Find(ready, cur))
    /\ UNCHANGED idle_pc

\* Mutant: a new thread is pushed instead of appended.
StartFront(t) ==
    /\ ~panic /\ cur # Idle /\ status[t] = "DIED"
    /\ status' = [status EXCEPT ![t] = "READY"]
    /\ ready' = Push(ready, t)
    /\ ticks' = [ticks EXCEPT ![t] = Priority[t]]
    /\ saved' = [saved EXCEPT ![t] = TRUE]
    /\ panic' = Find(ready, t)
    /\ UNCHANGED <<cur, intr, idle_pc>>

\* thread_start, and the end of process_execute and sys_fork: a fresh PCB goes
\* to the end of the ready list; its first instructions enable interrupts.
ThreadStart(t) ==
    /\ ~panic /\ cur # Idle /\ status[t] = "DIED"
    /\ status' = [status EXCEPT ![t] = "READY"]
    /\ ready' = Append(ready, t)
    /\ ticks' = [ticks EXCEPT ![t] = Priority[t]]
    /\ saved' = [saved EXCEPT ![t] = TRUE]
    /\ panic' = Find(ready, t)
    /\ UNCHANGED <<cur, intr, idle_pc>>

\* thread_exit(t, 0), which sys_wait calls for a child that hangs
ThreadExit(t) ==
    /\ ~panic /\ cur # Idle /\ status[t] = "HANGING"
    /\ status' = [status EXCEPT ![t] = "DIED"]
    /\ ready' = IF Find(ready, t) THEN Remove(ready, t) ELSE ready
    /\ intr' = FALSE
    /\ UNCHANGED <<cur, ticks, saved, idle_pc, panic>>

TNext ==
    \/ Tick \/ IdleBlock \/ IdleHlt
    \/ IntrDisable \/ IntrEnable
    \/ ThreadYield
    \/ \E stat \in Sleeping : ThreadBlock(stat)
    \/ \E t \in Thread : ThreadUnblock(t) \/ ThreadStart(t) \/ ThreadExit(t)

TSpec == TInit /\ [][TNext]_tvars

(***************************************************************************)
(* Fairness.  The PIC latches the timer interrupt, so it is taken if the   *)
(* flag is on again and again; idle runs its loop whenever it has the CPU; *)
(* a system call or a section with interrupts off comes to its end.        *)
(***************************************************************************)
TFairSpec ==
    /\ TSpec
    /\ SF_tvars(Tick)
    /\ WF_tvars(IdleBlock) /\ WF_tvars(IdleHlt) /\ WF_tvars(IntrEnable)

-----------------------------------------------------------------------------
TTypeOK ==
    /\ cur \in Thread
    /\ status \in [Thread -> Status]
    /\ ready \in Seq(Thread)
    /\ ticks \in [Thread -> Nat]
    /\ intr \in BOOLEAN
    /\ saved \in [Thread -> BOOLEAN]
    /\ idle_pc \in {"block", "woken", "hlt"}
    /\ panic \in BOOLEAN

\* The thread on the CPU is the only one marked TASK_RUNNING.
OneRunning == \A t \in Thread : status[t] = "RUNNING" <=> t = cur

\* The ready list holds each TASK_READY thread once and nobody else.
ReadyExact ==
    /\ \A t \in Thread : status[t] = "READY" <=> Find(ready, t)
    /\ NoDup(ready)

\* What schedule() relies on when it finds no ready thread: idle is never in a
\* sleep that thread_unblock(idle_thread) would not end, and a dead or hanging
\* PCB is never that of a kernel thread or of init.
IdleSleeps ==
    /\ status[Idle] \in {"RUNNING", "READY", "BLOCKED"}
    /\ \A t \in {Main, InitProc} : status[t] \in {"RUNNING", "READY", "BLOCKED"}

\* None of the ASSERTs of thread.c fails, in whatever order threads block, are
\* woken, yield, are preempted, start and exit.
NoPanic == ~panic

\* The comment in idle() wants interrupts to be on when hlt is executed: nor is
\* idle's loop ever entered with interrupts off.
HltInterruptible == cur = Idle => intr

\* The inductive invariant behind all of the above: the flag idle gets back is
\* always the enabled one.
SchedInv == OneRunning /\ ReadyExact /\ IdleSleeps /\ NoPanic
            /\ saved[Idle] /\ HltInterruptible

\* Two threads that stay in the ready list keep their order, and the only thread
\* that enters it ahead of others is one that thread_unblock has just woken: a
\* thread that yields, is preempted or is new queues up behind all of them.
FifoStep ==
    \A s, t \in Thread :
        /\ s # t /\ Find(ready, s) /\ Find(ready', s) /\ Find(ready', t)
        /\ Position(ready', t) < Position(ready', s)
        => \/ Find(ready, t) /\ Position(ready, t) < Position(ready, s)
           \/ status[t] \in Sleeping
NoOvertaking == [][FifoStep]_tvars

\* A ready thread is starved only by an endless stream of wake-ups, each of
\* which puts a woken thread in front of it.
WakeUp == \E t \in Thread \ {Idle} : status[t] \in Sleeping /\ status'[t] = "READY"
StarvedOnlyByWakeups ==
    <>[][~WakeUp]_tvars =>
        \A t \in Thread : status[t] = "READY" ~> status[t] # "READY"

\* The list and the status fields implement the abstract scheduler.
Abstract == INSTANCE Scheduler WITH
    running <- cur,
    runnable <- {t \in Thread : Find(ready, t)},
    asleep <- {t \in Thread : status[t] \in Sleeping}
AbstractScheduler == Abstract!SSpec
==============================================================================
