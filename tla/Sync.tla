-------------------------------- MODULE Sync ---------------------------------
(***************************************************************************)
(* One struct lock of thread/sync.c and the binary semaphore inside it,    *)
(* used by threads that the scheduler of Threads interleaves.              *)
(*                                                                         *)
(* A system call runs with interrupts off, so it keeps the CPU until it    *)
(* blocks; a kernel thread runs with interrupts on and can be preempted    *)
(* between any two of the assignments of lock_acquire and lock_release.    *)
(* pc[t] says which of them thread t executes next.                        *)
(***************************************************************************)
EXTENDS Threads

CONSTANTS
    NULL,       \* the holder of a free lock
    MaxRepeat   \* bound: how often a thread acquires the lock it holds

ASSUME SyncAssumption == NULL \notin Thread /\ MaxRepeat \in Nat \ {0}

VARIABLES
    pc,         \* per thread, the next step of lock_acquire or lock_release
    old,        \* old_status of sema_down
    value,      \* semaphore.value
    waiters,    \* semaphore.waiters
    holder,     \* lock.holder
    repeat      \* lock.holder_repeat_nr

lvars == <<pc, old, value, waiters, holder, repeat>>
vars == <<tvars, lvars>>

\* lock_init and sema_init(1)
Init ==
    /\ TInit
    /\ pc = [t \in Thread |-> "out"]
    /\ old = [t \in Thread |-> TRUE]
    /\ value = 1
    /\ waiters = <<>>
    /\ holder = NULL
    /\ repeat = 0

\* Thread t is on the CPU and its next step is l.
At(t, l) == ~panic /\ cur = t /\ t # Idle /\ pc[t] = l

Goto(t, l) == pc' = [pc EXCEPT ![t] = l]

\* lock_acquire compares the holder with itself; a nested call only counts.
LockAcquire(t) ==
    /\ At(t, "out") \/ At(t, "cs")
    /\ \/ /\ holder # t
          /\ Goto(t, "down")
          /\ UNCHANGED repeat
       \/ /\ holder = t /\ repeat < MaxRepeat
          /\ repeat' = repeat + 1
          /\ Goto(t, "cs")
    /\ UNCHANGED <<tvars, old, value, waiters, holder>>

\* sema_down: intr_disable ...
SemaDownEnter(t) ==
    /\ At(t, "down")
    /\ old' = [old EXCEPT ![t] = intr]
    /\ intr' = FALSE
    /\ Goto(t, "wait")
    /\ UNCHANGED <<cur, status, ready, ticks, saved, idle_pc, panic,
                   value, waiters, holder, repeat>>

\* Mutant: the thread blocks before it is on the list.
BlockUnlisted(t) ==
    /\ At(t, "wait") /\ value = 0
    /\ Block("BLOCKED", status, ready, Find(waiters, t))
    /\ UNCHANGED <<idle_pc, pc, old, value, waiters, holder, repeat>>

\* ... while the value is 0, queue up and block ...
SemaDownBlock(t) ==
    /\ At(t, "wait") /\ value = 0
    /\ waiters' = Append(waiters, t)
    /\ Block("BLOCKED", status, ready, Find(waiters, t))
    /\ UNCHANGED <<idle_pc, pc, old, value, holder, repeat>>

\* Mutants: the value is decremented without a look at it, or not at all.
TakeUnchecked(t) ==
    /\ At(t, "wait")
    /\ value' = value - 1
    /\ panic' = (value' # 0)
    /\ intr' = old[t]
    /\ Goto(t, "own")
    /\ UNCHANGED <<cur, status, ready, ticks, saved, idle_pc,
                   old, waiters, holder, repeat>>
TakeNothing(t) ==
    /\ At(t, "wait") /\ value # 0
    /\ intr' = old[t]
    /\ Goto(t, "own")
    /\ UNCHANGED <<cur, status, ready, ticks, saved, idle_pc, panic,
                   value, old, waiters, holder, repeat>>

\* ... then take it and restore the interrupt flag.
SemaDownTake(t) ==
    /\ At(t, "wait") /\ value # 0
    /\ value' = value - 1
    /\ panic' = (value' # 0)
    /\ intr' = old[t]
    /\ Goto(t, "own")
    /\ UNCHANGED <<cur, status, ready, ticks, saved, idle_pc,
                   old, waiters, holder, repeat>>

\* The rest of lock_acquire: the holder, then the count.
SetHolder(t) ==
    /\ At(t, "own")
    /\ holder' = t
    /\ Goto(t, "count")
    /\ UNCHANGED <<tvars, old, value, waiters, repeat>>

SetRepeat(t) ==
    /\ At(t, "count")
    /\ panic' = (repeat # 0)
    /\ repeat' = 1
    /\ Goto(t, "cs")
    /\ UNCHANGED <<cur, status, ready, ticks, intr, saved, idle_pc,
                   old, value, waiters, holder>>

\* lock_release, up to the point where an outermost call gives the lock up
LockRelease(t) ==
    /\ At(t, "cs")
    /\ panic' = (holder # t \/ repeat = 0)
    /\ \/ /\ repeat > 1
          /\ repeat' = repeat - 1
          /\ UNCHANGED pc
       \/ /\ repeat <= 1
          /\ Goto(t, "clear")
          /\ UNCHANGED repeat
    /\ UNCHANGED <<cur, status, ready, ticks, intr, saved, idle_pc,
                   old, value, waiters, holder>>

ClearHolder(t) ==
    /\ At(t, "clear")
    /\ holder' = NULL
    /\ Goto(t, "reset")
    /\ UNCHANGED <<tvars, old, value, waiters, repeat>>

ClearRepeat(t) ==
    /\ At(t, "reset")
    /\ repeat' = 0
    /\ Goto(t, "up")
    /\ UNCHANGED <<tvars, old, value, waiters, holder>>

\* Mutant: sema_up wakes nobody.
UpWakesNobody(t) ==
    /\ At(t, "up")
    /\ value' = value + 1
    /\ Goto(t, "out")
    /\ UNCHANGED <<tvars, waiters, old, holder, repeat>>

\* sema_up: make the first waiter ready; it competes for the value again.
SemaUp(t) ==
    /\ At(t, "up")
    /\ \/ /\ waiters # <<>>
          /\ waiters' = Tail(waiters)
          /\ Unblock(Head(waiters), value # 0)
       \/ /\ waiters = <<>>
          /\ panic' = (value # 0)
          /\ UNCHANGED <<cur, status, ready, ticks, intr, saved, waiters>>
    /\ value' = value + 1
    /\ Goto(t, "out")
    /\ UNCHANGED <<idle_pc, old, holder, repeat>>

LockStep(t) ==
    \/ SemaDownEnter(t) \/ SemaDownBlock(t) \/ SemaDownTake(t)
    \/ SetHolder(t) \/ SetRepeat(t)
    \/ LockRelease(t) \/ ClearHolder(t) \/ ClearRepeat(t) \/ SemaUp(t)

\* Between a system call's entry and exit, and wherever a thread may yield
\* (mtime_sleep does, with a lock held), it does nothing to the lock.
Elsewhere ==
    /\ \/ pc[cur] = "out" /\ (IntrDisable \/ IntrEnable)
       \/ pc[cur] \in {"out", "cs"} /\ ThreadYield
       \/ pc[cur] = "out" /\ \E t \in Thread : ThreadStart(t)
    /\ UNCHANGED lvars

Kernel == (Tick \/ IdleBlock \/ IdleHlt) /\ UNCHANGED lvars

Next ==
    \/ Kernel
    \/ Elsewhere
    \/ \E t \in Thread : LockAcquire(t) \/ LockStep(t)

Spec == Init /\ [][Next]_vars

(***************************************************************************)
(* Fairness: that of Threads, and a thread that gets the CPU again and     *)
(* again executes its next instruction and leaves its critical section.    *)
(***************************************************************************)
FairSpec ==
    /\ Spec
    /\ SF_vars(Tick /\ UNCHANGED lvars)
    /\ WF_vars(IdleBlock /\ UNCHANGED lvars) /\ WF_vars(IdleHlt /\ UNCHANGED lvars)
    /\ SF_vars(pc[cur] = "out" /\ IntrEnable /\ UNCHANGED lvars)
    /\ \A t \in Thread : SF_vars(LockStep(t))

-----------------------------------------------------------------------------
\* The steps at which a thread owns the semaphore's value.
Owning == {"own", "count", "cs", "clear", "reset", "up"}
Label == Owning \cup {"out", "down", "wait"}

TypeOK ==
    /\ TTypeOK
    /\ pc \in [Thread -> Label]
    /\ old \in [Thread -> BOOLEAN]
    /\ value \in {0, 1}
    /\ waiters \in Seq(Thread)
    /\ holder \in Thread \cup {NULL}
    /\ repeat \in 0..MaxRepeat

\* The lock excludes: two threads never own it at once, although holder and
\* holder_repeat_nr are written with interrupts on.
MutualExclusion ==
    \A s, t \in Thread : pc[s] \in Owning /\ pc[t] \in Owning => s = t

\* value, holder and repeat agree with who owns the lock, at every instruction
\* between which a preemption can fall.
LockState ==
    /\ value = 1 <=> \A t \in Thread : pc[t] \notin Owning
    /\ \A t \in Thread : holder = t <=> pc[t] \in {"count", "cs", "clear"}
    /\ repeat > 0 <=> \E t \in Thread : pc[t] \in {"cs", "clear", "reset"}
    /\ \A t \in Thread : pc[t] \in {"clear", "reset"} => repeat = 1

\* The threads on the semaphore's list are those that block in sema_down, each
\* once.  Their general_tag is then not in the ready list, which uses the same
\* tag.
WaitersBlocked ==
    /\ \A t \in Thread : Find(waiters, t) <=> status[t] = "BLOCKED" /\ t # Idle
    /\ \A t \in Thread : Find(waiters, t) => pc[t] = "wait"
    /\ NoDup(waiters)

\* No wake-up is lost: when the lock is free and somebody is queued on it, a
\* thread that sema_up has woken is still on its way to take the value.
NoLostWakeup ==
    value = 1 /\ waiters # <<>> =>
        \E t \in Thread : pc[t] = "wait" /\ status[t] \in {"READY", "RUNNING"}

\* A sleeping thread that is no process waiting in sys_wait: nobody else here.
OnlyBlocked ==
    /\ \A t \in Thread : status[t] \notin {"WAITING", "HANGING"}
    /\ \A t \in Thread : status[t] = "DIED" => pc[t] = "out"
    /\ pc[Idle] = "out"

\* The inductive invariant of the lock.
SyncInv == MutualExclusion /\ LockState /\ WaitersBlocked /\ NoLostWakeup
           /\ OnlyBlocked

\* Whenever a thread queues up in sema_down, somebody gets into the critical
\* section: the queue and the value never leave everybody asleep.
LockLive == (\E t \in Thread : pc[t] = "wait") ~> (\E t \in Thread : pc[t] = "cs")
==============================================================================
