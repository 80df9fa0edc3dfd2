--------------------------------- MODULE Ide ---------------------------------
(***************************************************************************)
(* One channel of the disk driver dev/ide.c: ide_read and ide_write, the   *)
(* disk interrupt, the channel's lock and its semaphore disk_done.         *)
(*                                                                         *)
(* The driver runs with interrupts off, in init_all and in system calls,   *)
(* and gives the CPU away where it blocks or sleeps: in the lock, on       *)
(* disk_done and in busy_wait.  A transfer of more than 256 sectors is     *)
(* several commands.  The lock is reduced to its semaphore, as in IoQueue. *)
(*                                                                         *)
(* The disk and the interrupt controller are not in the repository: disk   *)
(* and irq are modelled from what the driver expects of them.              *)
(***************************************************************************)
EXTENDS Threads

CONSTANTS
    User,       \* the threads that call the driver
    MaxCmds     \* bound: the commands of one call

ASSUME IdeAssumption ==
    /\ User \subseteq Thread \ {Idle}
    /\ MaxCmds \in Nat \ {0}

VARIABLES
    pc,         \* per thread: where it is
    op,         \* per thread: what it calls, "read" or "write"
    cmds,       \* per thread: the commands left for secs_done < sec_cnt
    value, waiters,     \* the semaphore of channel->lock
    done, done_waiters, \* channel->disk_done
    expecting,  \* channel->expecting_intr
    disk,       \* the disk: idle, busy with a command, or wanting a transfer
    irq,        \* the interrupt request the controller has latched
    late        \* constant: the disk signals each sector of a transfer, not only
                \* the first, and the controller keeps such a request for later;
                \* and it may keep busy_wait past its time limit

chan == <<value, waiters, done, done_waiters, expecting, disk, irq, late>>
ivars == <<pc, op, cmds, chan>>
vars == <<tvars, ivars>>

\* ide_init; main is still in init_all, the others are in user mode.
Init ==
    /\ TInit
    /\ pc = [t \in Thread |-> IF t = Main THEN "kernel" ELSE "user"]
    /\ op = [t \in Thread |-> "read"]
    /\ cmds = [t \in Thread |-> 0]
    /\ value = 1 /\ waiters = <<>>
    /\ done = 0 /\ done_waiters = <<>>
    /\ expecting = FALSE
    /\ disk = "idle"
    /\ irq = FALSE
    /\ late \in BOOLEAN

At(t, l) == ~panic /\ cur = t /\ t # Idle /\ pc[t] = l
Goto(t, l) == pc' = [pc EXCEPT ![t] = l]

\* A system call, and its end; for main, the intr_enable after init_all.
Enter(t) ==
    /\ t \in User \ {Main} /\ At(t, "user")
    /\ intr' = FALSE
    /\ Goto(t, "kernel")
    /\ UNCHANGED <<cur, status, ready, ticks, saved, idle_pc, panic, op, cmds, chan>>

Leave(t) ==
    /\ At(t, "kernel")
    /\ intr' = TRUE
    /\ Goto(t, "user")
    /\ UNCHANGED <<cur, status, ready, ticks, saved, idle_pc, panic, op, cmds, chan>>

\* ide_read or ide_write up to lock_acquire
IdeCall(t, o, n) ==
    /\ t \in User /\ At(t, "kernel")
    /\ op' = [op EXCEPT ![t] = o]
    /\ cmds' = [cmds EXCEPT ![t] = n]
    /\ Goto(t, "lock")
    /\ UNCHANGED <<tvars, chan>>

\* lock_acquire: sema_down
LockBlock(t) ==
    /\ At(t, "lock") /\ value = 0
    /\ waiters' = Append(waiters, t)
    /\ Block("BLOCKED", status, ready, Find(waiters, t))
    /\ UNCHANGED <<idle_pc, pc, op, cmds, value, done, done_waiters, expecting, disk, irq, late>>

\* Mutant: the value is not decremented.
LockTakeNothing(t) ==
    /\ At(t, "lock") /\ value # 0
    /\ Goto(t, "cmd")
    /\ UNCHANGED <<tvars, op, cmds, chan>>

LockTake(t) ==
    /\ At(t, "lock") /\ value # 0
    /\ value' = value - 1
    /\ panic' = (value' # 0)
    /\ Goto(t, "cmd")
    /\ UNCHANGED <<cur, status, ready, ticks, intr, saved, idle_pc,
                   op, cmds, waiters, done, done_waiters, expecting, disk, irq, late>>

\* A command reaches the disk, which ignores it while it works on another one.
Command(state) == disk' = IF disk = "idle" THEN state ELSE disk

\* Mutant: cmd_out does not mark the channel.
CmdOutUnmarked(t) ==
    /\ At(t, "cmd") /\ cmds[t] > 0
    /\ \/ op[t] = "read" /\ Command("reading") /\ Goto(t, "down")
       \/ op[t] = "write" /\ Command("accepting") /\ Goto(t, "poll")
    /\ UNCHANGED <<tvars, op, cmds, value, waiters, done, done_waiters, expecting, irq, late>>

\* select_sector and cmd_out.  A write polls the disk, a read sleeps.
CmdOut(t) ==
    /\ At(t, "cmd") /\ cmds[t] > 0
    /\ expecting' = TRUE
    /\ \/ op[t] = "read" /\ Command("reading") /\ Goto(t, "down")
       \/ op[t] = "write" /\ Command("accepting") /\ Goto(t, "poll")
    /\ UNCHANGED <<tvars, op, cmds, value, waiters, done, done_waiters, irq, late>>

\* sema_down(&disk_done)
DoneBlock(t) ==
    /\ At(t, "down") /\ done = 0
    /\ done_waiters' = Append(done_waiters, t)
    /\ Block("BLOCKED", status, ready, Find(done_waiters, t))
    /\ UNCHANGED <<idle_pc, pc, op, cmds, value, waiters, done, expecting, disk, irq, late>>

\* For a read the data are still to come, for a write the command is complete.
DoneTake(t) ==
    /\ At(t, "down") /\ done # 0
    /\ done' = done - 1
    /\ panic' = (done' # 0)
    /\ \/ op[t] = "read" /\ Goto(t, "poll") /\ UNCHANGED cmds
       \/ /\ op[t] = "write" /\ Goto(t, "cmd")
          /\ cmds' = [cmds EXCEPT ![t] = @ - 1]
    /\ UNCHANGED <<cur, status, ready, ticks, intr, saved, idle_pc,
                   op, value, waiters, done_waiters, expecting, disk, irq, late>>

Busy == disk \in {"reading", "accepting", "writing"}

\* busy_wait with BSY set: mtime_sleep gives the CPU away until time has passed.
BusySleep(t) ==
    /\ At(t, "poll") /\ Busy
    /\ ThreadYield
    /\ UNCHANGED ivars

\* busy_wait returns 0 at its time limit: PANIC
BusyGivesUp(t) ==
    /\ At(t, "poll") /\ Busy /\ late
    /\ panic' = TRUE
    /\ UNCHANGED <<cur, status, ready, ticks, intr, saved, idle_pc, ivars>>

\* busy_wait with BSY clear and DRQ set, and read_from_sector.  The disk may ask
\* for attention again for the sectors after the first.
ReadSectors(t) ==
    /\ At(t, "poll") /\ op[t] = "read" /\ disk = "data"
    /\ disk' = "idle"
    /\ irq' \in {irq, irq \/ late}
    /\ cmds' = [cmds EXCEPT ![t] = @ - 1]
    /\ Goto(t, "cmd")
    /\ UNCHANGED <<tvars, op, value, waiters, done, done_waiters, expecting, late>>

\* Mutant: ide_write does not wait for the disk.
WriteNoWait(t) ==
    /\ At(t, "poll") /\ op[t] = "write" /\ disk = "want"
    /\ disk' = "writing"
    /\ cmds' = [cmds EXCEPT ![t] = @ - 1]
    /\ Goto(t, "cmd")
    /\ UNCHANGED <<tvars, op, value, waiters, done, done_waiters, expecting, irq, late>>

\* busy_wait with BSY clear and DRQ set, and write2sector
WriteSectors(t) ==
    /\ At(t, "poll") /\ op[t] = "write" /\ disk = "want"
    /\ disk' = "writing"
    /\ Goto(t, "down")
    /\ UNCHANGED <<tvars, op, cmds, value, waiters, done, done_waiters, expecting, irq, late>>

\* busy_wait returns 0, since DRQ is clear: PANIC
NoData(t) ==
    /\ At(t, "poll")
    /\ ~Busy /\ disk # (IF op[t] = "read" THEN "data" ELSE "want")
    /\ panic' = TRUE
    /\ UNCHANGED <<cur, status, ready, ticks, intr, saved, idle_pc, ivars>>

\* lock_release and the return to the file system
LockRelease(t) ==
    /\ At(t, "cmd") /\ cmds[t] = 0
    /\ Goto(t, "kernel")
    /\ \/ /\ waiters # <<>>
          /\ waiters' = Tail(waiters)
          /\ Unblock(Head(waiters), value # 0)
       \/ /\ waiters = <<>>
          /\ panic' = (value # 0)
          /\ UNCHANGED <<cur, status, ready, ticks, intr, saved, waiters>>
    /\ value' = value + 1
    /\ UNCHANGED <<idle_pc, op, cmds, done, done_waiters, expecting, disk, irq, late>>

\* The disk gets on with its command.
DiskStep ==
    /\ ~panic
    /\ \/ disk = "reading" /\ disk' = "data" /\ irq' = TRUE
       \/ disk = "accepting" /\ disk' = "want" /\ UNCHANGED irq
       \/ disk = "writing" /\ disk' = "idle" /\ irq' = TRUE
    /\ UNCHANGED <<tvars, pc, op, cmds, value, waiters, done, done_waiters, expecting, late>>

\* intr_hd_handler: an interrupt nobody expects is ignored.
HdInterrupt ==
    /\ ~panic /\ intr /\ irq
    /\ irq' = FALSE
    /\ WakeCpu
    /\ expecting' = FALSE
    /\ \/ /\ ~expecting
          /\ UNCHANGED <<cur, status, ready, ticks, intr, saved, panic,
                         done, done_waiters>>
       \/ /\ expecting /\ done_waiters = <<>>
          /\ done' = done + 1
          /\ panic' = (done # 0)
          /\ UNCHANGED <<cur, status, ready, ticks, intr, saved, done_waiters>>
       \/ /\ expecting /\ done_waiters # <<>>
          /\ done' = done + 1
          /\ done_waiters' = Tail(done_waiters)
          /\ Unblock(Head(done_waiters), done # 0)
    /\ UNCHANGED <<pc, op, cmds, value, waiters, disk, late>>

Kernel ==
    /\ \/ Tick \/ IdleBlock \/ IdleHlt
       \/ intr /\ \E t \in User : ThreadStart(t)
    /\ UNCHANGED ivars

CallStep(t) ==
    \/ LockBlock(t) \/ LockTake(t) \/ CmdOut(t) \/ DoneBlock(t) \/ DoneTake(t)
    \/ BusySleep(t) \/ BusyGivesUp(t) \/ ReadSectors(t) \/ WriteSectors(t) \/ NoData(t)
    \/ LockRelease(t)

Next ==
    \/ Kernel \/ DiskStep \/ HdInterrupt
    \/ \E t \in Thread :
          \/ Enter(t) \/ Leave(t) \/ CallStep(t)
          \/ \E o \in {"read", "write"}, n \in 1..MaxCmds : IdeCall(t, o, n)

Spec == Init /\ [][Next]_vars

(***************************************************************************)
(* Fairness: that of the scheduler; the disk completes its command and its *)
(* interrupt is taken; a thread that has the CPU goes on with its call and *)
(* a system call calls the driver only so often.                           *)
(***************************************************************************)
FairSpec ==
    /\ Spec
    /\ SF_vars(Tick /\ UNCHANGED ivars)
    /\ WF_vars(IdleBlock /\ UNCHANGED ivars) /\ WF_vars(IdleHlt /\ UNCHANGED ivars)
    /\ WF_vars(DiskStep) /\ SF_vars(HdInterrupt)
    /\ \A t \in Thread : SF_vars(CallStep(t)) /\ SF_vars(Leave(t))

-----------------------------------------------------------------------------
\* The steps between lock_acquire and lock_release.
Inside == {"cmd", "down", "poll"}

TypeOK ==
    /\ TTypeOK
    /\ pc \in [Thread -> Inside \cup {"user", "kernel", "lock"}]
    /\ op \in [Thread -> {"read", "write"}]
    /\ cmds \in [Thread -> 0..MaxCmds]
    /\ value \in {0, 1} /\ waiters \in Seq(Thread)
    /\ done \in {0, 1} /\ done_waiters \in Seq(Thread)
    /\ expecting \in BOOLEAN /\ irq \in BOOLEAN /\ late \in BOOLEAN
    /\ disk \in {"idle", "reading", "data", "accepting", "want", "writing"}

\* "Each read or write takes the lock, so that a channel always works for the same
\* disk meanwhile" (the comment in intr_hd_handler): one thread at a time is
\* between lock_acquire and lock_release, though it sleeps and yields there, and
\* only that thread ever waits for the disk.
OneOwner ==
    /\ \A s, t \in Thread : pc[s] \in Inside /\ pc[t] \in Inside => s = t
    /\ \A t \in Thread : Find(done_waiters, t) => pc[t] = "down"
    /\ value = 1 <=> \A t \in Thread : pc[t] \notin Inside

\* A sector address or a command is never written while the disk still works on
\* the last command or holds its data.  A late interrupt of an earlier sector is
\* taken for the end of a write and breaks this.
CommandWhenIdle == ~late => \A t \in Thread : pc[t] = "cmd" => disk = "idle"

\* No wake-up by the disk is lost: while the owner sleeps on disk_done an
\* interrupt is expected, and the disk is at work or its interrupt is latched.
DiskWillWake ==
    done_waiters # <<>> =>
        /\ expecting /\ done = 0
        /\ irq \/ disk \in {"reading", "writing"}

\* disk_done stays a binary semaphore, whatever interrupts come late or twice:
\* a signal that is pending belongs to the command of the present owner.
DoneBelongs ==
    /\ done = 1 => ~expecting /\ \E t \in Thread : pc[t] \in {"down", "poll"}
    /\ expecting => \E t \in Thread : pc[t] \in Inside

\* The driver's own state is consistent: the lock has one owner and the signal of
\* disk_done is that owner's, also when interrupts of later sectors come late.
IdeInv == TypeOK /\ OneOwner /\ DoneBelongs

\* Whoever has the lock gives it back: the disk, its interrupt and the sleeping
\* owner never wait for each other.
OwnerFinishes ==
    ~late => \A t \in Thread : pc[t] \in Inside ~> pc[t] \notin Inside
=============================================================================
