------------------------------- MODULE IoQueue -------------------------------
(***************************************************************************)
(* One struct ioqueue of dev/ioqueue.c with everybody who uses it: the     *)
(* keyboard buffer that the keyboard interrupt fills and sys_read empties, *)
(* or, if Keyboard is FALSE, a pipe between pipe_write and pipe_read.      *)
(*                                                                         *)
(* All of this code runs with interrupts off, so nothing happens between   *)
(* two of its instructions unless the thread blocks: it does in sema_down  *)
(* and in ioq_wait.  The lock is therefore reduced to its semaphore: Sync  *)
(* shows that holder and holder_repeat_nr follow it.                       *)
(***************************************************************************)
EXTENDS Threads

CONSTANTS
    Reader,     \* the processes that read
    Writer,     \* the processes that write
    Keyboard,   \* the ring is kbd_buf
    BufSize,    \* bufsize
    Char,       \* the bytes
    Zero,       \* the byte a fresh ring is filled with
    MaxCount,   \* bound: the largest count of a read or a write
    NULL

ASSUME IoQueueAssumption ==
    /\ Reader \subseteq Thread \ {Main, Idle}
    /\ Writer \subseteq Thread \ {Main, Idle}
    /\ Keyboard \in BOOLEAN /\ (Keyboard => Writer = {})
    /\ BufSize \in Nat \ {0, 1} /\ MaxCount \in Nat \ {0}
    /\ NULL \notin Thread /\ Zero \in Char

VARIABLES
    buf, head, tail,    \* the ring: written at head, read at tail
    producer, consumer, \* who sleeps in ioq_wait
    value, waiters,     \* the semaphore of ioq->lock
    pc,                 \* per thread: where it is in the calls below
    left,               \* per thread: count minus bytes_read or bytes_write
    got                 \* the byte ioq_getchar returned last

ring == <<buf, head, tail, got>>
qvars == <<ring, producer, consumer, value, waiters, pc, left>>
vars == <<tvars, qvars>>

\* ioqueue_init
Init ==
    /\ TInit
    /\ buf = [i \in 0..BufSize - 1 |-> Zero] /\ got = Zero
    /\ head = 0 /\ tail = 0
    /\ producer = NULL /\ consumer = NULL
    /\ value = 1 /\ waiters = <<>>
    /\ pc = [t \in Thread |-> "user"]
    /\ left = [t \in Thread |-> 0]

\* Mutants: next_pos does not wrap around; ioq_full forgets that it does.
NextPosNoWrap(pos) == pos + 1
FullNoWrap == head + 1 = tail

\* next_pos, ioq_full, ioq_empty, ioq_length
NextPos(pos) == (pos + 1) % BufSize
Full == NextPos(head) = tail
Empty == head = tail
Length == IF head >= tail THEN head - tail ELSE BufSize - (tail - head)

Smaller(m, n) == IF m > n THEN n ELSE m

At(t, l) == ~panic /\ cur = t /\ t # Idle /\ pc[t] = l
Goto(t, l) == pc' = [pc EXCEPT ![t] = l]

\* Mutant: pipe_read does not limit the count.
ReadUnlimited(t, n) ==
    /\ t \in Reader /\ At(t, "user")
    /\ left' = [left EXCEPT ![t] = n]
    /\ Goto(t, "get")
    /\ intr' = FALSE
    /\ UNCHANGED <<cur, status, ready, ticks, saved, idle_pc, panic,
                   ring, producer, consumer, value, waiters>>

\* sys_read(fd, buf, n), through pipe_read unless the fd is the keyboard
SysRead(t, n) ==
    /\ t \in Reader /\ At(t, "user")
    /\ left' = [left EXCEPT ![t] = IF Keyboard THEN n ELSE Smaller(Length, n)]
    /\ Goto(t, "get")
    /\ intr' = FALSE
    /\ UNCHANGED <<cur, status, ready, ticks, saved, idle_pc, panic,
                   ring, producer, consumer, value, waiters>>

\* sys_write(fd, buf, n) through pipe_write
SysWrite(t, n) ==
    /\ t \in Writer /\ At(t, "user")
    /\ left' = [left EXCEPT ![t] = Smaller(BufSize - Length, n)]
    /\ Goto(t, "put")
    /\ intr' = FALSE
    /\ UNCHANGED <<cur, status, ready, ticks, saved, idle_pc, panic,
                   ring, producer, consumer, value, waiters>>

\* The loop over the bytes is through; iretd.
SysReturn(t) ==
    /\ At(t, "get") \/ At(t, "put")
    /\ left[t] = 0
    /\ Goto(t, "user")
    /\ intr' = TRUE
    /\ UNCHANGED <<cur, status, ready, ticks, saved, idle_pc, panic,
                   ring, producer, consumer, value, waiters, left>>

\* if (*waiter != NULL) wakeup(waiter)
WakeUpIfAny(waiter) ==
    \/ waiter # NULL /\ Unblock(waiter, FALSE)
    \/ waiter = NULL /\ UNCHANGED <<cur, status, ready, ticks, intr, saved, panic>>

\* Mutants: wakeup leaves the producer recorded, or forgets to unblock it.
GetKeepsProducer(t) ==
    /\ At(t, "get") /\ left[t] > 0 /\ ~Empty
    /\ got' = buf[tail]
    /\ tail' = NextPos(tail)
    /\ WakeUpIfAny(producer)
    /\ left' = [left EXCEPT ![t] = @ - 1]
    /\ UNCHANGED <<idle_pc, buf, head, producer, consumer, value, waiters, pc>>
GetWakesNobody(t) ==
    /\ At(t, "get") /\ left[t] > 0 /\ ~Empty
    /\ got' = buf[tail]
    /\ tail' = NextPos(tail)
    /\ producer' = NULL
    /\ left' = [left EXCEPT ![t] = @ - 1]
    /\ UNCHANGED <<tvars, buf, head, consumer, value, waiters, pc>>

\* ioq_getchar once the ring is not empty
GetChar(t) ==
    /\ At(t, "get") /\ left[t] > 0 /\ ~Empty
    /\ got' = buf[tail]
    /\ tail' = NextPos(tail)
    /\ WakeUpIfAny(producer)
    /\ producer' = NULL
    /\ left' = [left EXCEPT ![t] = @ - 1]
    /\ UNCHANGED <<idle_pc, buf, head, consumer, value, waiters, pc>>

\* Mutant: ioq_putchar forgets to unblock the consumer.
StoreWakesNobody(c) ==
    /\ buf' = [buf EXCEPT ![head] = c]
    /\ head' = NextPos(head)
    /\ consumer' = NULL
    /\ UNCHANGED <<cur, status, ready, ticks, intr, saved, panic,
                   tail, got, producer, value, waiters, pc>>

\* ioq_putchar once the ring is not full, up to its return
Store(c) ==
    /\ buf' = [buf EXCEPT ![head] = c]
    /\ head' = NextPos(head)
    /\ WakeUpIfAny(consumer)
    /\ consumer' = NULL
    /\ UNCHANGED <<tail, got, producer, value, waiters, pc>>

PutChar(t, c) ==
    /\ At(t, "put") /\ left[t] > 0 /\ ~Full
    /\ Store(c)
    /\ left' = [left EXCEPT ![t] = @ - 1]
    /\ UNCHANGED idle_pc

\* ioq_empty or ioq_full holds: call lock_acquire.
GoWait(t) ==
    /\ \/ At(t, "get") /\ left[t] > 0 /\ Empty /\ Goto(t, "get_lock")
       \/ At(t, "put") /\ left[t] > 0 /\ Full /\ Goto(t, "put_lock")
    /\ UNCHANGED <<tvars, ring, producer, consumer, value, waiters, left>>

\* sema_down finds the value 0 and blocks; it comes back here when it is woken.
LockBlock(t) ==
    /\ At(t, "get_lock") \/ At(t, "put_lock")
    /\ value = 0
    /\ waiters' = Append(waiters, t)
    /\ Block("BLOCKED", status, ready, Find(waiters, t))
    /\ UNCHANGED <<idle_pc, ring, producer, consumer, value, pc, left>>

\* Mutant: ioq_wait without the lock
WaitGetUnlocked(t) ==
    /\ At(t, "get_lock")
    /\ consumer' = t
    /\ Goto(t, "get_sleep")
    /\ Block("BLOCKED", status, ready, consumer # NULL)
    /\ UNCHANGED <<idle_pc, ring, producer, value, waiters, left>>

\* sema_down takes the value, and ioq_wait records the thread and blocks, without
\* another look at the ring.
WaitGet(t) ==
    /\ At(t, "get_lock") /\ value # 0
    /\ value' = 0
    /\ consumer' = t
    /\ Goto(t, "get_sleep")
    /\ Block("BLOCKED", status, ready, consumer # NULL)
    /\ UNCHANGED <<idle_pc, ring, producer, waiters, left>>

\* The same for a producer
WaitPut(t) ==
    /\ At(t, "put_lock") /\ value # 0
    /\ value' = 0
    /\ producer' = t
    /\ Goto(t, "put_sleep")
    /\ Block("BLOCKED", status, ready, producer # NULL)
    /\ UNCHANGED <<idle_pc, ring, consumer, waiters, left>>

\* Mutant: lock_release wakes nobody.
ReleaseWakesNobody(t) ==
    /\ \/ At(t, "get_sleep") /\ Goto(t, "get")
       \/ At(t, "put_sleep") /\ Goto(t, "put")
    /\ value' = value + 1
    /\ UNCHANGED <<tvars, ring, waiters, producer, consumer, left>>

\* Back from ioq_wait: lock_release, and round the while loop.
LockRelease(t) ==
    /\ \/ At(t, "get_sleep") /\ Goto(t, "get")
       \/ At(t, "put_sleep") /\ Goto(t, "put")
    /\ \/ /\ waiters # <<>>
          /\ waiters' = Tail(waiters)
          /\ Unblock(Head(waiters), value # 0)
       \/ /\ waiters = <<>>
          /\ panic' = (value # 0)
          /\ UNCHANGED <<cur, status, ready, ticks, intr, saved, waiters>>
    /\ value' = value + 1
    /\ UNCHANGED <<idle_pc, ring, producer, consumer, left>>

\* intr_keyboard_handler for a key with a character: a full ring drops it.
KeyPress(c) ==
    /\ Keyboard /\ ~panic /\ intr
    /\ WakeCpu
    /\ \/ ~Full /\ Store(c) /\ UNCHANGED left
       \/ Full /\ UNCHANGED <<cur, status, ready, ticks, intr, saved, panic, qvars>>

\* The scheduler, main() that enables interrupts and a fork in user mode.
Kernel ==
    /\ \/ Tick \/ IdleBlock \/ IdleHlt
       \/ cur = Main /\ IntrEnable
       \/ intr /\ \E t \in Reader \cup Writer : ThreadStart(t)
    /\ UNCHANGED qvars

CallStep(t) ==
    \/ SysReturn(t) \/ GetChar(t) \/ GoWait(t) \/ LockBlock(t)
    \/ WaitGet(t) \/ WaitPut(t) \/ LockRelease(t)
    \/ \E c \in Char : PutChar(t, c)

Next ==
    \/ Kernel
    \/ \E c \in Char : KeyPress(c)
    \/ \E t \in Thread :
          \/ CallStep(t)
          \/ \E n \in 1..MaxCount : SysRead(t, n) \/ SysWrite(t, n)

Spec == Init /\ [][Next]_vars

(***************************************************************************)
(* Fairness: that of the scheduler, and a thread that has the CPU goes on  *)
(* with its call.  Nobody has to call anything or press a key.             *)
(***************************************************************************)
FairSpec ==
    /\ Spec
    /\ SF_vars(Tick /\ UNCHANGED qvars)
    /\ WF_vars(IdleBlock /\ UNCHANGED qvars) /\ WF_vars(IdleHlt /\ UNCHANGED qvars)
    /\ WF_vars(cur = Main /\ IntrEnable /\ UNCHANGED qvars)
    /\ \A t \in Thread : SF_vars(CallStep(t))

-----------------------------------------------------------------------------
Label == {"user", "get", "get_lock", "get_sleep", "put", "put_lock", "put_sleep"}

TypeOK ==
    /\ TTypeOK
    /\ buf \in [0..BufSize - 1 -> Char] /\ got \in Char
    /\ head \in 0..BufSize - 1 /\ tail \in 0..BufSize - 1
    /\ producer \in Thread \cup {NULL} /\ consumer \in Thread \cup {NULL}
    /\ value \in {0, 1} /\ waiters \in Seq(Thread)
    /\ pc \in [Thread -> Label]
    /\ left \in [Thread -> 0..BufSize + MaxCount]

\* No ASSERT of ioqueue.c, sync.c or thread.c fails: the ring is only touched
\* with interrupts off, nobody overwrites a recorded sleeper, the lock is held by
\* the one that releases it.
InterruptsOff == \A t \in Thread : cur = t /\ pc[t] # "user" => ~intr
NoAssertFails == NoPanic /\ InterruptsOff

\* Nobody sleeps unrecorded: a blocked process is in the lock's waiters or is the
\* producer or the consumer, and is in only one of these places.
SleepersRecorded ==
    \A t \in Thread \ {Idle} : status[t] = "BLOCKED" =>
        \/ Find(waiters, t) /\ t \notin {producer, consumer}
                            /\ pc[t] \in {"get_lock", "put_lock"}
        \/ consumer = t /\ producer # t /\ ~Find(waiters, t) /\ pc[t] = "get_sleep"
        \/ producer = t /\ consumer # t /\ ~Find(waiters, t) /\ pc[t] = "put_sleep"

\* Whoever sleeps as the lock's next owner is woken when it is free: waiters are
\* queued behind the owner, who sleeps in ioq_wait or is on its way back.
NoLostWakeup ==
    value = 1 /\ waiters # <<>> =>
        \E t \in Thread : /\ pc[t] \in {"get_lock", "put_lock"}
                          /\ status[t] \in {"READY", "RUNNING"}

\* "If the queue is empty the current thread is recorded in consumer, so that the
\* producer knows which consumer to wake" (the comment in ioq_getchar), and the
\* same for a producer and a full queue: a recorded sleeper has a reason to sleep.
SleepsWithReason == (consumer # NULL => Empty) /\ (producer # NULL => Full)

\* "Read no more than the queue holds, so as not to block" (the comment in
\* pipe_read).
PipeReadNeverBlocks == ~Keyboard => consumer = NULL

\* "If more is written than the queue has room for, write only as much as fits,
\* so as not to block" (the comment in pipe_write).
PipeWriteNeverBlocks == ~Keyboard => producer = NULL

\* A writer that sleeps while there is room gets up again (the wake-up in
\* ioq_getchar).  The reader of a pipe never sleeps: PipeReadNeverBlocks.
SleepersWoken ==
    \A t \in Thread : (pc[t] = "put_sleep" /\ ~Full) ~> pc[t] # "put_sleep"

\* The ring, its two positions and its wake-ups implement a bounded queue of
\* bytes: none is lost, duplicated or reordered on the way.
Contents == [i \in 1..Length |-> buf[(tail + i - 1) % BufSize]]
Channel == INSTANCE ByteQueue WITH q <- Contents, Capacity <- BufSize - 1
ImplementsByteQueue == Channel!QSpec
==============================================================================
