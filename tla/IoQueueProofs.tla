---------------------------- MODULE IoQueueProofs ----------------------------
(***************************************************************************)
(* The ring buffer is correct for every size, every number of readers and  *)
(* writers, and as the keyboard buffer as well as as a pipe.               *)
(***************************************************************************)
EXTENDS IoQueue, ThreadsProofs

Pos == 0..BufSize - 1

\* next_pos, and every other index into buf, is a position of the ring.
LEMMA Wrap ==
    ASSUME NEW n \in 0..2 * BufSize - 1
    PROVE  n % BufSize = IF n < BufSize THEN n ELSE n - BufSize
<1> USE IoQueueAssumption
<1>1. CASE n < BufSize
  BY <1>1
<1>2. CASE n >= BufSize
  BY <1>2
<1>. QED  BY <1>1, <1>2

LEMMA NextPosFacts ==
    ASSUME NEW p \in Pos
    PROVE  /\ NextPos(p) = IF p = BufSize - 1 THEN 0 ELSE p + 1
           /\ NextPos(p) \in Pos
<1> USE IoQueueAssumption
<1>1. p + 1 \in 0..2 * BufSize - 1
  BY DEF Pos
<1>2. NextPos(p) = IF p + 1 < BufSize THEN p + 1 ELSE (p + 1) - BufSize
  BY <1>1, Wrap, Zenon DEF NextPos
<1>. QED  BY <1>2 DEF Pos

RingOK ==
    /\ buf \in [Pos -> Char] /\ got \in Char
    /\ head \in Pos /\ tail \in Pos

\* ioq_length counts what ioq_empty and ioq_full look at.
LEMMA LengthFacts ==
    ASSUME RingOK
    PROVE  /\ Length \in Pos
           /\ Empty <=> Length = 0
           /\ Full <=> Length = BufSize - 1
<1> USE IoQueueAssumption
<1>1. NextPos(head) = IF head = BufSize - 1 THEN 0 ELSE head + 1
  BY NextPosFacts DEF RingOK
<1>2. Length \in Pos /\ (Empty <=> Length = 0)
  BY DEF RingOK, Length, Empty, Pos
<1>3. Full <=> Length = BufSize - 1
  BY <1>1 DEF RingOK, Length, Full, Pos
<1>. QED  BY <1>2, <1>3

LEMMA GetLength ==
    ASSUME RingOK, ~Empty, tail' = NextPos(tail), head' = head
    PROVE  Length' = Length - 1
<1>1. tail' \in Pos /\ tail' = IF tail = BufSize - 1 THEN 0 ELSE tail + 1
  BY NextPosFacts DEF RingOK
<1>2. head # tail
  BY DEF Empty
<1>. QED  BY <1>1, <1>2, IoQueueAssumption DEF RingOK, Length, Pos

LEMMA PutLength ==
    ASSUME RingOK, ~Full, head' = NextPos(head), tail' = tail
    PROVE  Length' = Length + 1
<1>1. head' \in Pos /\ head' = IF head = BufSize - 1 THEN 0 ELSE head + 1
  BY NextPosFacts DEF RingOK
<1>2. head' # tail
  BY DEF Full
<1>. QED  BY <1>1, <1>2, IoQueueAssumption DEF RingOK, Length, Pos

-----------------------------------------------------------------------------
\* What a step does to the ring: it takes a byte out, stores one, or leaves the
\* ring alone, whatever it does to the threads.
TakeOut == ~Empty /\ got' = buf[tail] /\ tail' = NextPos(tail) /\ UNCHANGED <<buf, head>>
PutIn(c) ==
    /\ ~Full /\ buf' = [buf EXCEPT ![head] = c] /\ head' = NextPos(head)
    /\ UNCHANGED <<tail, got>>

LEMMA RingStep ==
    ASSUME [Next]_vars
    PROVE  TakeOut \/ (\E c \in Char : PutIn(c)) \/ UNCHANGED ring
<1>1. CASE Kernel
  BY <1>1 DEF Kernel, qvars
<1>2. ASSUME NEW c \in Char, KeyPress(c)
      PROVE  (\E d \in Char : PutIn(d)) \/ UNCHANGED ring
  BY <1>2 DEF KeyPress, Store, PutIn, qvars
<1>3. ASSUME NEW t \in Thread, CallStep(t)
      PROVE  TakeOut \/ (\E c \in Char : PutIn(c)) \/ UNCHANGED ring
  BY <1>3 DEF CallStep, SysReturn, GetChar, GoWait, LockBlock, WaitGet, WaitPut, LockRelease,
              PutChar, Store, PutIn, TakeOut, ring
<1>4. ASSUME NEW t \in Thread, NEW n \in 1..MaxCount, SysRead(t, n) \/ SysWrite(t, n)
      PROVE  UNCHANGED ring
  BY <1>4 DEF SysRead, SysWrite
<1>5. CASE UNCHANGED vars
  BY <1>5 DEF vars, qvars
<1>. QED  BY <1>1, <1>2, <1>3, <1>4, <1>5 DEF Next

LEMMA RingInit == Init => RingOK
BY IoQueueAssumption DEF Init, RingOK, Pos

LEMMA RingInv == RingOK /\ [Next]_vars => RingOK'
<1> SUFFICES ASSUME RingOK, [Next]_vars PROVE RingOK'
  OBVIOUS
<1>1. CASE TakeOut
  BY <1>1, NextPosFacts DEF TakeOut, RingOK
<1>2. ASSUME NEW c \in Char, PutIn(c) PROVE RingOK'
  BY <1>2, NextPosFacts DEF PutIn, RingOK
<1>3. CASE UNCHANGED ring
  BY <1>3 DEF ring, RingOK
<1>. QED  BY <1>1, <1>2, <1>3, RingStep

\* The bytes between tail and head, the oldest first.
Slot(i) == IF tail + i - 1 < BufSize THEN tail + i - 1 ELSE tail + i - 1 - BufSize

LEMMA SlotFacts ==
    ASSUME RingOK, NEW i \in 1..BufSize
    PROVE  (tail + i - 1) % BufSize = Slot(i) /\ Slot(i) \in Pos
<1> USE IoQueueAssumption
<1>1. tail + i - 1 \in 0..2 * BufSize - 1
  BY DEF RingOK, Pos
<1>2. (tail + i - 1) % BufSize = Slot(i)
  <2>1. PICK n \in 0..2 * BufSize - 1 : n = tail + i - 1
    BY <1>1
  <2>2. n % BufSize = IF n < BufSize THEN n ELSE n - BufSize
    BY Wrap
  <2>3. Slot(i) = IF n < BufSize THEN n ELSE n - BufSize
    BY <2>1 DEF Slot, RingOK, Pos
  <2>. QED  BY <2>1, <2>2, <2>3
<1>3. Slot(i) \in Pos
  BY <1>1 DEF Slot, Pos, RingOK
<1>. QED  BY <1>2, <1>3

ContentsExact ==
    /\ Contents \in Seq(Char) /\ Len(Contents) = Length
    /\ \A i \in 1..Length : Contents[i] = buf[Slot(i)]

LEMMA ContentsFacts == RingOK => ContentsExact
<1> SUFFICES ASSUME RingOK PROVE ContentsExact
  OBVIOUS
<1>1. Length \in Nat /\ \A i \in 1..Length : i \in 1..BufSize
  BY LengthFacts, IoQueueAssumption DEF Pos
<1>2. \A i \in 1..Length : Contents[i] = buf[Slot(i)] /\ Contents[i] \in Char
  BY <1>1, SlotFacts DEF Contents, RingOK
<1>3. DOMAIN Contents = 1..Length /\ Contents = [i \in 1..Length |-> Contents[i]]
  BY DEF Contents
<1>4. Contents \in [1..Length -> Char]
  BY <1>2, <1>3
<1>. QED  BY <1>1, <1>2, <1>3, <1>4 DEF ContentsExact

LEMMA GetRefines == ASSUME RingOK, RingOK', TakeOut PROVE Channel!Get
<1> USE IoQueueAssumption
<1>1. /\ Length \in Nat /\ Length # 0 /\ Length' = Length - 1 /\ Length < BufSize
      /\ BufSize \in Nat /\ BufSize > 1
  BY LengthFacts, GetLength DEF TakeOut, Pos
<1>2. /\ Contents \in Seq(Char) /\ Len(Contents) = Length
      /\ \A i \in 1..Length : Contents[i] = buf[Slot(i)]
  BY ContentsFacts DEF ContentsExact
<1>3. /\ Contents' \in Seq(Char) /\ Len(Contents') = Length'
      /\ \A i \in 1..Length' : Contents'[i] = buf'[Slot(i)']
  <2>1. ContentsExact'
    BY ContentsFacts, PTL
  <2>. QED  BY <2>1 DEF ContentsExact
<1>4. tail \in Pos /\ tail' = IF tail = BufSize - 1 THEN 0 ELSE tail + 1
  BY NextPosFacts DEF TakeOut, RingOK
<1>5. \A i \in 1..Length - 1 : Slot(i)' = Slot(i + 1)
  BY <1>1, <1>4 DEF Slot, Pos
<1>6. Contents # <<>> /\ Slot(1) = tail /\ Head(Contents) = buf[tail]
  BY <1>1, <1>2, <1>4 DEF Slot, Pos
<1>7. Contents' = Tail(Contents)
  <2>1. Tail(Contents) \in Seq(Char) /\ Len(Tail(Contents)) = Length - 1
        /\ \A i \in 1..Length - 1 : Tail(Contents)[i] = Contents[i + 1]
    BY <1>1, <1>2, <1>6
  <2>2. \A i \in 1..Length - 1 : Contents'[i] = Tail(Contents)[i]
    BY <1>1, <1>2, <1>3, <1>5, <2>1 DEF TakeOut
  <2>. QED  BY <1>1, <1>3, <2>1, <2>2
<1>. QED  BY <1>6, <1>7 DEF Channel!Get, TakeOut

LEMMA PutRefines ==
    ASSUME RingOK, RingOK', NEW c \in Char, PutIn(c) PROVE Channel!Put(c)
<1> USE IoQueueAssumption
<1>1. /\ Length \in Nat /\ Length' = Length + 1 /\ Length < BufSize - 1
      /\ BufSize \in Nat /\ BufSize > 1
  BY LengthFacts, PutLength DEF PutIn, Pos
<1>2. /\ Contents \in Seq(Char) /\ Len(Contents) = Length
      /\ \A i \in 1..Length : Contents[i] = buf[Slot(i)]
  BY ContentsFacts DEF ContentsExact
<1>3. /\ Contents' \in Seq(Char) /\ Len(Contents') = Length'
      /\ \A i \in 1..Length' : Contents'[i] = buf'[Slot(i)']
  <2>1. ContentsExact'
    BY ContentsFacts, PTL
  <2>. QED  BY <2>1 DEF ContentsExact
<1>4. \A i : Slot(i)' = Slot(i)
  BY DEF Slot, PutIn
<1>5. Slot(Length + 1) = head /\ \A i \in 1..Length : Slot(i) # head
  BY <1>1 DEF Slot, Length, RingOK, Pos
<1>6. Contents' = Append(Contents, c)
  <2>1. /\ Append(Contents, c) \in Seq(Char) /\ Len(Append(Contents, c)) = Length + 1
        /\ \A i \in 1..Length : Append(Contents, c)[i] = Contents[i]
        /\ Append(Contents, c)[Length + 1] = c
    BY <1>1, <1>2
  <2>2. \A i \in 1..Length : Contents'[i] = buf[Slot(i)]
    BY <1>1, <1>3, <1>4, <1>5, SlotFacts DEF PutIn, RingOK
  <2>3. Contents'[Length + 1] = c
    BY <1>1, <1>3, <1>4, <1>5 DEF PutIn, RingOK
  <2>4. \A i \in 1..Length + 1 : Contents'[i] = Append(Contents, c)[i]
    BY <1>1, <1>2, <2>1, <2>2, <2>3
  <2>. QED  BY <1>1, <1>3, <2>1, <2>4
<1>. QED  BY <1>1, <1>2, <1>6 DEF Channel!Put, PutIn

\* dev/ioqueue.c implements a bounded first-in first-out queue of bytes, for every
\* size of the ring and any number of readers and writers: the positions, their
\* wrap-around and the slot that stays free never lose or reorder a byte.
THEOREM IoQueueRefines == Spec => ImplementsByteQueue
<1>1. Init => Channel!QInit
  <2> SUFFICES ASSUME Init PROVE Channel!QInit
    OBVIOUS
  <2>1. RingOK /\ Length = 0
    BY RingInit DEF Init, Length
  <2>2. Contents = <<>> /\ got \in Char
    BY <2>1, ContentsFacts DEF RingOK, ContentsExact
  <2>. QED  BY <2>2 DEF Channel!QInit
<1>2. RingOK /\ RingOK' /\ [Next]_vars => [Channel!QNext]_<<Contents, got>>
  <2> SUFFICES ASSUME RingOK, RingOK', [Next]_vars
               PROVE  [Channel!QNext]_<<Contents, got>>
    OBVIOUS
  <2>1. CASE TakeOut
    BY <2>1, GetRefines DEF Channel!QNext
  <2>2. ASSUME NEW c \in Char, PutIn(c) PROVE Channel!QNext
    BY <2>2, PutRefines DEF Channel!QNext
  <2>3. CASE UNCHANGED ring
    BY <2>3 DEF ring, Contents, Length
  <2>. QED  BY <2>1, <2>2, <2>3, RingStep
<1>3. Spec => []RingOK
  BY RingInit, RingInv, PTL DEF Spec
<1>. QED  BY <1>1, <1>2, <1>3, PTL DEF Spec, ImplementsByteQueue, Channel!QSpec

-----------------------------------------------------------------------------
\* The steps between the sema_down of lock_acquire and lock_release: the owner
\* of the lock sleeps in ioq_wait or is on its way back.
Owning == {"get_sleep", "put_sleep"}
Locking == {"get_lock", "put_lock"}

\* The threads in the calls: interrupts are off, and off again when a thread that
\* slept gets the CPU back; only a reader is in a read, only a writer in a write.
Reading == {"get", "get_lock", "get_sleep"}
Writing == {"put", "put_lock", "put_sleep"}
CallersInv ==
    /\ pc[cur] # "user" => ~intr
    /\ \A t \in Thread : pc[t] # "user" => status[t] # "DIED" /\ (t # cur => ~saved[t])
    /\ \A t \in Thread : /\ pc[t] \in Reading => t \in Reader
                         /\ pc[t] \in Writing => t \in Writer

\* The lists of sleepers: who is recorded sleeps at the place it is recorded for.
RecordedSleep ==
    /\ \A t \in Thread : Find(waiters, t) => pc[t] \in Locking /\ status[t] = "BLOCKED"
    /\ NoDup(waiters)
    /\ consumer # NULL => pc[consumer] = "get_sleep" /\ status[consumer] = "BLOCKED"
    /\ producer # NULL => pc[producer] = "put_sleep" /\ status[producer] = "BLOCKED"

\* The semaphore: taken by the one owner.
OneOwner ==
    /\ \A s, t \in Thread : pc[s] \in Owning /\ pc[t] \in Owning => s = t
    /\ value = 1 <=> \A t \in Thread : pc[t] \notin Owning

\* The inductive invariant.
IInv ==
    /\ TypeOK /\ SchedInv /\ CallersInv /\ RecordedSleep /\ OneOwner
    /\ SleepersRecorded /\ NoLostWakeup

\* One process at each end of the pipe, as after a fork of which either side has
\* closed what it does not use.
OnePair == ~Keyboard /\ \E r, w \in Thread : r # w /\ Reader = {r} /\ Writer = {w}

\* The reader was promised no more bytes than there are.  The writer may have
\* been promised the slot that has to stay free, so it may wait, but alone.
PromisesKept ==
    /\ \A t \in Reader : pc[t] \in {"user", "get"} /\ (pc[t] = "get" => left[t] <= Length)
    /\ \A t \in Writer : pc[t] = "put_lock" => cur = t /\ Full
    /\ producer # NULL => Full
PInv == OnePair => PromisesKept

-----------------------------------------------------------------------------
LEMMA InitInv == Init => IInv
<1> SUFFICES ASSUME Init PROVE IInv
  OBVIOUS
<1> USE ThreadAssumption, IoQueueAssumption
<1>1. TInv /\ RingOK
  BY TInitInv, RingInit DEF Init
<1>2. waiters \in Seq(Thread) /\ NoDup(waiters) /\ \A u : ~Find(waiters, u)
  BY EmptyFacts DEF Init
<1>3. pc \in [Thread -> Label] /\ left \in [Thread -> 0..BufSize + MaxCount]
  BY DEF Init, Label
<1>4. TypeOK
  BY <1>1, <1>2, <1>3 DEF Init, TInv, TypeOK, RingOK, Pos
<1>5. CallersInv
  BY <1>1 DEF Init, CallersInv, TInv, TTypeOK, Reading, Writing
<1>6. RecordedSleep /\ OneOwner
  BY <1>2 DEF Init, RecordedSleep, OneOwner, Owning
<1>7. SleepersRecorded /\ NoLostWakeup
  BY DEF Init, TInit, SleepersRecorded, NoLostWakeup
<1>. QED  BY <1>1, <1>4, <1>5, <1>6, <1>7 DEF IInv, TInv

\* The facts every step of a thread in a call starts from.
LEMMA AtFacts ==
    ASSUME IInv, NEW t \in Thread, NEW l, At(t, l)
    PROVE  /\ cur = t /\ t # Idle /\ status[t] = "RUNNING" /\ pc[t] = l
           /\ panic = FALSE /\ TInv
           /\ ~Find(waiters, t) /\ t # producer /\ t # consumer /\ t # NULL
           /\ intr \in BOOLEAN /\ (l # "user" => ~intr)
           /\ l \in Owning => value = 0 /\ \A u \in Thread : u # t => pc[u] \notin Owning
BY IoQueueAssumption
DEF At, IInv, TypeOK, TTypeOK, SchedInv, OneRunning, NoPanic, TInv, CallersInv,
    RecordedSleep, OneOwner

\* The count left is decremented only where it is positive.
LEMMA LeftFacts ==
    ASSUME IInv, NEW t \in Thread, left[t] > 0, left' = [left EXCEPT ![t] = @ - 1]
    PROVE  left' \in [Thread -> 0..BufSize + MaxCount]
<1>1. left \in [Thread -> 0..BufSize + MaxCount]
  BY DEF IInv, TypeOK
<1>2. left[t] - 1 \in 0..BufSize + MaxCount
  BY <1>1, IoQueueAssumption
<1>. QED  BY <1>1, <1>2

\* A step of one thread outside the lock that leaves all threads where they are.
LEMMA MoveInv ==
    ASSUME IInv, RingOK', NEW t \in Thread, NEW m \in Label, At(t, m),
           NEW l \in Label, Goto(t, l),
           UNCHANGED <<cur, status, ready, ticks, saved, idle_pc, panic,
                       producer, consumer, value, waiters>>,
           intr' \in BOOLEAN, l # "user" => ~intr',
           m \notin Owning, l \notin Owning, m \in Locking => l \in Locking,
           l \in Reading => t \in Reader, l \in Writing => t \in Writer,
           left' \in [Thread -> 0..BufSize + MaxCount]
    PROVE  IInv'
<1> USE ThreadAssumption
<1>1. /\ cur = t /\ t # Idle /\ status[t] = "RUNNING" /\ pc[t] = m /\ TInv
      /\ ~Find(waiters, t) /\ t # producer /\ t # consumer
  BY AtFacts
<1>2. TInv'
  BY <1>1, FlagCorrect DEF TInv, TTypeOK
<1>3. /\ pc' \in [Thread -> Label]
      /\ \A u \in Thread : pc'[u] = IF u = t THEN l ELSE pc[u]
  BY DEF Goto, IInv, TypeOK
<1>4. TypeOK'
  BY <1>2, <1>3 DEF IInv, TypeOK, TInv, RingOK, Pos
<1>5. CallersInv'
  BY <1>1, <1>3 DEF IInv, CallersInv
<1>6. RecordedSleep'
  BY <1>1, <1>3 DEF IInv, TypeOK, RecordedSleep
<1>7. OneOwner'
  BY <1>1, <1>3 DEF IInv, OneOwner
<1>8. SleepersRecorded'
  BY <1>1, <1>3 DEF IInv, SleepersRecorded
<1>9. NoLostWakeup'
  BY <1>1, <1>3 DEF IInv, NoLostWakeup, Locking
<1>. QED  BY <1>2, <1>4, <1>5, <1>6, <1>7, <1>8, <1>9 DEF IInv, TInv

\* A step of the scheduler that changes nothing of the queue's own.
LEMMA QuietInv ==
    ASSUME IInv, TInv', UNCHANGED qvars,
           \A u \in Thread \ {Idle} :
               status'[u] = status[u] \/ (status[u] \in Live /\ status'[u] \in Live),
           \/ Switched
           \/ UNCHANGED <<cur, saved>> /\ (pc[cur] = "user" \/ UNCHANGED intr)
    PROVE  IInv'
<1> USE ThreadAssumption, IoQueueAssumption DEF qvars, ring
<1>1. TypeOK'
  BY DEF IInv, TypeOK, TInv
<1>2. cur \in Thread /\ cur' \in Thread /\ saved \in [Thread -> BOOLEAN]
  BY <1>1 DEF IInv, TypeOK, TTypeOK
<1>3. pc'[cur'] # "user" => ~intr'
  BY <1>2 DEF IInv, CallersInv, Switched
<1>4. \A t \in Thread : pc'[t] # "user" /\ t # cur' => ~saved'[t]
  BY <1>2 DEF IInv, CallersInv, Switched
<1>5. pc[Idle] = "user"
  BY DEF IInv, TypeOK, CallersInv, Label, Reading, Writing
<1>6. CallersInv'
  BY <1>3, <1>4, <1>5 DEF IInv, CallersInv, Live
<1>7. RecordedSleep'
  BY <1>5 DEF IInv, TypeOK, RecordedSleep, Live, Locking
<1>8. OneOwner' /\ SleepersRecorded'
  BY DEF IInv, OneOwner, SleepersRecorded, Live
<1>9. NoLostWakeup'
  BY <1>5 DEF IInv, NoLostWakeup, Live
<1>. QED  BY <1>1, <1>6, <1>7, <1>8, <1>9 DEF IInv, TInv

-----------------------------------------------------------------------------
LEMMA ReadInv ==
    ASSUME IInv, RingOK', NEW t \in Thread, NEW n \in 1..MaxCount, SysRead(t, n)
    PROVE  IInv'
<1> USE IoQueueAssumption DEF SysRead
<1>1. RingOK
  BY DEF IInv, TypeOK, RingOK, Pos
<1>2. Length \in 0..BufSize - 1
  BY <1>1, LengthFacts DEF Pos
<1>3. (IF Keyboard THEN n ELSE Smaller(Length, n)) \in 0..BufSize + MaxCount
  BY <1>2 DEF Smaller
<1>4. left' \in [Thread -> 0..BufSize + MaxCount]
  BY <1>3 DEF IInv, TypeOK
<1>5. intr' \in BOOLEAN /\ ~intr'
  OBVIOUS
<1>. QED  BY <1>4, <1>5, MoveInv DEF Label, Owning, Locking, Reading, Writing

LEMMA WriteInv ==
    ASSUME IInv, RingOK', NEW t \in Thread, NEW n \in 1..MaxCount, SysWrite(t, n)
    PROVE  IInv'
<1> USE IoQueueAssumption DEF SysWrite
<1>1. RingOK
  BY DEF IInv, TypeOK, RingOK, Pos
<1>2. Length \in 0..BufSize - 1
  BY <1>1, LengthFacts DEF Pos
<1>3. Smaller(BufSize - Length, n) \in 0..BufSize + MaxCount
  BY <1>2 DEF Smaller
<1>4. left' \in [Thread -> 0..BufSize + MaxCount]
  BY <1>3 DEF IInv, TypeOK
<1>5. intr' \in BOOLEAN /\ ~intr'
  OBVIOUS
<1>. QED  BY <1>4, <1>5, MoveInv DEF Label, Owning, Locking, Reading, Writing

LEMMA ReturnInv == ASSUME IInv, RingOK', NEW t \in Thread, SysReturn(t) PROVE IInv'
<1> USE DEF SysReturn
<1>1. PICK m \in {"get", "put"} : At(t, m)
  OBVIOUS
<1>2. left' \in [Thread -> 0..BufSize + MaxCount] /\ intr' \in BOOLEAN
  BY DEF IInv, TypeOK
<1>. QED  BY <1>1, <1>2, MoveInv DEF Label, Owning, Locking, Reading, Writing

LEMMA GoWaitInv == ASSUME IInv, RingOK', NEW t \in Thread, GoWait(t) PROVE IInv'
<1> USE DEF GoWait, tvars
<1>1. PICK m \in {"get", "put"} :
        At(t, m) /\ Goto(t, IF m = "get" THEN "get_lock" ELSE "put_lock")
  OBVIOUS
<1>2. pc[t] = m /\ intr' \in BOOLEAN /\ ~intr'
  BY <1>1, AtFacts
<1>3. left' \in [Thread -> 0..BufSize + MaxCount]
      /\ (m = "get" => t \in Reader) /\ (m = "put" => t \in Writer)
  BY <1>2 DEF IInv, TypeOK, CallersInv, Reading, Writing
<1>4. CASE m = "get"
  BY <1>1, <1>2, <1>3, <1>4, MoveInv DEF Label, Owning, Locking, Reading, Writing
<1>5. CASE m = "put"
  BY <1>1, <1>2, <1>3, <1>5, MoveInv DEF Label, Owning, Locking, Reading, Writing
<1>. QED  BY <1>4, <1>5

\* A byte is taken out or stored, and the sleeper at the other end is woken: it
\* keeps the lock and its place in ioq_wait.
LEMMA WakeInv ==
    ASSUME IInv, RingOK', NEW w \in {producer, consumer}, WakeUpIfAny(w),
           UNCHANGED <<value, waiters, pc>>, idle_pc' \in {"block", "woken", "hlt"},
           producer' = IF w = producer THEN NULL ELSE producer,
           consumer' = IF w = consumer THEN NULL ELSE consumer,
           left' \in [Thread -> 0..BufSize + MaxCount]
    PROVE  IInv'
<1> USE ThreadAssumption, IoQueueAssumption
<1>1. TInv
  BY DEF IInv, TInv, TypeOK
<1>2. CASE w = NULL
  <2>1. UNCHANGED <<cur, status, ready, ticks, intr, saved, panic, producer, consumer>>
    BY <1>2 DEF WakeUpIfAny
  <2>2. TInv'
    BY <1>1, <2>1, FlagCorrect DEF TInv, TTypeOK, SchedInv, HltInterruptible
  <2>3. TypeOK'
    BY <2>1, <2>2 DEF IInv, TypeOK, TInv, RingOK, Pos
  <2>. QED  BY <2>1, <2>2, <2>3 DEF IInv, TInv, CallersInv, RecordedSleep, OneOwner,
              SleepersRecorded, NoLostWakeup
<1>3. CASE w # NULL
  <2>1. Unblock(w, FALSE)
    BY <1>3 DEF WakeUpIfAny
  <2>2. /\ w \in Thread /\ status[w] = "BLOCKED" /\ pc[w] \in Owning /\ w # Idle
        /\ ~Find(waiters, w)
    BY <1>3 DEF IInv, TypeOK, RecordedSleep, CallersInv, Owning, Reading, Writing, Locking
  <2>3. TInv'
    BY <1>1, <2>1, <2>2, UnblockCorrect DEF Sleeping
  <2>4. /\ UNCHANGED <<cur, intr, saved>>
        /\ \A u \in Thread : status'[u] = IF u = w THEN "READY" ELSE status[u]
    BY <1>1, <2>1 DEF Unblock, TInv, TTypeOK
  <2>5. producer # consumer
    BY <1>3 DEF IInv, RecordedSleep
  <2>6. TypeOK'
    BY <2>3 DEF IInv, TypeOK, TInv, RingOK, Pos
  <2>7. CallersInv' /\ OneOwner'
    BY <2>4 DEF IInv, CallersInv, OneOwner
  <2>8. RecordedSleep'
    BY <2>2, <2>4, <2>5 DEF IInv, TypeOK, RecordedSleep
  <2>9. SleepersRecorded'
    BY <2>2, <2>4, <2>5 DEF IInv, SleepersRecorded
  <2>10. NoLostWakeup'
    BY <2>4 DEF IInv, NoLostWakeup
  <2>. QED  BY <2>3, <2>6, <2>7, <2>8, <2>9, <2>10 DEF IInv, TInv
<1>. QED  BY <1>2, <1>3

\* The producer and the consumer are two threads, or nobody.
LEMMA TwoSleepers == IInv => producer # consumer \/ (producer = NULL /\ consumer = NULL)
BY DEF IInv, RecordedSleep

LEMMA GetInv == ASSUME IInv, RingOK', NEW t \in Thread, GetChar(t) PROVE IInv'
<1>1. left' \in [Thread -> 0..BufSize + MaxCount]
  BY LeftFacts DEF GetChar
<1>2. idle_pc' \in {"block", "woken", "hlt"}
  BY DEF GetChar, IInv, TypeOK, TTypeOK
<1>. QED  BY <1>1, <1>2, TwoSleepers, WakeInv DEF GetChar

LEMMA PutInv ==
    ASSUME IInv, RingOK', NEW t \in Thread, NEW c \in Char, PutChar(t, c)
    PROVE  IInv'
<1>1. left' \in [Thread -> 0..BufSize + MaxCount]
  BY LeftFacts DEF PutChar
<1>2. idle_pc' \in {"block", "woken", "hlt"}
  BY DEF PutChar, IInv, TypeOK, TTypeOK
<1>. QED  BY <1>1, <1>2, TwoSleepers, WakeInv DEF PutChar, Store

LEMMA KeyInv == ASSUME IInv, RingOK', NEW c \in Char, KeyPress(c) PROVE IInv'
<1>1. idle_pc' \in {"block", "woken", "hlt"}
  BY DEF KeyPress, WakeCpu, IInv, TypeOK, TTypeOK
<1>2. CASE ~Full
  <2>1. left' \in [Thread -> 0..BufSize + MaxCount]
    BY <1>2 DEF KeyPress, IInv, TypeOK
  <2>. QED  BY <1>1, <1>2, <2>1, TwoSleepers, WakeInv DEF KeyPress, Store
<1>3. CASE Full
  <2>1. UNCHANGED <<cur, status, ready, ticks, intr, saved, panic, qvars>> /\ TInv
    BY <1>3 DEF KeyPress, IInv, TInv, TypeOK
  <2>2. TInv'
    BY <1>1, <2>1, FlagCorrect DEF TInv, TTypeOK, SchedInv, HltInterruptible
  <2>. QED  BY <2>1, <2>2, QuietInv
<1>. QED  BY <1>2, <1>3

-----------------------------------------------------------------------------
\* A thread that goes to sleep, in sema_down or in ioq_wait, with interrupts off.
LEMMA SleepCallers ==
    ASSUME IInv, NEW t \in Thread, NEW m \in Label, At(t, m), m # "user",
           NEW l \in Label, Goto(t, l), l # "user",
           l \in Reading => m \in Reading, l \in Writing => m \in Writing,
           NEW bad, ~bad, Block("BLOCKED", status, ready, bad), UNCHANGED idle_pc
    PROVE  /\ TInv' /\ CallersInv' /\ status'[t] = "BLOCKED"
           /\ \A u \in Thread \ {t} : pc[u] # "user" =>
                 status'[u] = status[u] \/ (status[u] \in Live /\ status'[u] \in Live)
           /\ \A u \in Thread \ {Idle} :
                 status'[u] = "BLOCKED" => u = t \/ status[u] = "BLOCKED"
           /\ pc' \in [Thread -> Label]
           /\ \A u \in Thread : pc'[u] = IF u = t THEN l ELSE pc[u]
<1> USE ThreadAssumption, IoQueueAssumption
<1>1. /\ cur = t /\ t # Idle /\ pc[t] = m /\ ~intr /\ TInv
      /\ cur \in Thread /\ saved \in [Thread -> BOOLEAN]
  BY AtFacts DEF TInv, TTypeOK
<1>2. /\ TInv' /\ Switched /\ cur' # t /\ status'[t] = "BLOCKED"
      /\ \A u \in Thread \ {Idle, t} :
            status'[u] = status[u] \/ (status[u] \in Live /\ status'[u] \in Live)
  BY <1>1, BlockStep DEF Sleeping
<1>3. cur' \in Thread /\ pc[Idle] = "user"
  BY <1>2 DEF TInv, TTypeOK, IInv, TypeOK, CallersInv, Label, Reading, Writing
<1>4. /\ pc' \in [Thread -> Label]
      /\ \A u \in Thread : pc'[u] = IF u = t THEN l ELSE pc[u]
  BY DEF Goto, IInv, TypeOK
<1>5. pc'[cur'] # "user" => ~intr'
  BY <1>1, <1>2, <1>3, <1>4 DEF IInv, CallersInv, Switched
<1>6. \A u \in Thread : pc'[u] # "user" /\ u # cur' => ~saved'[u]
  BY <1>1, <1>2, <1>3, <1>4 DEF IInv, CallersInv, Switched
<1>7. CallersInv'
  BY <1>1, <1>2, <1>3, <1>4, <1>5, <1>6 DEF IInv, CallersInv, Live
<1>. QED  BY <1>2, <1>3, <1>4, <1>7 DEF Live

LEMMA LockBlockInv == ASSUME IInv, RingOK', NEW t \in Thread, LockBlock(t) PROVE IInv'
<1> USE ThreadAssumption, IoQueueAssumption DEF LockBlock
<1>1. PICK m \in Locking : At(t, m)
  BY DEF Locking
<1>2. /\ pc[t] = m /\ ~Find(waiters, t) /\ waiters \in Seq(Thread) /\ NoDup(waiters)
      /\ t # producer /\ t # consumer
  BY <1>1, AtFacts DEF IInv, TypeOK, RecordedSleep
<1>3. /\ waiters' \in Seq(Thread)
      /\ \A u : Find(waiters', u) <=> Find(waiters, u) \/ u = t
      /\ NoDup(waiters')
  BY <1>2, AppendFacts
<1>4. Goto(t, m) /\ m \in Label /\ m # "user"
  BY <1>2 DEF Goto, IInv, TypeOK, Locking, Label
<1>5. /\ TInv' /\ CallersInv' /\ status'[t] = "BLOCKED"
      /\ \A u \in Thread \ {t} : pc[u] # "user" =>
            status'[u] = status[u] \/ (status[u] \in Live /\ status'[u] \in Live)
      /\ \A u \in Thread \ {Idle} :
            status'[u] = "BLOCKED" => u = t \/ status[u] = "BLOCKED"
  BY <1>1, <1>2, <1>4, SleepCallers
<1>6. TypeOK'
  BY <1>3, <1>5 DEF IInv, TypeOK, TInv, RingOK, Pos
<1>7. RecordedSleep'
  BY <1>2, <1>3, <1>5 DEF IInv, TypeOK, RecordedSleep, Locking, Live
<1>8. OneOwner' /\ NoLostWakeup'
  BY DEF IInv, OneOwner, NoLostWakeup
<1>9. SleepersRecorded'
  BY <1>2, <1>3, <1>5 DEF IInv, SleepersRecorded, Locking
<1>. QED  BY <1>5, <1>6, <1>7, <1>8, <1>9 DEF IInv, TInv

LEMMA WaitGetInv == ASSUME IInv, RingOK', NEW t \in Thread, WaitGet(t) PROVE IInv'
<1> USE ThreadAssumption, IoQueueAssumption DEF WaitGet
<1>1. /\ At(t, "get_lock") /\ pc[t] = "get_lock" /\ t # producer /\ t # NULL
      /\ ~Find(waiters, t)
  BY AtFacts
<1>2. value = 1 /\ \A u \in Thread : pc[u] \notin Owning
  BY DEF IInv, TypeOK, OneOwner
<1>3. consumer = NULL /\ producer = NULL
  BY <1>2 DEF IInv, TypeOK, RecordedSleep, Owning
<1>4. /\ TInv' /\ CallersInv' /\ status'[t] = "BLOCKED"
      /\ \A u \in Thread \ {t} : pc[u] # "user" =>
            status'[u] = status[u] \/ (status[u] \in Live /\ status'[u] \in Live)
      /\ \A u \in Thread \ {Idle} :
            status'[u] = "BLOCKED" => u = t \/ status[u] = "BLOCKED"
      /\ pc' \in [Thread -> Label]
      /\ \A u \in Thread : pc'[u] = IF u = t THEN "get_sleep" ELSE pc[u]
  BY <1>1, <1>3, SleepCallers DEF Label, Reading, Writing
<1>5. TypeOK'
  BY <1>4 DEF IInv, TypeOK, TInv, RingOK, Pos
<1>6. RecordedSleep'
  BY <1>1, <1>3, <1>4 DEF IInv, RecordedSleep, Locking, Live
<1>7. OneOwner'
  BY <1>2, <1>4 DEF OneOwner, Owning
<1>8. SleepersRecorded'
  BY <1>1, <1>3, <1>4 DEF IInv, SleepersRecorded
<1>9. NoLostWakeup'
  BY DEF NoLostWakeup
<1>. QED  BY <1>4, <1>5, <1>6, <1>7, <1>8, <1>9 DEF IInv, TInv

LEMMA WaitPutInv == ASSUME IInv, RingOK', NEW t \in Thread, WaitPut(t) PROVE IInv'
<1> USE ThreadAssumption, IoQueueAssumption DEF WaitPut
<1>1. /\ At(t, "put_lock") /\ pc[t] = "put_lock" /\ t # consumer /\ t # NULL
      /\ ~Find(waiters, t)
  BY AtFacts
<1>2. value = 1 /\ \A u \in Thread : pc[u] \notin Owning
  BY DEF IInv, TypeOK, OneOwner
<1>3. consumer = NULL /\ producer = NULL
  BY <1>2 DEF IInv, TypeOK, RecordedSleep, Owning
<1>4. /\ TInv' /\ CallersInv' /\ status'[t] = "BLOCKED"
      /\ \A u \in Thread \ {t} : pc[u] # "user" =>
            status'[u] = status[u] \/ (status[u] \in Live /\ status'[u] \in Live)
      /\ \A u \in Thread \ {Idle} :
            status'[u] = "BLOCKED" => u = t \/ status[u] = "BLOCKED"
      /\ pc' \in [Thread -> Label]
      /\ \A u \in Thread : pc'[u] = IF u = t THEN "put_sleep" ELSE pc[u]
  BY <1>1, <1>3, SleepCallers DEF Label, Reading, Writing
<1>5. TypeOK'
  BY <1>4 DEF IInv, TypeOK, TInv, RingOK, Pos
<1>6. RecordedSleep'
  BY <1>1, <1>3, <1>4 DEF IInv, RecordedSleep, Locking, Live
<1>7. OneOwner'
  BY <1>2, <1>4 DEF OneOwner, Owning
<1>8. SleepersRecorded'
  BY <1>1, <1>3, <1>4 DEF IInv, SleepersRecorded
<1>9. NoLostWakeup'
  BY DEF NoLostWakeup
<1>. QED  BY <1>4, <1>5, <1>6, <1>7, <1>8, <1>9 DEF IInv, TInv

LEMMA ReleaseInv == ASSUME IInv, RingOK', NEW t \in Thread, LockRelease(t) PROVE IInv'
<1> USE ThreadAssumption, IoQueueAssumption
<1>1. PICK m \in Owning : At(t, m) /\ Goto(t, IF m = "get_sleep" THEN "get" ELSE "put")
  BY DEF LockRelease, Owning
<1>2. /\ cur = t /\ t # Idle /\ status[t] = "RUNNING" /\ pc[t] = m /\ TInv
      /\ panic = FALSE /\ ~intr
      /\ ~Find(waiters, t) /\ t # producer /\ t # consumer
      /\ value = 0 /\ \A u \in Thread : u # t => pc[u] \notin Owning
  BY <1>1, AtFacts DEF Owning
<1> DEFINE l == IF m = "get_sleep" THEN "get" ELSE "put"
<1>3. /\ l \in {"get", "put"} /\ pc' \in [Thread -> Label]
      /\ \A u \in Thread : pc'[u] = IF u = t THEN l ELSE pc[u]
  BY <1>1 DEF Goto, IInv, TypeOK, Label
<1>4. (l = "get" => t \in Reader) /\ (l = "put" => t \in Writer)
  BY <1>2 DEF IInv, CallersInv, Owning, Reading, Writing
<1> HIDE DEF l
<1>5. value' = 1 /\ UNCHANGED <<idle_pc, ring, producer, consumer, left>>
  BY <1>2 DEF LockRelease
<1>6. OneOwner'
  BY <1>2, <1>3, <1>5 DEF OneOwner, Owning
<1>7. producer = NULL /\ consumer = NULL
  BY <1>2 DEF IInv, TypeOK, RecordedSleep, Owning
<1>8. CASE waiters = <<>>
  <2>1. UNCHANGED <<cur, status, ready, ticks, intr, saved, waiters>>
    BY <1>8 DEF LockRelease
  <2>2. panic' = FALSE
    BY <1>2, <1>8 DEF LockRelease
  <2>3. TInv'
    BY <1>2, <1>5, <2>1, <2>2, FlagCorrect DEF TInv, TTypeOK, SchedInv, HltInterruptible
  <2>4. TypeOK'
    BY <1>3, <1>5, <2>1, <2>3 DEF IInv, TypeOK, TInv, RingOK, Pos
  <2>5. CallersInv'
    BY <1>2, <1>3, <1>4, <2>1 DEF IInv, CallersInv, Owning, Reading, Writing
  <2>6. RecordedSleep' /\ NoLostWakeup'
    BY <1>2, <1>3, <1>5, <1>7, <1>8, <2>1 DEF IInv, RecordedSleep, NoLostWakeup
  <2>7. SleepersRecorded'
    BY <1>2, <1>3, <1>5, <1>7, <2>1 DEF IInv, SleepersRecorded
  <2>. QED  BY <1>6, <2>3, <2>4, <2>5, <2>6, <2>7 DEF IInv, TInv
<1>9. CASE waiters # <<>>
  <2> DEFINE w == Head(waiters)
  <2>1. waiters' = Tail(waiters) /\ Unblock(w, value # 0)
    BY <1>9 DEF LockRelease
  <2>2. /\ w \in Thread /\ Find(waiters, w) /\ waiters' \in Seq(Thread)
        /\ NoDup(waiters')
        /\ \A u : Find(waiters', u) <=> Find(waiters, u) /\ u # w
    BY <1>9, <2>1, PopFacts DEF IInv, TypeOK, RecordedSleep
  <2> HIDE DEF w
  <2>3. /\ status[w] = "BLOCKED" /\ pc[w] \in Locking /\ w # t /\ w # Idle
    BY <1>2, <2>2
    DEF IInv, RecordedSleep, CallersInv, Locking, Reading, Writing
  <2>4. TInv'
    BY <1>2, <1>5, <2>1, <2>2, <2>3, UnblockCorrect DEF Sleeping, TInv, TTypeOK
  <2>5. /\ UNCHANGED <<cur, intr, saved>>
        /\ \A u \in Thread : status'[u] = IF u = w THEN "READY" ELSE status[u]
    BY <1>2, <2>1 DEF Unblock, TInv, TTypeOK
  <2>6. TypeOK'
    BY <1>3, <1>5, <2>2, <2>4 DEF IInv, TypeOK, TInv, RingOK, Pos
  <2>7. CallersInv'
    BY <1>2, <1>3, <1>4, <2>5 DEF IInv, CallersInv, Owning, Reading, Writing
  <2>8. RecordedSleep'
    BY <1>2, <1>3, <1>5, <1>7, <2>2, <2>5 DEF IInv, RecordedSleep
  <2>9. NoLostWakeup'
    BY <1>3, <2>2, <2>3, <2>5 DEF NoLostWakeup, Locking
  <2>10. SleepersRecorded'
    BY <1>2, <1>3, <1>5, <1>7, <2>2, <2>5 DEF IInv, SleepersRecorded
  <2>. QED  BY <1>6, <2>4, <2>6, <2>7, <2>8, <2>9, <2>10 DEF IInv, TInv
<1>. QED  BY <1>8, <1>9

LEMMA KernelInv == ASSUME IInv, Kernel PROVE IInv'
<1> USE ThreadAssumption, IoQueueAssumption
<1>1. UNCHANGED qvars /\ TInv
  BY DEF Kernel, IInv, TInv, TypeOK
<1>2. CASE Tick \/ IdleBlock
  <2>1. TInv'
    BY <1>1, <1>2, TNextInv DEF TNext
  <2>. QED  BY <1>1, <1>2, <2>1, QuietStatus, QuietFlags, QuietInv
<1>3. CASE IdleHlt \/ (cur = Main /\ IntrEnable)
  <2>1. TInv'
    BY <1>1, <1>3, TNextInv DEF TNext
  <2>2. UNCHANGED <<cur, saved, status>> /\ cur \in {Idle, Main}
    BY <1>3 DEF IdleHlt, IntrEnable
  <2>3. pc[cur] = "user"
    BY <2>2 DEF IInv, TypeOK, CallersInv, Label, Reading, Writing
  <2>. QED  BY <1>1, <2>1, <2>2, <2>3, QuietInv
<1>4. ASSUME NEW t \in Thread, ThreadStart(t) PROVE IInv'
  <2> USE DEF qvars, ring
  <2>1. TInv'
    BY <1>1, <1>4, StartCorrect
  <2>2. /\ status[t] = "DIED" /\ UNCHANGED <<cur, intr>>
        /\ \A u \in Thread : status'[u] = IF u = t THEN "READY" ELSE status[u]
        /\ \A u \in Thread : saved'[u] = IF u = t THEN TRUE ELSE saved[u]
    BY <1>1, <1>4 DEF ThreadStart, TInv, TTypeOK
  <2>3. CallersInv'
    BY <1>1, <2>2 DEF IInv, CallersInv
  <2>4. TypeOK'
    BY <1>1, <2>1 DEF IInv, TypeOK, TInv
  <2>5. RecordedSleep' /\ OneOwner'
    BY <1>1, <2>2 DEF IInv, TypeOK, RecordedSleep, OneOwner
  <2>6. SleepersRecorded' /\ NoLostWakeup'
    BY <1>1, <2>2 DEF IInv, SleepersRecorded, NoLostWakeup
  <2>. QED  BY <2>1, <2>3, <2>4, <2>5, <2>6 DEF IInv, TInv
<1>. QED  BY <1>2, <1>3, <1>4 DEF Kernel

LEMMA NextInv == IInv /\ [Next]_vars => IInv'
<1> SUFFICES ASSUME IInv, [Next]_vars PROVE IInv'
  OBVIOUS
<1>1. RingOK
  BY DEF IInv, TypeOK, RingOK, Pos
<1>2. RingOK'
  BY <1>1, RingInv
<1>3. ASSUME NEW t \in Thread, CallStep(t) PROVE IInv'
  BY <1>2, <1>3, ReturnInv, GetInv, GoWaitInv, LockBlockInv, WaitGetInv, WaitPutInv,
     ReleaseInv, PutInv
  DEF CallStep
<1>4. CASE UNCHANGED vars
  <2>1. UNCHANGED tvars /\ UNCHANGED qvars /\ TInv
    BY <1>4 DEF vars, IInv, TypeOK, TInv
  <2>2. TInv' /\ UNCHANGED <<status, cur, intr, saved>>
    BY <2>1, TNextInv DEF tvars
  <2>. QED  BY <2>1, <2>2, QuietInv
<1>. QED  BY <1>2, <1>3, <1>4, KernelInv, KeyInv, ReadInv, WriteInv DEF Next

LEMMA SpecInv == Spec => []IInv
BY InitInv, NextInv, PTL DEF Spec

\* The positions, the records of sleepers and the counts of the calls keep their
\* types; in particular no position ever leaves buf.
THEOREM QueueTyped == Spec => []TypeOK
<1>1. IInv => TypeOK
  BY DEF IInv
<1>. QED  BY <1>1, SpecInv, PTL

\* The ASSERTs on the way of a read, a write and a key press never fail, however
\* many processes share the ring.
THEOREM QueueNeverPanics == Spec => []NoAssertFails
<1>1. IInv => NoAssertFails
  BY DEF IInv, SchedInv, NoAssertFails, InterruptsOff, CallersInv
<1>. QED  BY <1>1, SpecInv, PTL

\* Every blocked process is recorded in exactly one place that will wake it.
THEOREM QueueRecordsSleepers == Spec => []SleepersRecorded
<1>1. IInv => SleepersRecorded
  BY DEF IInv
<1>. QED  BY <1>1, SpecInv, PTL

\* The queue's lock loses no wake-up.
THEOREM QueueLockWakes == Spec => []NoLostWakeup
<1>1. IInv => NoLostWakeup
  BY DEF IInv
<1>. QED  BY <1>1, SpecInv, PTL

-----------------------------------------------------------------------------
\* With one process at each end nobody but the writer ever has the lock.
LEMMA PairFacts ==
    ASSUME IInv, PromisesKept, NEW r \in Thread, NEW w \in Thread, r # w,
           Reader = {r}, Writer = {w}
    PROVE  /\ pc[r] \in {"user", "get"} /\ pc[w] \in {"user", "put", "put_lock", "put_sleep"}
           /\ \A t \in Thread \ {r, w} : pc[t] = "user"
           /\ consumer = NULL /\ (producer # NULL => producer = w /\ pc[w] = "put_sleep")
           /\ value = 0 <=> pc[w] = "put_sleep"
<1> USE DEF IInv
<1>1. /\ pc[r] \in {"user", "get"} /\ pc[w] \in {"user", "put", "put_lock", "put_sleep"}
      /\ \A t \in Thread \ {r, w} : pc[t] = "user"
  BY DEF TypeOK, PromisesKept, CallersInv, Label, Reading, Writing
<1>2. consumer = NULL /\ (producer # NULL => producer = w /\ pc[w] = "put_sleep")
  BY <1>1 DEF TypeOK, RecordedSleep
<1>3. value = 0 <=> pc[w] = "put_sleep"
  BY <1>1 DEF TypeOK, OneOwner, Owning
<1>. QED  BY <1>1, <1>2, <1>3

LEMMA PromisesStep ==
    ASSUME IInv, PromisesKept, [Next]_vars, ~Keyboard,
           NEW r \in Thread, NEW w \in Thread, r # w, Reader = {r}, Writer = {w}
    PROVE  PromisesKept'
<1> USE IoQueueAssumption
<1>1. /\ pc[r] \in {"user", "get"} /\ pc[w] \in {"user", "put", "put_lock", "put_sleep"}
      /\ \A t \in Thread \ {r, w} : pc[t] = "user"
      /\ consumer = NULL /\ (producer # NULL => producer = w /\ pc[w] = "put_sleep")
      /\ value = 0 <=> pc[w] = "put_sleep"
  BY PairFacts
<1>2. /\ pc[r] = "get" => left[r] <= Length
      /\ pc[w] = "put_lock" => cur = w /\ Full
      /\ producer # NULL => Full
  BY DEF PromisesKept
<1>3. SUFFICES /\ pc'[r] \in {"user", "get"} /\ (pc'[r] = "get" => left'[r] <= Length')
               /\ pc'[w] = "put_lock" => cur' = w /\ Full'
               /\ producer' # NULL => Full'
  BY DEF PromisesKept
<1>4. /\ RingOK /\ Length \in Nat /\ left \in [Thread -> 0..BufSize + MaxCount]
      /\ pc \in [Thread -> Label] /\ TInv
  BY LengthFacts DEF IInv, TypeOK, TInv, RingOK, Pos
<1>5. ASSUME UNCHANGED ring PROVE Length' = Length /\ (Full' <=> Full)
  BY <1>5 DEF ring, Length, Full, NextPos
<1>6. CASE Kernel
  <2>1. UNCHANGED qvars /\ UNCHANGED ring
    BY <1>6 DEF Kernel, qvars
  <2>2. pc[w] = "put_lock" => cur' = cur
    BY <1>2, <1>6
    DEF Kernel, IInv, CallersInv, Tick, IdleBlock, IdleHlt, IntrEnable, ThreadStart
  <2>. QED  BY <1>1, <1>2, <1>5, <2>1, <2>2 DEF qvars
<1>7. ASSUME NEW c \in Char PROVE ~KeyPress(c)
  BY DEF KeyPress
<1>8. ASSUME NEW n \in 1..MaxCount, NEW t \in Thread, SysRead(t, n)
      PROVE  PromisesKept'
  <2> USE <1>8 DEF SysRead
  <2>1. t = r /\ pc[r] = "user" /\ UNCHANGED ring /\ UNCHANGED <<cur, producer>>
    BY DEF At
  <2>2. left'[r] = Smaller(Length, n)
    BY <1>4, <2>1
  <2>3. left'[r] <= Length
    BY <1>4, <2>2 DEF Smaller
  <2>4. pc'[r] = "get" /\ pc'[w] = pc[w]
    BY <1>4, <2>1 DEF Goto
  <2>. QED  BY <1>2, <1>5, <2>1, <2>3, <2>4 DEF PromisesKept
<1>9. ASSUME NEW n \in 1..MaxCount, NEW t \in Thread, SysWrite(t, n)
      PROVE  PromisesKept'
  <2> USE <1>9 DEF SysWrite
  <2>1. t = w /\ UNCHANGED ring /\ UNCHANGED producer
    OBVIOUS
  <2>2. left'[r] = left[r] /\ pc'[r] = pc[r] /\ pc'[w] = "put"
    BY <1>4, <2>1 DEF Goto
  <2>. QED  BY <1>1, <1>2, <1>5, <2>1, <2>2 DEF PromisesKept
<1>10. ASSUME NEW t \in Thread, SysReturn(t) PROVE PromisesKept'
  <2> USE <1>10 DEF SysReturn
  <2>1. UNCHANGED ring /\ UNCHANGED <<cur, left, producer>>
    OBVIOUS
  <2>2. \A u \in Thread : pc'[u] = IF u = t THEN "user" ELSE pc[u]
    BY <1>4 DEF Goto
  <2>. QED  BY <1>1, <1>2, <1>5, <2>1, <2>2 DEF PromisesKept
<1>11. ASSUME NEW t \in Thread, GetChar(t) PROVE PromisesKept'
  <2> USE <1>11 DEF GetChar
  <2>1. t = r /\ cur = r
    BY <1>1 DEF At
  <2>2. Length' = Length - 1 /\ left'[r] = left[r] - 1 /\ left[r] \in Nat
    BY <1>4, <2>1, GetLength
  <2>. QED  BY <1>1, <1>2, <1>4, <2>1, <2>2 DEF PromisesKept
<1>12. ASSUME NEW t \in Thread, NEW c \in Char, PutChar(t, c) PROVE PromisesKept'
  <2> USE <1>12 DEF PutChar, Store
  <2>1. t = w /\ pc[w] = "put"
    BY <1>1 DEF At
  <2>2. Length' = Length + 1 /\ left'[r] = left[r] /\ left[r] \in Nat
    BY <1>4, <2>1, PutLength
  <2>. QED  BY <1>1, <1>2, <1>4, <2>1, <2>2 DEF PromisesKept
<1>13. ASSUME NEW t \in Thread, GoWait(t) PROVE PromisesKept'
  <2> USE <1>13 DEF GoWait, tvars
  <2>1. UNCHANGED ring /\ UNCHANGED <<cur, left, producer>>
    OBVIOUS
  <2>2. ~(At(t, "get") /\ left[t] > 0 /\ Empty)
    BY <1>1, <1>2, <1>4, LengthFacts DEF At
  <2>3. At(t, "put") /\ Full /\ Goto(t, "put_lock")
    BY <2>2
  <2>4. t = w /\ cur = w /\ \A u \in Thread : pc'[u] = IF u = w THEN "put_lock" ELSE pc[u]
    BY <1>1, <1>4, <2>3 DEF At, Goto
  <2>. QED  BY <1>1, <1>2, <1>5, <2>1, <2>3, <2>4 DEF PromisesKept
<1>14. ASSUME NEW t \in Thread PROVE ~LockBlock(t) /\ ~WaitGet(t)
  BY <1>1 DEF LockBlock, WaitGet, At
<1>15. ASSUME NEW t \in Thread, WaitPut(t) PROVE PromisesKept'
  <2> USE <1>15 DEF WaitPut
  <2>1. t = w /\ pc[w] = "put_lock" /\ UNCHANGED ring /\ UNCHANGED left
    BY <1>1 DEF At
  <2>2. \A u \in Thread : pc'[u] = IF u = w THEN "put_sleep" ELSE pc[u]
    BY <1>4, <2>1 DEF Goto
  <2>. QED  BY <1>1, <1>2, <1>5, <2>1, <2>2 DEF PromisesKept
<1>16. ASSUME NEW t \in Thread, LockRelease(t) PROVE PromisesKept'
  <2> USE <1>16 DEF LockRelease
  <2>1. At(t, "put_sleep") /\ Goto(t, "put") /\ t = w
    BY <1>1 DEF At
  <2>2. UNCHANGED ring /\ UNCHANGED <<left, producer>>
    OBVIOUS
  <2>3. \A u \in Thread : pc'[u] = IF u = w THEN "put" ELSE pc[u]
    BY <1>4, <2>1 DEF Goto
  <2>. QED  BY <1>1, <1>2, <1>5, <2>2, <2>3 DEF PromisesKept
<1>17. CASE UNCHANGED vars
  <2>1. UNCHANGED ring /\ UNCHANGED <<cur, left, producer, pc>>
    BY <1>17 DEF vars, qvars, tvars
  <2>. QED  BY <1>1, <1>2, <1>5, <2>1
<1>. QED
  BY <1>6, <1>7, <1>8, <1>9, <1>10, <1>11, <1>12, <1>13, <1>14, <1>15, <1>16, <1>17
  DEF Next, CallStep, PromisesKept

LEMMA PairInv == Spec => []PInv
<1>1. Init => PInv
  BY IoQueueAssumption DEF Init, PInv, OnePair, PromisesKept
<1>2. IInv /\ PInv /\ [Next]_vars => PInv'
  <2> SUFFICES ASSUME IInv, PInv, [Next]_vars, OnePair PROVE PromisesKept'
    BY DEF PInv, OnePair
  <2>1. PICK r, w \in Thread : r # w /\ Reader = {r} /\ Writer = {w}
    BY DEF OnePair
  <2>. QED  BY <2>1, PromisesStep DEF OnePair, PInv
<1>. QED  BY <1>1, <1>2, SpecInv, PTL DEF Spec

\* A pipe with one reader and one writer: pipe_read never sleeps, as its comment
\* promises, for every size of the ring and every count.
THEOREM PipeReaderNeverBlocks == Spec => [](OnePair => PipeReadNeverBlocks)
<1>1. IInv /\ PInv => (OnePair => PipeReadNeverBlocks)
  BY PairFacts DEF PInv, OnePair, PipeReadNeverBlocks
<1>. QED  BY <1>1, SpecInv, PairInv, PTL

\* In such a pipe the writer sleeps only while the ring is full.
THEOREM PipeSleepsWithReason == Spec => [](OnePair => SleepsWithReason)
<1>1. IInv /\ PInv => (OnePair => SleepsWithReason)
  BY PairFacts DEF PInv, OnePair, SleepsWithReason, PromisesKept
<1>. QED  BY <1>1, SpecInv, PairInv, PTL
==============================================================================
