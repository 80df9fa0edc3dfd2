---------------------------- MODULE ThreadsProofs ----------------------------
(***************************************************************************)
(* The scheduler is correct for every set of threads and every assignment  *)
(* of priorities.                                                          *)
(***************************************************************************)
EXTENDS Threads, TLAPS, Integers

(***************************************************************************)
(* What the operations on lists do to membership and order, for lists of   *)
(* any length                                                              *)
(***************************************************************************)
\* list_append: what it does to membership
LEMMA AppendFacts ==
    ASSUME NEW S, NEW list \in Seq(S), NEW t \in S
    PROVE  /\ Append(list, t) \in Seq(S)
           /\ Append(list, t) # <<>>
           /\ \A u : Find(Append(list, t), u) <=> Find(list, u) \/ u = t
           /\ NoDup(list) /\ ~Find(list, t) => NoDup(Append(list, t))
<1>1. /\ Append(list, t) \in Seq(S)
      /\ Len(Append(list, t)) = Len(list) + 1
      /\ Append(list, t)[Len(list) + 1] = t
      /\ \A i \in 1..Len(list) : Append(list, t)[i] = list[i]
  OBVIOUS
<1>2. Append(list, t) # <<>>
  BY <1>1
<1>3. ASSUME NEW u PROVE Find(Append(list, t), u) <=> Find(list, u) \/ u = t
  BY <1>1 DEF Find
<1>4. NoDup(list) /\ ~Find(list, t) => NoDup(Append(list, t))
  BY <1>1 DEF Find, NoDup
<1>. QED  BY <1>1, <1>2, <1>3, <1>4

\* list_push
LEMMA PushFacts ==
    ASSUME NEW S, NEW list \in Seq(S), NEW t \in S
    PROVE  /\ Push(list, t) \in Seq(S)
           /\ \A u : Find(Push(list, t), u) <=> Find(list, u) \/ u = t
           /\ NoDup(list) /\ ~Find(list, t) => NoDup(Push(list, t))
<1>1. /\ Push(list, t) \in Seq(S)
      /\ Len(Push(list, t)) = Len(list) + 1
      /\ Push(list, t)[1] = t
      /\ \A i \in 1..Len(list) : Push(list, t)[i + 1] = list[i]
      /\ \A i \in 2..Len(list) + 1 : Push(list, t)[i] = list[i - 1]
  BY DEF Push
<1>2. ASSUME NEW u PROVE Find(Push(list, t), u) <=> Find(list, u) \/ u = t
  <2>1. ASSUME Find(list, u) PROVE Find(Push(list, t), u)
    <3>1. PICK i \in 1..Len(list) : list[i] = u
      BY <2>1 DEF Find
    <3>2. i + 1 \in 1..Len(Push(list, t)) /\ Push(list, t)[i + 1] = u
      BY <1>1, <3>1
    <3>. QED  BY <3>2 DEF Find
  <2>2. Find(Push(list, t), t)
    BY <1>1 DEF Find
  <2>3. ASSUME Find(Push(list, t), u), u # t PROVE Find(list, u)
    <3>1. PICK i \in 1..Len(Push(list, t)) : Push(list, t)[i] = u
      BY <2>3 DEF Find
    <3>2. i - 1 \in 1..Len(list) /\ list[i - 1] = u
      BY <1>1, <2>3, <3>1
    <3>. QED  BY <3>2 DEF Find
  <2>. QED  BY <2>1, <2>2, <2>3
<1>3. NoDup(list) /\ ~Find(list, t) => NoDup(Push(list, t))
  BY <1>1 DEF Find, NoDup
<1>. QED  BY <1>1, <1>2, <1>3

\* list_pop
LEMMA PopFacts ==
    ASSUME NEW S, NEW list \in Seq(S), list # <<>>
    PROVE  /\ Head(list) \in S
           /\ Tail(list) \in Seq(S)
           /\ Find(list, Head(list))
           /\ NoDup(list) => /\ NoDup(Tail(list))
                             /\ \A u : Find(Tail(list), u) <=>
                                       Find(list, u) /\ u # Head(list)
<1>1. /\ Head(list) = list[1]
      /\ Len(list) \in Nat /\ Len(list) >= 1
      /\ Head(list) \in S
      /\ Tail(list) \in Seq(S)
      /\ Len(Tail(list)) = Len(list) - 1
      /\ \A i \in 1..Len(list) - 1 : Tail(list)[i] = list[i + 1]
  OBVIOUS
<1>2. Find(list, Head(list))
  BY <1>1 DEF Find
<1>3. ASSUME NoDup(list) PROVE NoDup(Tail(list))
  BY <1>1, <1>3 DEF NoDup
<1>4. ASSUME NoDup(list), NEW u
      PROVE  Find(Tail(list), u) <=> Find(list, u) /\ u # Head(list)
  <2>1. ASSUME Find(Tail(list), u) PROVE Find(list, u) /\ u # Head(list)
    BY <1>1, <1>4, <2>1 DEF Find, NoDup
  <2>2. ASSUME Find(list, u), u # Head(list) PROVE Find(Tail(list), u)
    <3>1. PICK i \in 1..Len(list) : list[i] = u
      BY <2>2 DEF Find
    <3>2. i - 1 \in 1..Len(Tail(list)) /\ Tail(list)[i - 1] = u
      BY <1>1, <2>2, <3>1
    <3>. QED  BY <3>2 DEF Find
  <2>. QED  BY <2>1, <2>2
<1>. QED  BY <1>1, <1>2, <1>3, <1>4

\* list_init
LEMMA EmptyFacts ==
    ASSUME NEW S
    PROVE  <<>> \in Seq(S) /\ NoDup(<<>>) /\ \A u : ~Find(<<>>, u)
BY DEF NoDup, Find

\* Where an element of a list without duplicates is
LEMMA PositionIs ==
    ASSUME NEW list, NoDup(list), NEW i \in 1..Len(list)
    PROVE  Position(list, list[i]) = i
BY DEF NoDup, Position


-----------------------------------------------------------------------------
\* What schedule() may be called with: statuses and a ready list that agree, in
\* which nobody but the caller runs.
SchedPre(st, rd) ==
    /\ st \in [Thread -> Status]
    /\ rd \in Seq(Thread)
    /\ \A t \in Thread : st[t] = "READY" <=> Find(rd, t)
    /\ \A t \in Thread : st[t] = "RUNNING" => t = cur
    /\ NoDup(rd)
    /\ \A t \in {Idle, Main, InitProc} : st[t] \in {"RUNNING", "READY", "BLOCKED"}

\* schedule() reestablishes the invariant from any such call, and none of its
\* ASSERTs fails.
LEMMA ScheduleCorrect ==
    ASSUME TTypeOK, saved[Idle], HltInterruptible,
           NEW st, NEW rd, NEW bad, ~bad, SchedPre(st, rd),
           Schedule(st, rd, bad)
    PROVE  /\ cur' \in Thread
           /\ status' \in [Thread -> Status]
           /\ ready' \in Seq(Thread)
           /\ ticks' \in [Thread -> Nat]
           /\ intr' \in BOOLEAN
           /\ saved' \in [Thread -> BOOLEAN]
           /\ panic' \in BOOLEAN
           /\ SchedInv'
           /\ \A t \in Thread : status'[t] = IF t = cur' THEN "RUNNING"
                                            ELSE IF st[t] = "RUNNING" THEN "READY"
                                            ELSE st[t]
           /\ \/ st[cur'] \in {"READY", "RUNNING"}
              \/ cur' = Idle /\ \A t \in Thread : st[t] \notin {"READY", "RUNNING"}
<1> USE ThreadAssumption
<1> DEFINE expired == st[cur] = "RUNNING"
           queue == IF expired THEN Append(rd, cur) ELSE rd
           next == IF queue = <<>> THEN Idle ELSE Head(queue)
           st1 == IF expired THEN [st EXCEPT ![cur] = "READY"] ELSE st
<1>1. /\ cur' = next
      /\ status' = [st1 EXCEPT ![next] = "RUNNING"]
      /\ ready' = IF queue = <<>> THEN <<>> ELSE Tail(queue)
      /\ ticks' = IF expired THEN [ticks EXCEPT ![cur] = Priority[cur]] ELSE ticks
      /\ saved' = [saved EXCEPT ![cur] = intr]
      /\ intr' = saved'[next]
      /\ panic' = \/ bad
                  \/ expired /\ Find(rd, cur)
                  \/ queue = <<>> /\ st1[Idle] \notin Sleeping
  BY DEF Schedule
<1>2. /\ st1 \in [Thread -> Status]
      /\ \A t \in Thread : st1[t] # "RUNNING"
      /\ \A t \in {Idle, Main, InitProc} : st1[t] \in {"READY", "BLOCKED"}
  BY DEF SchedPre, TTypeOK, Status
<1>3. /\ queue \in Seq(Thread)
      /\ NoDup(queue)
      /\ \A t \in Thread : st1[t] = "READY" <=> Find(queue, t)
      /\ expired => ~Find(rd, cur) /\ queue # <<>>
  <2>1. CASE expired
    <3>1. ~Find(rd, cur)
      BY <2>1 DEF SchedPre, TTypeOK
    <3>2. /\ Append(rd, cur) \in Seq(Thread)
          /\ Append(rd, cur) # <<>>
          /\ \A u : Find(Append(rd, cur), u) <=> Find(rd, u) \/ u = cur
          /\ NoDup(Append(rd, cur))
      BY <3>1, AppendFacts, SMTT(30) DEF SchedPre, TTypeOK
    <3>3. \A t \in Thread : st1[t] = "READY" <=> st[t] = "READY" \/ t = cur
      BY <2>1 DEF SchedPre, TTypeOK
    <3>. QED  BY <2>1, <3>1, <3>2, <3>3 DEF SchedPre
  <2>2. CASE ~expired
    BY <2>2 DEF SchedPre
  <2>. QED  BY <2>1, <2>2
<1>4. /\ next \in Thread
      /\ ready' \in Seq(Thread)
      /\ NoDup(ready')
      /\ \A t \in Thread : Find(ready', t) <=> st1[t] = "READY" /\ t # next
      /\ queue = <<>> => st1[Idle] \in Sleeping
  <2>1. CASE queue = <<>>
    <3>1. ready' = <<>> /\ next = Idle
      BY <1>1, <2>1
    <3>2. /\ <<>> \in Seq(Thread) /\ NoDup(<<>>)
          /\ \A t \in Thread : ~Find(<<>>, t) /\ st1[t] # "READY"
      BY <1>3, <2>1, EmptyFacts
    <3>. QED  BY <1>2, <3>1, <3>2 DEF Sleeping
  <2>2. CASE queue # <<>>
    <3>1. ready' = Tail(queue) /\ next = Head(queue)
      BY <1>1, <2>2
    <3> HIDE DEF queue, next, st1
    <3>2. /\ Head(queue) \in Thread
          /\ Tail(queue) \in Seq(Thread)
          /\ NoDup(Tail(queue))
          /\ \A u : Find(Tail(queue), u) <=> Find(queue, u) /\ u # Head(queue)
      BY <1>3, <2>2, PopFacts
    <3>. QED  BY <1>3, <2>2, <3>1, <3>2
  <2>. QED  BY <2>1, <2>2
<1>c. \A t \in Thread : st1[t] = IF st[t] = "RUNNING" THEN "READY" ELSE st[t]
  BY DEF SchedPre, TTypeOK
<1>d. \/ st1[next] = "READY"
      \/ next = Idle /\ \A t \in Thread : st1[t] # "READY"
  <2>1. CASE queue = <<>>
    BY <1>3, <2>1, EmptyFacts
  <2>2. CASE queue # <<>>
    <3> HIDE DEF queue, st1
    <3>1. Head(queue) \in Thread /\ Find(queue, Head(queue))
      BY <1>3, <2>2, PopFacts
    <3>. QED  BY <1>3, <2>2, <3>1
  <2>. QED  BY <2>1, <2>2
<1> HIDE DEF queue, next, st1
<1>5. /\ status' \in [Thread -> Status]
      /\ \A t \in Thread : status'[t] = IF t = next THEN "RUNNING" ELSE st1[t]
  BY <1>1, <1>2, <1>4 DEF Status
<1>6. ~panic'
  BY <1>1, <1>3, <1>4
<1>7. /\ saved' \in [Thread -> BOOLEAN]
      /\ saved'[Idle]
      /\ intr' = saved'[next]
  BY <1>1 DEF TTypeOK, HltInterruptible
<1>8. cur' \in Thread /\ intr' \in BOOLEAN /\ ticks' \in [Thread -> Nat]
      /\ panic' \in BOOLEAN
  BY <1>1, <1>4, <1>6, <1>7 DEF TTypeOK
<1>9. OneRunning'
  BY <1>1, <1>2, <1>4, <1>5 DEF OneRunning
<1>10. ReadyExact'
  BY <1>2, <1>4, <1>5 DEF ReadyExact
<1>11. IdleSleeps'
  BY <1>2, <1>5 DEF IdleSleeps
<1>12. HltInterruptible'
  BY <1>1, <1>7 DEF HltInterruptible
<1>13. \A t \in Thread : status'[t] = IF t = cur' THEN "RUNNING"
                                     ELSE IF st[t] = "RUNNING" THEN "READY"
                                     ELSE st[t]
  BY <1>1, <1>5, <1>c
<1>14. \/ st[cur'] \in {"READY", "RUNNING"}
       \/ cur' = Idle /\ \A t \in Thread : st[t] \notin {"READY", "RUNNING"}
  BY <1>1, <1>4, <1>c, <1>d
<1>. QED
  BY <1>4, <1>5, <1>6, <1>7, <1>8, <1>9, <1>10, <1>11, <1>12, <1>13, <1>14
  DEF SchedInv, NoPanic

-----------------------------------------------------------------------------
TInv == TTypeOK /\ SchedInv

LEMMA TInitInv == TInit => TInv
<1> SUFFICES ASSUME TInit PROVE TInv
  OBVIOUS
<1> USE ThreadAssumption DEF TInit
<1>1. /\ ready \in Seq(Thread)
      /\ Len(ready) = 2 /\ ready[1] = InitProc /\ ready[2] = Idle
  OBVIOUS
<1>2. TTypeOK
  BY <1>1 DEF TTypeOK, Status
<1>3. OneRunning
  BY DEF OneRunning
<1>4. \A t \in Thread : Find(ready, t) <=> t = InitProc \/ t = Idle
  BY <1>1, 1 \in 1..2, 2 \in 1..2, \A i \in 1..2 : i = 1 \/ i = 2 DEF Find
<1>5. NoDup(ready)
  BY <1>1 DEF NoDup
<1>6. ReadyExact
  BY <1>4, <1>5 DEF ReadyExact
<1>7. IdleSleeps /\ NoPanic /\ saved[Idle] /\ HltInterruptible
  BY DEF IdleSleeps, NoPanic, HltInterruptible
<1>. QED  BY <1>2, <1>3, <1>6, <1>7 DEF TInv, SchedInv

\* Each way into schedule(): the time slice is over, the thread blocks, or it
\* yields.
LEMMA ExpiredPre == TInv => SchedPre(status, ready)
BY ThreadAssumption
DEF TInv, TTypeOK, SchedInv, SchedPre, OneRunning, ReadyExact, IdleSleeps

LEMMA BlockPre ==
    ASSUME TInv, NEW stat \in Sleeping,
           stat # "BLOCKED" => cur \notin {Main, InitProc, Idle}
    PROVE  SchedPre([status EXCEPT ![cur] = stat], ready)
BY ThreadAssumption
DEF TInv, TTypeOK, SchedInv, SchedPre, OneRunning, ReadyExact, IdleSleeps,
    Sleeping, Status

LEMMA YieldPre ==
    ASSUME TInv
    PROVE  /\ SchedPre([status EXCEPT ![cur] = "READY"], Append(ready, cur))
           /\ ~Find(ready, cur)
<1> USE ThreadAssumption
<1> DEFINE st == [status EXCEPT ![cur] = "READY"]
<1>1. ~Find(ready, cur) /\ cur \in Thread /\ ready \in Seq(Thread)
  BY DEF TInv, TTypeOK, SchedInv, OneRunning, ReadyExact
<1>2. /\ Append(ready, cur) \in Seq(Thread)
      /\ \A u : Find(Append(ready, cur), u) <=> Find(ready, u) \/ u = cur
      /\ NoDup(Append(ready, cur))
  BY <1>1, AppendFacts DEF TInv, SchedInv, ReadyExact
<1>3. /\ st \in [Thread -> Status]
      /\ \A t \in Thread : st[t] = "READY" <=> status[t] = "READY" \/ t = cur
      /\ \A t \in Thread : st[t] = "RUNNING" => t = cur
      /\ \A t \in {Idle, Main, InitProc} : st[t] \in {"RUNNING", "READY", "BLOCKED"}
  BY DEF TInv, TTypeOK, SchedInv, OneRunning, IdleSleeps, Status
<1>4. \A t \in Thread : st[t] = "READY" <=> Find(Append(ready, cur), t)
  BY <1>2, <1>3 DEF TInv, SchedInv, ReadyExact
<1>. QED  BY <1>1, <1>2, <1>3, <1>4 DEF SchedPre

\* thread_unblock of a thread that sleeps keeps the invariant.
LEMMA UnblockCorrect ==
    ASSUME TInv, NEW t \in Thread, t # Idle, status[t] \in Sleeping,
           NEW bad, ~bad, Unblock(t, bad), idle_pc' \in {"block", "woken", "hlt"}
    PROVE  TInv'
<1> USE ThreadAssumption DEF TInv, Unblock
<1>1. ~Find(ready, t) /\ ready \in Seq(Thread)
  BY DEF TTypeOK, SchedInv, ReadyExact, Sleeping
<1>2. /\ ready' \in Seq(Thread)
      /\ \A u : Find(ready', u) <=> Find(ready, u) \/ u = t
      /\ NoDup(ready')
  BY <1>1, PushFacts DEF SchedInv, ReadyExact
<1>3. /\ status' \in [Thread -> Status]
      /\ \A u \in Thread : status'[u] = IF u = t THEN "READY" ELSE status[u]
  BY DEF TTypeOK, Status
<1>4. ~panic'
  BY <1>1
<1>5. TTypeOK'
  BY <1>2, <1>3, <1>4 DEF TTypeOK
<1>6. OneRunning'
  BY <1>3 DEF SchedInv, OneRunning, Sleeping
<1>7. ReadyExact'
  BY <1>2, <1>3 DEF SchedInv, ReadyExact
<1>8. IdleSleeps'
  BY <1>3 DEF SchedInv, IdleSleeps
<1>9. saved'[Idle] /\ HltInterruptible'
  BY DEF SchedInv, HltInterruptible
<1>. QED  BY <1>4, <1>5, <1>6, <1>7, <1>8, <1>9 DEF SchedInv, NoPanic

LEMMA StartCorrect ==
    ASSUME TInv, NEW t \in Thread, ThreadStart(t)
    PROVE  TInv'
<1> USE ThreadAssumption DEF TInv, ThreadStart
<1>1. ~Find(ready, t) /\ ready \in Seq(Thread)
  BY DEF TTypeOK, SchedInv, ReadyExact
<1>2. /\ ready' \in Seq(Thread)
      /\ \A u : Find(ready', u) <=> Find(ready, u) \/ u = t
      /\ NoDup(ready')
  BY <1>1, AppendFacts DEF SchedInv, ReadyExact
<1>3. /\ status' \in [Thread -> Status]
      /\ \A u \in Thread : status'[u] = IF u = t THEN "READY" ELSE status[u]
  BY DEF TTypeOK, Status
<1>4. panic' = FALSE
  BY <1>1
<1>a. ticks' \in [Thread -> Nat]
  BY DEF TTypeOK
<1>b. saved' \in [Thread -> BOOLEAN]
  BY DEF TTypeOK
<1>5. TTypeOK'
  BY <1>2, <1>3, <1>4, <1>a, <1>b DEF TTypeOK
<1>6. OneRunning'
  BY <1>3 DEF SchedInv, OneRunning
<1>7. ReadyExact'
  BY <1>2, <1>3 DEF SchedInv, ReadyExact
<1>8. IdleSleeps'
  BY <1>3 DEF SchedInv, IdleSleeps
<1>9. saved'[Idle] /\ HltInterruptible'
  BY DEF SchedInv, HltInterruptible, TTypeOK
<1>. QED  BY <1>4, <1>5, <1>6, <1>7, <1>8, <1>9 DEF SchedInv, NoPanic

LEMMA ExitCorrect ==
    ASSUME TInv, NEW t \in Thread, ThreadExit(t)
    PROVE  TInv'
<1> USE ThreadAssumption DEF TInv, ThreadExit
<1>1. ~Find(ready, t)
  BY DEF SchedInv, ReadyExact
<1>2. UNCHANGED ready
  BY <1>1
<1>3. /\ status' \in [Thread -> Status]
      /\ \A u \in Thread : status'[u] = IF u = t THEN "DIED" ELSE status[u]
  BY DEF TTypeOK, Status
<1>5. TTypeOK'
  BY <1>2, <1>3 DEF TTypeOK
<1>6. OneRunning'
  BY <1>3 DEF SchedInv, OneRunning
<1>7. ReadyExact'
  BY <1>1, <1>2, <1>3 DEF SchedInv, ReadyExact
<1>8. IdleSleeps'
  BY <1>3 DEF SchedInv, IdleSleeps
<1>9. saved'[Idle] /\ HltInterruptible' /\ NoPanic'
  BY DEF SchedInv, HltInterruptible, NoPanic
<1>. QED  BY <1>5, <1>6, <1>7, <1>8, <1>9 DEF SchedInv

\* Steps that leave the threads where they are.
LEMMA FlagCorrect ==
    ASSUME TInv, UNCHANGED <<cur, status, ready, saved, panic>>,
           ticks' \in [Thread -> Nat], intr' \in BOOLEAN,
           idle_pc' \in {"block", "woken", "hlt"},
           cur = Idle => intr'
    PROVE  TInv'
BY DEF TInv, TTypeOK, SchedInv, OneRunning, ReadyExact, IdleSleeps, NoPanic,
       HltInterruptible

LEMMA TNextInv == TInv /\ [TNext]_tvars => TInv'
<1> SUFFICES ASSUME TInv, [TNext]_tvars PROVE TInv'
  OBVIOUS
<1> USE ThreadAssumption
<1>a. TTypeOK /\ saved[Idle] /\ HltInterruptible
  BY DEF TInv, SchedInv
<1>b. WakeCpu => idle_pc' \in {"block", "woken", "hlt"}
  BY <1>a DEF WakeCpu, TTypeOK
<1>1. CASE Tick
  <2>1. CASE ticks[cur] = 0
    <3>1. Schedule(status, ready, FALSE)
      BY <1>1, <2>1 DEF Tick
    <3>. QED
      BY <1>1, <1>a, <1>b, <3>1, ExpiredPre, ScheduleCorrect DEF TInv, TTypeOK, Tick
  <2>2. CASE ticks[cur] # 0
    <3>1. ticks \in [Thread -> Nat] /\ cur \in Thread
          /\ ticks' = [ticks EXCEPT ![cur] = ticks[cur] - 1]
      BY <1>1, <1>a, <2>2 DEF Tick, TTypeOK
    <3>2. ticks[cur] - 1 \in Nat
      BY <2>2, <3>1
    <3>3. ticks' \in [Thread -> Nat]
      BY <3>1, <3>2
    <3>. QED
      BY <1>1, <1>a, <1>b, <2>2, <3>3, FlagCorrect DEF Tick, TTypeOK, HltInterruptible
  <2>. QED  BY <2>1, <2>2
<1>2. CASE IdleBlock
  <2>1. Schedule([status EXCEPT ![cur] = "BLOCKED"], ready, FALSE)
    BY <1>2 DEF IdleBlock, Block
  <2>2. SchedPre([status EXCEPT ![cur] = "BLOCKED"], ready)
    BY BlockPre DEF Sleeping
  <2>. QED
    BY <1>2, <1>a, <2>1, <2>2, ScheduleCorrect DEF TInv, TTypeOK, IdleBlock
<1>3. CASE IdleHlt
  BY <1>3, <1>a, FlagCorrect DEF IdleHlt, TTypeOK
<1>4. CASE IntrDisable
  BY <1>4, <1>a, FlagCorrect DEF IntrDisable, TTypeOK
<1>5. CASE IntrEnable
  BY <1>5, <1>a, FlagCorrect DEF IntrEnable, TTypeOK
<1>6. CASE ThreadYield
  <2>1. Schedule([status EXCEPT ![cur] = "READY"], Append(ready, cur),
                 Find(ready, cur))
    BY <1>6 DEF ThreadYield
  <2>2. Find(ready, cur) = FALSE
    BY YieldPre
  <2>3. Schedule([status EXCEPT ![cur] = "READY"], Append(ready, cur), FALSE)
    BY <2>1, <2>2
  <2>4. SchedPre([status EXCEPT ![cur] = "READY"], Append(ready, cur))
    BY YieldPre
  <2>. QED
    BY <1>6, <1>a, <2>3, <2>4, ScheduleCorrect DEF TInv, TTypeOK, ThreadYield
<1>7. ASSUME NEW stat \in Sleeping, ThreadBlock(stat) PROVE TInv'
  <2>1. Schedule([status EXCEPT ![cur] = stat], ready, FALSE)
    BY <1>7 DEF ThreadBlock, Block
  <2>2. SchedPre([status EXCEPT ![cur] = stat], ready)
    BY <1>7, BlockPre DEF ThreadBlock
  <2>. QED
    BY <1>7, <1>a, <2>1, <2>2, ScheduleCorrect DEF TInv, TTypeOK, ThreadBlock
<1>8. ASSUME NEW t \in Thread, ThreadUnblock(t) PROVE TInv'
  BY <1>8, <1>b, UnblockCorrect DEF ThreadUnblock, Sleeping
<1>9. ASSUME NEW t \in Thread, ThreadStart(t) PROVE TInv'
  BY <1>9, StartCorrect
<1>10. ASSUME NEW t \in Thread, ThreadExit(t) PROVE TInv'
  BY <1>10, ExitCorrect
<1>11. CASE UNCHANGED tvars
  BY <1>11, <1>a, FlagCorrect DEF tvars, TTypeOK, HltInterruptible
<1>. QED
  BY <1>1, <1>2, <1>3, <1>4, <1>5, <1>6, <1>7, <1>8, <1>9, <1>10, <1>11 DEF TNext

\* The variables of the scheduler keep their types: in particular the time
\* slice, which the timer handler counts down, stays a natural number.
THEOREM ThreadsTyped == TSpec => []TTypeOK
<1>1. TSpec => []TInv
  BY TInitInv, TNextInv, PTL DEF TSpec
<1>2. TInv => TTypeOK
  BY DEF TInv
<1>. QED  BY <1>1, <1>2, PTL

\* For any number of threads: one thread runs, the ready list is exactly the
\* ready threads, and the ASSERTs of thread.c hold.
THEOREM SchedulerCorrect == TSpec => []SchedInv
<1>1. TSpec => []TInv
  BY TInitInv, TNextInv, PTL DEF TSpec
<1>2. TInv => SchedInv
  BY DEF TInv
<1>. QED  BY <1>1, <1>2, PTL

-----------------------------------------------------------------------------
\* What another component may rely on when threads are switched: the status of
\* a thread that is not the caller, and the interrupt flag each thread finds.
Live == {"READY", "RUNNING"}
Switched == saved' = [saved EXCEPT ![cur] = intr] /\ intr' = saved'[cur']

\* What a step of the scheduler that wakes nobody does to the status of a thread
\* other than idle: it moves between READY and RUNNING or not at all.
LEMMA QuietStatus ==
    ASSUME TInv,
           Tick \/ IdleBlock \/ IdleHlt \/ IntrDisable \/ IntrEnable \/ ThreadYield
    PROVE  \A u \in Thread \ {Idle} :
               status'[u] = status[u] \/ (status[u] \in Live /\ status'[u] \in Live)
<1> USE ThreadAssumption
<1>a. TTypeOK /\ saved[Idle] /\ HltInterruptible
  BY DEF TInv, SchedInv
<1>1. CASE Tick
  <2>1. CASE ticks[cur] = 0
    <3>1. Schedule(status, ready, FALSE)
      BY <1>1, <2>1 DEF Tick
    <3>2. \A t \in Thread : status'[t] = IF t = cur' THEN "RUNNING"
                                         ELSE IF status[t] = "RUNNING" THEN "READY"
                                         ELSE status[t]
      BY <1>a, <3>1, ExpiredPre, ScheduleCorrect
    <3>3. status[cur'] \in {"READY", "RUNNING"} \/ cur' = Idle
      BY <1>a, <3>1, ExpiredPre, ScheduleCorrect
    <3>. QED  BY <3>2, <3>3 DEF Live
  <2>2. CASE ticks[cur] # 0
    BY <1>1, <2>2 DEF Tick
  <2>. QED  BY <2>1, <2>2
<1>2. CASE IdleBlock
  <2> DEFINE st == [status EXCEPT ![cur] = "BLOCKED"]
  <2>1. Schedule(st, ready, FALSE) /\ cur = Idle
    BY <1>2 DEF IdleBlock, Block
  <2>2. SchedPre(st, ready)
    BY BlockPre DEF Sleeping
  <2>3. \A u \in Thread \ {Idle} : st[u] = status[u]
    BY <1>a, <2>1 DEF TTypeOK
  <2> HIDE DEF st
  <2>4. \A t \in Thread : status'[t] = IF t = cur' THEN "RUNNING"
                                       ELSE IF st[t] = "RUNNING" THEN "READY"
                                       ELSE st[t]
    BY <1>a, <2>1, <2>2, ScheduleCorrect
  <2>5. st[cur'] \in {"READY", "RUNNING"} \/ cur' = Idle
    BY <1>a, <2>1, <2>2, ScheduleCorrect
  <2>. QED  BY <2>3, <2>4, <2>5 DEF Live
<1>3. CASE ThreadYield
  <2> DEFINE st == [status EXCEPT ![cur] = "READY"]
  <2>a. Find(ready, cur) = FALSE
    BY YieldPre
  <2>b. Schedule(st, Append(ready, cur), Find(ready, cur))
    BY <1>3 DEF ThreadYield
  <2>1. Schedule(st, Append(ready, cur), FALSE)
    BY <2>a, <2>b
  <2>2. SchedPre(st, Append(ready, cur))
    BY YieldPre
  <2>3. status[cur] = "RUNNING"
        /\ \A u \in Thread : st[u] = IF u = cur THEN "READY" ELSE status[u]
    BY <1>a DEF TTypeOK, TInv, SchedInv, OneRunning
  <2> HIDE DEF st
  <2>4. \A t \in Thread : status'[t] = IF t = cur' THEN "RUNNING"
                                       ELSE IF st[t] = "RUNNING" THEN "READY"
                                       ELSE st[t]
    BY <1>a, <2>1, <2>2, ScheduleCorrect
  <2>5. st[cur'] \in {"READY", "RUNNING"} \/ cur' = Idle
    BY <1>a, <2>1, <2>2, ScheduleCorrect
  <2>. QED  BY <2>3, <2>4, <2>5 DEF Live
<1>4. CASE IdleHlt \/ IntrDisable \/ IntrEnable
  BY <1>4 DEF IdleHlt, IntrDisable, IntrEnable
<1>. QED  BY <1>1, <1>2, <1>3, <1>4

LEMMA QuietFlags ==
    ASSUME Tick \/ IdleBlock \/ ThreadYield
    PROVE  UNCHANGED <<cur, intr, saved>> \/ Switched
BY DEF Tick, IdleBlock, ThreadYield, Block, Schedule, Switched

\* thread_block by a thread other than idle: it leaves the CPU and sleeps.
LEMMA BlockStep ==
    ASSUME TInv, NEW stat \in Sleeping, cur # Idle,
           stat # "BLOCKED" => cur \notin {Main, InitProc},
           NEW bad, ~bad, Block(stat, status, ready, bad), UNCHANGED idle_pc
    PROVE  /\ TInv' /\ Switched
           /\ cur' # cur /\ status'[cur] = stat
           /\ \A u \in Thread \ {Idle, cur} :
                 status'[u] = status[u] \/ (status[u] \in Live /\ status'[u] \in Live)
<1> USE ThreadAssumption
<1>1. TTypeOK /\ saved[Idle] /\ HltInterruptible
  BY DEF TInv, SchedInv
<1> DEFINE st == [status EXCEPT ![cur] = stat]
<1>2. SchedPre(st, ready) /\ Schedule(st, ready, bad)
  BY BlockPre DEF Block
<1>3. \A u \in Thread : st[u] = IF u = cur THEN stat ELSE status[u]
  BY <1>1 DEF TTypeOK
<1>4. Switched
  BY DEF Block, Schedule, Switched
<1> HIDE DEF st
<1>a. /\ cur' \in Thread /\ status' \in [Thread -> Status] /\ ready' \in Seq(Thread)
      /\ ticks' \in [Thread -> Nat] /\ intr' \in BOOLEAN
      /\ saved' \in [Thread -> BOOLEAN] /\ panic' \in BOOLEAN /\ SchedInv'
  BY <1>1, <1>2, ScheduleCorrect
<1>5. TInv'
  BY <1>1, <1>a DEF TInv, TTypeOK
<1>6. /\ \A u \in Thread : status'[u] = IF u = cur' THEN "RUNNING"
                                        ELSE IF st[u] = "RUNNING" THEN "READY"
                                        ELSE st[u]
      /\ st[cur'] \in {"READY", "RUNNING"} \/ cur' = Idle
  BY <1>1, <1>2, ScheduleCorrect
<1>7. cur \in Thread /\ stat \notin {"READY", "RUNNING"}
  BY <1>1 DEF TTypeOK, Sleeping
<1>8. cur' # cur
  BY <1>3, <1>6, <1>7
<1>. QED  BY <1>3, <1>4, <1>5, <1>6, <1>7, <1>8 DEF Live

\* The same for sys_exit, which wakes its parent p and then hangs.
LEMMA WakeAndBlock ==
    ASSUME TInv, NEW p \in Thread, p # Idle, status[p] \in Sleeping,
           cur \notin {Main, Idle, InitProc}, NEW bad, ~bad,
           Block("HANGING", [status EXCEPT ![p] = "READY"], Push(ready, p), bad),
           UNCHANGED idle_pc
    PROVE  /\ TInv' /\ Switched
           /\ cur' # cur /\ status'[cur] = "HANGING" /\ status'[p] \in Live
           /\ \A u \in Thread \ {Idle, cur, p} :
                 status'[u] = status[u] \/ (status[u] \in Live /\ status'[u] \in Live)
<1> USE ThreadAssumption
<1>1. TTypeOK /\ saved[Idle] /\ HltInterruptible /\ OneRunning /\ ReadyExact /\ IdleSleeps
  BY DEF TInv, SchedInv
<1> DEFINE st == [[status EXCEPT ![p] = "READY"] EXCEPT ![cur] = "HANGING"]
           rd == Push(ready, p)
<1>2. Schedule(st, rd, bad)
  BY DEF Block
<1>3. cur \in Thread /\ p # cur /\ ~Find(ready, p) /\ ready \in Seq(Thread)
  BY <1>1 DEF TTypeOK, OneRunning, ReadyExact, Sleeping
<1>4. /\ st \in [Thread -> Status]
      /\ \A u \in Thread : st[u] = IF u = cur THEN "HANGING"
                                   ELSE IF u = p THEN "READY" ELSE status[u]
  BY <1>1, <1>3 DEF TTypeOK, Status
<1>5. /\ rd \in Seq(Thread) /\ NoDup(rd)
      /\ \A u : Find(rd, u) <=> Find(ready, u) \/ u = p
  BY <1>1, <1>3, PushFacts DEF ReadyExact
<1>6. Switched
  BY DEF Block, Schedule, Switched
<1> HIDE DEF st, rd
<1>7. SchedPre(st, rd)
  BY <1>1, <1>3, <1>4, <1>5 DEF SchedPre, OneRunning, ReadyExact, IdleSleeps
<1>a. TTypeOK /\ saved[Idle] /\ HltInterruptible
  BY <1>1
<1>b. /\ cur' \in Thread /\ status' \in [Thread -> Status] /\ ready' \in Seq(Thread)
      /\ ticks' \in [Thread -> Nat] /\ intr' \in BOOLEAN
      /\ saved' \in [Thread -> BOOLEAN] /\ panic' \in BOOLEAN /\ SchedInv'
  BY <1>a, <1>2, <1>7, ScheduleCorrect
<1>8. TInv'
  BY <1>a, <1>b DEF TInv, TTypeOK
<1>9. /\ \A u \in Thread : status'[u] = IF u = cur' THEN "RUNNING"
                                        ELSE IF st[u] = "RUNNING" THEN "READY"
                                        ELSE st[u]
      /\ st[cur'] \in {"READY", "RUNNING"} \/ cur' = Idle
  BY <1>1, <1>2, <1>7, ScheduleCorrect
<1>10. cur' # cur
  BY <1>3, <1>4, <1>9
<1>. QED  BY <1>3, <1>4, <1>6, <1>8, <1>9, <1>10 DEF Live

-----------------------------------------------------------------------------
\* The abstraction, read off the status fields alone.
Runnable == {t \in Thread : Find(ready, t)}
Asleep == {t \in Thread : status[t] \in Sleeping}

LEMMA RunnableIsReady ==
    ASSUME TInv PROVE Runnable = {t \in Thread : status[t] = "READY"}
BY DEF TInv, SchedInv, ReadyExact, Runnable

\* A call of schedule() is a step of the abstract scheduler: the caller stays
\* runnable or goes to sleep, according to the status it has given itself.
LEMMA ScheduleAbstract ==
    ASSUME TInv, TInv', NEW st \in [Thread -> Status],
           \A t \in Thread : t # cur => st[t] = status[t],
           st[cur] \in {"RUNNING", "READY"} \cup Sleeping,
           cur = Idle => st[cur] # "HANGING",
           \A t \in Thread : status'[t] = IF t = cur' THEN "RUNNING"
                                          ELSE IF st[t] = "RUNNING" THEN "READY"
                                          ELSE st[t],
           \/ st[cur'] \in {"READY", "RUNNING"}
           \/ cur' = Idle /\ \A t \in Thread : st[t] \notin {"READY", "RUNNING"}
    PROVE  Abstract!Preempt \/ Abstract!Sleep
<1> USE ThreadAssumption
<1>1. Runnable = {t \in Thread : status[t] = "READY"}
  BY RunnableIsReady
<1>2. Runnable' = {t \in Thread : status'[t] = "READY"}
  BY DEF TInv, SchedInv, ReadyExact, Runnable
<1>3. cur \in Thread /\ cur' \in Thread
      /\ \A t \in Thread : status[t] = "RUNNING" <=> t = cur
  BY DEF TInv, TTypeOK, SchedInv, OneRunning
<1>4. CASE st[cur] \in {"RUNNING", "READY"}
  <2>1. cur' \in Runnable \cup {cur}
    BY <1>1, <1>3, <1>4
  <2>2. Runnable' = (Runnable \cup {cur}) \ {cur'}
    BY <1>1, <1>2, <1>3, <1>4
  <2>3. Asleep' = Asleep
    BY <1>3, <1>4, <2>1, <1>1 DEF Asleep, Sleeping
  <2>. QED  BY <2>1, <2>2, <2>3 DEF Abstract!Preempt, Runnable, Asleep
<1>5. CASE st[cur] \in Sleeping
  <2>1. CASE st[cur'] \in {"READY", "RUNNING"}
    <3>1. cur' \in Runnable
      BY <1>1, <1>3, <1>5, <2>1 DEF Sleeping
    <3>2. Runnable' = Runnable \ {cur'}
      BY <1>1, <1>2, <1>3, <1>5, <3>1 DEF Sleeping
    <3>3. Asleep' = Asleep \cup {cur}
      BY <1>1, <1>3, <1>5, <3>1 DEF Asleep, Sleeping
    <3>. QED  BY <3>1, <3>2, <3>3 DEF Abstract!Sleep, Runnable, Asleep
  <2>2. CASE cur' = Idle /\ \A t \in Thread : st[t] \notin {"READY", "RUNNING"}
    <3>1. Runnable = {} /\ Runnable' = {}
      BY <1>1, <1>2, <1>3, <1>5, <2>2 DEF Sleeping
    <3>2. Asleep' = (Asleep \cup {cur}) \ {Idle}
      BY <1>3, <1>5, <2>2 DEF Asleep, Sleeping
    <3>. QED  BY <2>2, <3>1, <3>2 DEF Abstract!Sleep, Runnable, Asleep
  <2>. QED  BY <2>1, <2>2
<1>. QED  BY <1>4, <1>5

LEMMA StepAbstract ==
    ASSUME TInv, TInv', [TNext]_tvars
    PROVE  [Abstract!SNext]_(Abstract!svars)
<1> USE ThreadAssumption
<1>a. TTypeOK /\ saved[Idle] /\ HltInterruptible /\ OneRunning
  BY DEF TInv, SchedInv
<1>b. cur \in Thread /\ status \in [Thread -> Status] /\ status[cur] = "RUNNING"
  BY <1>a DEF TTypeOK, OneRunning
<1>c. ASSUME UNCHANGED <<cur, status, ready>> PROVE UNCHANGED Abstract!svars
  BY <1>c DEF Abstract!svars
<1>d. ASSUME Abstract!Preempt \/ Abstract!Sleep PROVE Abstract!SNext
  BY <1>d DEF Abstract!SNext
<1>1. CASE Tick
  <2>1. CASE ticks[cur] = 0
    <3>1. Schedule(status, ready, FALSE)
      BY <1>1, <2>1 DEF Tick
    <3>. QED
      BY <1>a, <1>b, <1>d, <3>1, ExpiredPre, ScheduleCorrect, ScheduleAbstract
  <2>2. CASE ticks[cur] # 0
    BY <1>1, <1>c, <2>2 DEF Tick
  <2>. QED  BY <2>1, <2>2
<1>2. ASSUME NEW stat \in Sleeping, Block(stat, status, ready, FALSE),
             stat # "BLOCKED" => cur \notin {Main, InitProc, Idle}
      PROVE  Abstract!SNext
  <2> DEFINE st == [status EXCEPT ![cur] = stat]
  <2>1. Schedule(st, ready, FALSE) /\ SchedPre(st, ready)
    BY <1>2, BlockPre DEF Block
  <2>2. /\ st \in [Thread -> Status] /\ st[cur] = stat
        /\ \A t \in Thread : t # cur => st[t] = status[t]
    BY <1>b DEF Sleeping, Status
  <2> HIDE DEF st
  <2>. QED
    BY <1>2, <1>a, <1>d, <2>1, <2>2, ScheduleCorrect, ScheduleAbstract
<1>3. CASE IdleBlock
  BY <1>2, <1>3 DEF IdleBlock, Sleeping
<1>4. ASSUME NEW stat \in Sleeping, ThreadBlock(stat) PROVE Abstract!SNext
  BY <1>2, <1>4 DEF ThreadBlock
<1>5. CASE ThreadYield
  <2> DEFINE st == [status EXCEPT ![cur] = "READY"]
  <2>1. Find(ready, cur) = FALSE /\ SchedPre(st, Append(ready, cur))
    BY YieldPre
  <2>2. Schedule(st, Append(ready, cur), Find(ready, cur))
    BY <1>5 DEF ThreadYield
  <2>3. Schedule(st, Append(ready, cur), FALSE)
    BY <2>1, <2>2
  <2>4. /\ st \in [Thread -> Status] /\ st[cur] = "READY"
        /\ \A t \in Thread : t # cur => st[t] = status[t]
    BY <1>b DEF Status
  <2> HIDE DEF st
  <2>. QED
    BY <1>a, <1>d, <2>1, <2>3, <2>4, ScheduleCorrect, ScheduleAbstract
<1>6. ASSUME NEW t \in Thread, ThreadUnblock(t) PROVE Abstract!SNext
  <2>1. /\ t # Idle /\ status[t] \in Sleeping /\ UNCHANGED cur
        /\ status' = [status EXCEPT ![t] = "READY"]
        /\ ready' = Push(ready, t) /\ ready \in Seq(Thread)
    BY <1>6, <1>a DEF ThreadUnblock, Unblock, Sleeping, TTypeOK
  <2>a. \A u : Find(ready', u) <=> Find(ready, u) \/ u = t
    BY <2>1, PushFacts
  <2>2. Runnable' = Runnable \cup {t}
    BY <2>a DEF Runnable
  <2>3. Asleep' = Asleep \ {t} /\ t \in Asleep
    BY <1>b, <2>1 DEF Asleep, Sleeping
  <2>. QED
    BY <2>1, <2>2, <2>3 DEF Abstract!SNext, Abstract!Wake, Runnable, Asleep
<1>7. ASSUME NEW t \in Thread, ThreadStart(t) PROVE Abstract!SNext
  <2>1. /\ status[t] = "DIED" /\ UNCHANGED cur
        /\ status' = [status EXCEPT ![t] = "READY"]
        /\ ready' = Append(ready, t) /\ ready \in Seq(Thread)
    BY <1>7, <1>a DEF ThreadStart, TTypeOK
  <2>2. Runnable' = Runnable \cup {t}
    BY <2>1, AppendFacts DEF Runnable
  <2>3. Asleep' = Asleep /\ t \notin Asleep
    BY <1>b, <2>1 DEF Asleep, Sleeping
  <2>4. t \notin Runnable /\ t # cur
    BY <1>b, <2>1, RunnableIsReady
  <2>. QED
    BY <2>1, <2>2, <2>3, <2>4 DEF Abstract!SNext, Abstract!Create, Runnable, Asleep
<1>8. ASSUME NEW t \in Thread, ThreadExit(t) PROVE Abstract!SNext
  <2>1. /\ status[t] = "HANGING" /\ UNCHANGED cur
        /\ status' = [status EXCEPT ![t] = "DIED"]
        /\ t # Idle
    BY <1>8 DEF ThreadExit, TInv, SchedInv, IdleSleeps
  <2>2. ~Find(ready, t)
    BY <2>1 DEF TInv, SchedInv, ReadyExact
  <2>3. Runnable' = Runnable
    BY <1>8, <2>2 DEF ThreadExit, Runnable
  <2>4. Asleep' = Asleep \ {t} /\ t \in Asleep
    BY <1>b, <2>1 DEF Asleep, Sleeping
  <2>. QED
    BY <2>1, <2>3, <2>4 DEF Abstract!SNext, Abstract!Dispose, Runnable, Asleep
<1>9. CASE IdleHlt \/ IntrDisable \/ IntrEnable \/ UNCHANGED tvars
  BY <1>9, <1>c DEF IdleHlt, IntrDisable, IntrEnable, tvars
<1>. QED
  BY <1>1, <1>3, <1>4, <1>5, <1>6, <1>7, <1>8, <1>9 DEF TNext

\* thread.c implements the abstract scheduler for any number of threads: the
\* tags, pushes, appends and pops of the ready list are those of a set, and idle
\* is woken only when nobody else can run.
THEOREM ThreadsImplementScheduler == TSpec => AbstractScheduler
<1>1. TInit => Abstract!SInit
  <2> SUFFICES ASSUME TInit PROVE Abstract!SInit
    OBVIOUS
  <2> USE ThreadAssumption
  <2>1. TInv
    BY TInitInv
  <2>2. Runnable = {InitProc, Idle}
    BY <2>1, RunnableIsReady DEF TInit
  <2>3. Asleep = {}
    BY DEF TInit, Asleep, Sleeping
  <2>. QED  BY <2>2, <2>3 DEF TInit, Abstract!SInit, Runnable, Asleep
<1>2. TInv /\ TInv' /\ [TNext]_tvars => [Abstract!SNext]_(Abstract!svars)
  BY StepAbstract
<1>3. TSpec => []TInv
  BY TInitInv, TNextInv, PTL DEF TSpec
<1>. QED  BY <1>1, <1>2, <1>3, PTL DEF TSpec, AbstractScheduler, Abstract!SSpec

-----------------------------------------------------------------------------
\* A step moves the ready list by d places: what stands at i came from i + d, is
\* new at the end, or has been asleep.
Moved(d) ==
    \A i \in 1..Len(ready') :
        \/ i + d \in 1..Len(ready) /\ ready'[i] = ready[i + d]
        \/ i + d > Len(ready) /\ ~Find(ready, ready'[i])
        \/ status[ready'[i]] \in Sleeping

LEMMA MovedFifo ==
    ASSUME TInv, TInv', NEW d \in Int, Moved(d)
    PROVE  FifoStep
<1>1. /\ ready \in Seq(Thread) /\ NoDup(ready) /\ ready' \in Seq(Thread) /\ NoDup(ready')
      /\ \A u \in Thread : Find(ready, u) => status[u] \notin Sleeping
  BY DEF TInv, TTypeOK, SchedInv, ReadyExact, Sleeping
<1> SUFFICES ASSUME NEW s \in Thread, NEW t \in Thread,
                    s # t, Find(ready, s), Find(ready', s), Find(ready', t),
                    Position(ready', t) < Position(ready', s),
                    status[t] \notin Sleeping
             PROVE  Find(ready, t) /\ Position(ready, t) < Position(ready, s)
  BY DEF FifoStep
<1>2. PICK i \in 1..Len(ready') : ready'[i] = s
  BY DEF Find
<1>3. PICK j \in 1..Len(ready') : ready'[j] = t
  BY DEF Find
<1>4. Position(ready', s) = i /\ Position(ready', t) = j
  BY <1>1, <1>2, <1>3, PositionIs
<1>5. i \in Nat /\ j \in Nat /\ j < i /\ Len(ready) \in Nat
  BY <1>1, <1>2, <1>3, <1>4
<1>6. i + d \in 1..Len(ready) /\ ready[i + d] = s
  BY <1>1, <1>2 DEF Moved
<1>7. j + d \in 1..Len(ready) /\ ready[j + d] = t
  BY <1>3, <1>5, <1>6 DEF Moved
<1>8. Position(ready, s) = i + d /\ Position(ready, t) = j + d
  BY <1>1, <1>6, <1>7, PositionIs
<1>. QED  BY <1>5, <1>7, <1>8 DEF Find

\* schedule() takes the first of the list away; whoever it puts there goes to the
\* end.
LEMMA ScheduleMoved ==
    ASSUME TInv, NEW st, NEW rd, NEW bad, Schedule(st, rd, bad), rd \in Seq(Thread),
           rd = ready \/ (rd = Append(ready, cur) /\ st[cur] # "RUNNING")
    PROVE  Moved(1)
<1>1. cur \in Thread /\ ready \in Seq(Thread) /\ ~Find(ready, cur)
  BY DEF TInv, TTypeOK, SchedInv, OneRunning, ReadyExact
<1>2. PICK queue \in {ready, Append(ready, cur)} :
         ready' = IF queue = <<>> THEN <<>> ELSE Tail(queue)
  BY DEF Schedule
<1>3. /\ queue \in Seq(Thread) /\ Len(queue) \in Nat
      /\ \A i \in 1..Len(queue) :
            \/ i \in 1..Len(ready) /\ queue[i] = ready[i]
            \/ i > Len(ready) /\ ~Find(ready, queue[i])
  <2>1. CASE queue = ready
    BY <1>1, <2>1
  <2>2. CASE queue = Append(ready, cur)
    BY <1>1, <2>2
  <2>. QED  BY <1>2, <2>1, <2>2
<1>4. CASE queue = <<>>
  BY <1>2, <1>4 DEF Moved
<1>5. CASE queue # <<>>
  <2>1. /\ ready' = Tail(queue) /\ Len(Tail(queue)) = Len(queue) - 1
        /\ \A i \in 1..Len(queue) - 1 : Tail(queue)[i] = queue[i + 1]
    BY <1>2, <1>3, <1>5
  <2>2. ASSUME NEW i \in 1..Len(ready')
        PROVE  \/ i + 1 \in 1..Len(ready) /\ ready'[i] = ready[i + 1]
               \/ i + 1 > Len(ready) /\ ~Find(ready, ready'[i])
    <3>1. i + 1 \in 1..Len(queue) /\ ready'[i] = queue[i + 1]
      BY <1>3, <2>1
    <3>. QED  BY <1>3, <3>1
  <2>. QED  BY <2>2 DEF Moved
<1>. QED  BY <1>4, <1>5

LEMMA StepMoved ==
    ASSUME TInv, TNext PROVE \E d \in Int : Moved(d)
<1> USE ThreadAssumption
<1>1. /\ cur \in Thread /\ ready \in Seq(Thread) /\ Len(ready) \in Nat
      /\ ~Find(ready, cur) /\ status \in [Thread -> Status]
  BY DEF TInv, TTypeOK, SchedInv, OneRunning, ReadyExact
<1>2. ASSUME UNCHANGED ready PROVE Moved(0)
  BY <1>1, <1>2 DEF Moved
<1>3. CASE Tick \/ IdleBlock \/ \E stat \in Sleeping : ThreadBlock(stat)
  <2>1. UNCHANGED ready \/ \E st, bad : Schedule(st, ready, bad)
    BY <1>3 DEF Tick, IdleBlock, ThreadBlock, Block
  <2>. QED  BY <1>1, <1>2, <2>1, ScheduleMoved
<1>4. CASE ThreadYield
  <2> DEFINE st == [status EXCEPT ![cur] = "READY"]
             rd == Append(ready, cur)
  <2>1. Schedule(st, rd, Find(ready, cur))
    BY <1>4 DEF ThreadYield
  <2>2. st[cur] # "RUNNING" /\ rd \in Seq(Thread) /\ rd = Append(ready, cur)
    BY <1>1
  <2> DEFINE twice == Find(ready, cur)
  <2>3. Schedule(st, rd, twice)
    BY <2>1
  <2> HIDE DEF st, rd, twice
  <2>4. Moved(1)
    BY <2>2, <2>3, ScheduleMoved
  <2>. QED  BY <2>4
<1>5. ASSUME NEW t \in Thread, ThreadUnblock(t) PROVE Moved(-1)
  <2>1. ready' = Push(ready, t) /\ status[t] \in Sleeping
    BY <1>5 DEF ThreadUnblock, Unblock, Sleeping
  <2>2. /\ Len(ready') = Len(ready) + 1 /\ ready'[1] = t
        /\ \A i \in 2..Len(ready) + 1 : ready'[i] = ready[i - 1]
    BY <1>1, <2>1 DEF Push
  <2>. QED  BY <1>1, <2>1, <2>2 DEF Moved
<1>6. ASSUME NEW t \in Thread, ThreadStart(t) PROVE Moved(0)
  <2>1. ready' = Append(ready, t) /\ ~Find(ready, t)
    BY <1>6 DEF ThreadStart, TInv, SchedInv, ReadyExact
  <2>2. /\ Len(ready') = Len(ready) + 1 /\ ready'[Len(ready) + 1] = t
        /\ \A i \in 1..Len(ready) : ready'[i] = ready[i]
    BY <1>1, <2>1
  <2>. QED  BY <1>1, <2>1, <2>2 DEF Moved
<1>7. ASSUME NEW t \in Thread, ThreadExit(t) PROVE Moved(0)
  <2>1. ~Find(ready, t)
    BY <1>7 DEF ThreadExit, TInv, SchedInv, ReadyExact
  <2>. QED  BY <1>2, <1>7, <2>1 DEF ThreadExit
<1>8. CASE IdleHlt \/ IntrDisable \/ IntrEnable
  BY <1>2, <1>8 DEF IdleHlt, IntrDisable, IntrEnable
<1>. QED  BY <1>3, <1>4, <1>5, <1>6, <1>7, <1>8 DEF TNext

\* For any number of threads the ready list is first in, first out, but for those
\* that thread_unblock puts in front.
THEOREM NobodyOvertakes == TSpec => NoOvertaking
<1>1. TInv /\ TInv' /\ [TNext]_tvars => [FifoStep]_tvars
  BY StepMoved, MovedFifo
<1>2. TSpec => []TInv
  BY TInitInv, TNextInv, PTL DEF TSpec
<1>. QED  BY <1>1, <1>2, PTL DEF TSpec, NoOvertaking

==============================================================================
