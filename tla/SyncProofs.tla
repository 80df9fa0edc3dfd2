----------------------------- MODULE SyncProofs ------------------------------
(***************************************************************************)
(* The lock of sync.c excludes and loses no wake-up, for every number of   *)
(* threads and every interleaving the scheduler and the timer can produce. *)
(***************************************************************************)
EXTENDS Sync, ThreadsProofs

Inv == TypeOK /\ SchedInv /\ SyncInv

\* Such a step cannot disturb the lock.
LEMMA QuietInv ==
    ASSUME Inv, TInv', UNCHANGED lvars,
           \A u \in Thread \ {Idle} :
               status'[u] = status[u] \/ (status[u] \in Live /\ status'[u] \in Live),
           pc[Idle]' = "out"
    PROVE  Inv'
<1> USE ThreadAssumption
<1>1. TypeOK'
  BY DEF Inv, TypeOK, TInv, lvars
<1>2. MutualExclusion' /\ LockState'
  BY DEF Inv, SyncInv, MutualExclusion, LockState, lvars
<1>3. status[Idle] \notin {"WAITING", "HANGING", "DIED"}
      /\ status'[Idle] \notin {"WAITING", "HANGING", "DIED"}
  BY DEF Inv, SchedInv, TInv, IdleSleeps
<1>4. WaitersBlocked'
  BY DEF Inv, SyncInv, WaitersBlocked, OnlyBlocked, lvars, Live
<1>5. NoLostWakeup'
  BY DEF Inv, SyncInv, NoLostWakeup, OnlyBlocked, lvars, Live
<1>6. OnlyBlocked'
  BY <1>3 DEF Inv, SyncInv, OnlyBlocked, lvars, Live
<1>. QED  BY <1>1, <1>2, <1>4, <1>5, <1>6 DEF Inv, SyncInv, TInv

-----------------------------------------------------------------------------
LEMMA InitInv == Init => Inv
<1> SUFFICES ASSUME Init PROVE Inv
  OBVIOUS
<1> USE ThreadAssumption, SyncAssumption
<1>1. TInv
  BY TInitInv DEF Init
<1>2. TypeOK
  BY <1>1 DEF Init, TInv, TypeOK, Label
<1>3. \A u : ~Find(waiters, u) /\ NoDup(waiters)
  BY EmptyFacts DEF Init
<1>4. \A t \in Thread : status[t] \notin Sleeping
  BY DEF Init, TInit, Sleeping
<1>5. MutualExclusion /\ LockState
  BY DEF Init, MutualExclusion, LockState, Owning
<1>6. WaitersBlocked
  BY <1>3, <1>4 DEF WaitersBlocked, Sleeping
<1>7. NoLostWakeup /\ OnlyBlocked
  BY <1>4 DEF Init, NoLostWakeup, OnlyBlocked, Sleeping
<1>. QED  BY <1>1, <1>2, <1>5, <1>6, <1>7 DEF Inv, SyncInv, TInv

\* A step of the lock that leaves the threads where they are, as a move of one
\* pc: what remains to be shown of it is the lock's own state.
LEMMA MoveInv ==
    ASSUME Inv, NEW t \in Thread, t # Idle, cur = t, NEW l \in Label,
           Goto(t, l), status[t] # "BLOCKED",
           UNCHANGED <<cur, status, ready, ticks, saved, idle_pc, waiters>>,
           intr' \in BOOLEAN, panic' = FALSE,
           old' \in [Thread -> BOOLEAN], value' \in {0, 1},
           holder' \in Thread \cup {NULL}, repeat' \in 0..MaxRepeat,
           MutualExclusion', LockState',
           value' = 1 => value = 1 /\ (pc[t] = "wait" => l = "wait")
    PROVE  Inv'
<1> USE ThreadAssumption
<1>1. panic' = panic /\ ticks' \in [Thread -> Nat]
      /\ idle_pc' \in {"block", "woken", "hlt"}
  BY DEF Inv, TypeOK, TTypeOK, SchedInv, NoPanic
<1>2. TInv'
  BY <1>1, FlagCorrect DEF Inv, TypeOK, TInv
<1>3. pc' \in [Thread -> Label]
      /\ \A u \in Thread : pc'[u] = IF u = t THEN l ELSE pc[u]
  BY DEF Goto, Inv, TypeOK
<1>4. TypeOK'
  BY <1>2, <1>3 DEF TypeOK, TInv, Inv
<1>5. WaitersBlocked'
  BY <1>3 DEF Inv, SyncInv, WaitersBlocked
<1>6. NoLostWakeup'
  BY <1>3 DEF Inv, SyncInv, NoLostWakeup
<1>7. OnlyBlocked'
  <2>1. status[t] # "DIED"
    BY DEF Inv, SchedInv, OneRunning, TypeOK, TTypeOK
  <2>. QED  BY <1>3, <2>1 DEF Inv, SyncInv, OnlyBlocked
<1>. QED  BY <1>2, <1>4, <1>5, <1>6, <1>7 DEF Inv, SyncInv, TInv

\* The facts every step of a lock operation starts from.
LEMMA AtFacts ==
    ASSUME Inv, NEW t \in Thread, NEW l, At(t, l)
    PROVE  /\ cur = t /\ t # Idle /\ status[t] = "RUNNING" /\ pc[t] = l
           /\ panic = FALSE /\ t # NULL /\ pc \in [Thread -> Label]
           /\ TInv /\ MutualExclusion /\ LockState
BY SyncAssumption
DEF At, Inv, TypeOK, TTypeOK, SchedInv, SyncInv, OneRunning, NoPanic, TInv

LEMMA AcquireInv == ASSUME Inv, NEW t \in Thread, LockAcquire(t) PROVE Inv'
<1> USE SyncAssumption DEF LockAcquire, tvars
<1>1. /\ cur = t /\ t # Idle /\ status[t] = "RUNNING" /\ pc[t] \in {"out", "cs"}
      /\ panic = FALSE /\ pc \in [Thread -> Label] /\ MutualExclusion /\ LockState
  BY AtFacts
<1>2. /\ value \in {0, 1} /\ repeat \in 0..MaxRepeat /\ intr \in BOOLEAN
      /\ old \in [Thread -> BOOLEAN] /\ holder \in Thread \cup {NULL}
  BY DEF Inv, TypeOK, TTypeOK
<1>3. CASE holder # t
  <2>1. Goto(t, "down") /\ UNCHANGED repeat
    BY <1>3
  <2>2. \A u \in Thread : pc'[u] = IF u = t THEN "down" ELSE pc[u]
    BY <1>1, <2>1 DEF Goto
  <2>3. pc[t] = "out"
    BY <1>1, <1>3 DEF LockState
  <2>4. MutualExclusion' /\ LockState'
    BY <1>1, <2>1, <2>2, <2>3 DEF MutualExclusion, LockState, Owning
  <2>. QED  BY <1>1, <1>2, <2>1, <2>3, <2>4, MoveInv DEF Label
<1>4. CASE holder = t
  <2>1. Goto(t, "cs") /\ repeat < MaxRepeat /\ repeat' = repeat + 1
    BY <1>4
  <2>2. \A u \in Thread : pc'[u] = IF u = t THEN "cs" ELSE pc[u]
    BY <1>1, <2>1 DEF Goto
  <2>3. pc[t] = "cs"
    BY <1>1, <1>4 DEF LockState
  <2>4. MutualExclusion' /\ LockState'
    BY <1>1, <1>2, <2>1, <2>2, <2>3 DEF MutualExclusion, LockState, Owning
  <2>5. repeat' \in 0..MaxRepeat
    BY <1>2, <2>1
  <2>. QED  BY <1>1, <1>2, <2>1, <2>3, <2>4, <2>5, MoveInv DEF Label, Owning
<1>. QED  BY <1>3, <1>4

LEMMA EnterInv == ASSUME Inv, NEW t \in Thread, SemaDownEnter(t) PROVE Inv'
<1> USE SyncAssumption DEF SemaDownEnter
<1>1. /\ cur = t /\ t # Idle /\ status[t] = "RUNNING" /\ pc[t] = "down"
      /\ panic = FALSE /\ pc \in [Thread -> Label] /\ MutualExclusion /\ LockState
  BY AtFacts
<1>2. /\ value \in {0, 1} /\ repeat \in 0..MaxRepeat /\ intr \in BOOLEAN
      /\ old \in [Thread -> BOOLEAN] /\ holder \in Thread \cup {NULL}
  BY DEF Inv, TypeOK, TTypeOK
<1>3. \A u \in Thread : pc'[u] = IF u = t THEN "wait" ELSE pc[u]
  BY <1>1 DEF Goto
<1>4. MutualExclusion' /\ LockState'
  BY <1>1, <1>3 DEF MutualExclusion, LockState, Owning
<1>5. old' \in [Thread -> BOOLEAN]
  BY <1>2
<1>. QED  BY <1>1, <1>2, <1>4, <1>5, MoveInv DEF Label

LEMMA TakeInv == ASSUME Inv, NEW t \in Thread, SemaDownTake(t) PROVE Inv'
<1> USE SyncAssumption DEF SemaDownTake
<1>1. /\ cur = t /\ t # Idle /\ status[t] = "RUNNING" /\ pc[t] = "wait"
      /\ panic = FALSE /\ pc \in [Thread -> Label] /\ MutualExclusion /\ LockState
  BY AtFacts
<1>2. /\ value \in {0, 1} /\ repeat \in 0..MaxRepeat
      /\ old \in [Thread -> BOOLEAN] /\ holder \in Thread \cup {NULL}
  BY DEF Inv, TypeOK
<1>a. value = 1 /\ value' = 0
  BY <1>2
<1>b. intr' \in BOOLEAN
  BY <1>2
<1>3. value = 1 /\ value' = 0 /\ panic' = FALSE /\ intr' \in BOOLEAN
  BY <1>a, <1>b
<1>4. \A u \in Thread : pc'[u] = IF u = t THEN "own" ELSE pc[u]
  BY <1>1 DEF Goto
<1>5. \A u \in Thread : pc[u] \notin Owning
  BY <1>1, <1>3 DEF LockState
<1>6. MutualExclusion' /\ LockState'
  BY <1>1, <1>3, <1>4, <1>5 DEF MutualExclusion, LockState, Owning
<1>. QED  BY <1>1, <1>2, <1>3, <1>6, MoveInv DEF Label, Owning

LEMMA SetHolderInv == ASSUME Inv, NEW t \in Thread, SetHolder(t) PROVE Inv'
<1> USE SyncAssumption DEF SetHolder, tvars
<1>1. /\ cur = t /\ t # Idle /\ status[t] = "RUNNING" /\ pc[t] = "own"
      /\ panic = FALSE /\ pc \in [Thread -> Label] /\ MutualExclusion /\ LockState
  BY AtFacts
<1>2. /\ value \in {0, 1} /\ repeat \in 0..MaxRepeat /\ intr \in BOOLEAN
      /\ old \in [Thread -> BOOLEAN] /\ holder \in Thread \cup {NULL}
  BY DEF Inv, TypeOK, TTypeOK
<1>3. \A u \in Thread : pc'[u] = IF u = t THEN "count" ELSE pc[u]
  BY <1>1 DEF Goto
<1>4. \A u \in Thread : u # t => pc[u] \notin Owning
  BY <1>1 DEF MutualExclusion, Owning
<1>5. MutualExclusion' /\ LockState'
  BY <1>1, <1>3, <1>4 DEF MutualExclusion, LockState, Owning
<1>. QED  BY <1>1, <1>2, <1>5, MoveInv DEF Label, Owning

LEMMA SetRepeatInv == ASSUME Inv, NEW t \in Thread, SetRepeat(t) PROVE Inv'
<1> USE SyncAssumption DEF SetRepeat, tvars
<1>1. /\ cur = t /\ t # Idle /\ status[t] = "RUNNING" /\ pc[t] = "count"
      /\ panic = FALSE /\ pc \in [Thread -> Label] /\ MutualExclusion /\ LockState
  BY AtFacts
<1>2. /\ value \in {0, 1} /\ repeat \in 0..MaxRepeat /\ intr \in BOOLEAN
      /\ old \in [Thread -> BOOLEAN] /\ holder \in Thread \cup {NULL}
  BY DEF Inv, TypeOK, TTypeOK
<1>3. \A u \in Thread : pc'[u] = IF u = t THEN "cs" ELSE pc[u]
  BY <1>1 DEF Goto
<1>4. \A u \in Thread : u # t => pc[u] \notin Owning
  BY <1>1 DEF MutualExclusion, Owning
<1>5. repeat = 0
  BY <1>1, <1>2, <1>4 DEF LockState, Owning
<1>a. panic' = FALSE
  BY <1>5
<1>b. repeat' = 1 /\ repeat' \in 0..MaxRepeat
  OBVIOUS
<1>6. panic' = FALSE /\ repeat' = 1 /\ repeat' \in 0..MaxRepeat
  BY <1>a, <1>b
<1>7. MutualExclusion' /\ LockState'
  BY <1>1, <1>3, <1>4, <1>6 DEF MutualExclusion, LockState, Owning
<1>. QED  BY <1>1, <1>2, <1>6, <1>7, MoveInv DEF Label, Owning

LEMMA ReleaseInv == ASSUME Inv, NEW t \in Thread, LockRelease(t) PROVE Inv'
<1> USE SyncAssumption DEF LockRelease, tvars
<1>1. /\ cur = t /\ t # Idle /\ status[t] = "RUNNING" /\ pc[t] = "cs"
      /\ panic = FALSE /\ pc \in [Thread -> Label] /\ MutualExclusion /\ LockState
  BY AtFacts
<1>2. /\ value \in {0, 1} /\ repeat \in 0..MaxRepeat /\ intr \in BOOLEAN
      /\ old \in [Thread -> BOOLEAN] /\ holder \in Thread \cup {NULL}
  BY DEF Inv, TypeOK, TTypeOK
<1>3. \A u \in Thread : u # t => pc[u] \notin Owning
  BY <1>1 DEF MutualExclusion, Owning
<1>4. holder = t /\ repeat > 0
  BY <1>1, <1>2 DEF LockState
<1>a. ~(holder # t \/ repeat = 0)
  BY <1>2, <1>4
<1>b. panic' = (holder # t \/ repeat = 0)
  OBVIOUS
<1>5. panic' = FALSE
  BY <1>a, <1>b, Zenon
<1>6. CASE repeat > 1
  <2>1. repeat' = repeat - 1 /\ UNCHANGED pc
    BY <1>2, <1>6
  <2>2. Goto(t, "cs")
    BY <1>1, <2>1 DEF Goto
  <2>3. repeat' \in 0..MaxRepeat /\ repeat' > 0
    BY <1>2, <1>6, <2>1
  <2>4. MutualExclusion' /\ LockState'
    BY <1>1, <1>3, <2>1, <2>3 DEF MutualExclusion, LockState, Owning
  <2>. QED  BY <1>1, <1>2, <1>5, <2>2, <2>3, <2>4, MoveInv DEF Label, Owning
<1>7. CASE repeat <= 1
  <2>1. Goto(t, "clear") /\ UNCHANGED repeat /\ repeat = 1
    BY <1>2, <1>4, <1>7
  <2>2. \A u \in Thread : pc'[u] = IF u = t THEN "clear" ELSE pc[u]
    BY <1>1, <2>1 DEF Goto
  <2>3. MutualExclusion' /\ LockState'
    BY <1>1, <1>3, <2>1, <2>2 DEF MutualExclusion, LockState, Owning
  <2>. QED  BY <1>1, <1>2, <1>5, <2>1, <2>3, MoveInv DEF Label, Owning
<1>. QED  BY <1>2, <1>6, <1>7

LEMMA ClearHolderInv == ASSUME Inv, NEW t \in Thread, ClearHolder(t) PROVE Inv'
<1> USE SyncAssumption DEF ClearHolder, tvars
<1>1. /\ cur = t /\ t # Idle /\ status[t] = "RUNNING" /\ pc[t] = "clear"
      /\ panic = FALSE /\ pc \in [Thread -> Label] /\ MutualExclusion /\ LockState
  BY AtFacts
<1>2. /\ value \in {0, 1} /\ repeat \in 0..MaxRepeat /\ intr \in BOOLEAN
      /\ old \in [Thread -> BOOLEAN] /\ holder \in Thread \cup {NULL}
  BY DEF Inv, TypeOK, TTypeOK
<1>3. \A u \in Thread : pc'[u] = IF u = t THEN "reset" ELSE pc[u]
  BY <1>1 DEF Goto
<1>4. \A u \in Thread : u # t => pc[u] \notin Owning
  BY <1>1 DEF MutualExclusion, Owning
<1>5. MutualExclusion' /\ LockState'
  BY <1>1, <1>3, <1>4 DEF MutualExclusion, LockState, Owning
<1>. QED  BY <1>1, <1>2, <1>5, MoveInv DEF Label, Owning

LEMMA ClearRepeatInv == ASSUME Inv, NEW t \in Thread, ClearRepeat(t) PROVE Inv'
<1> USE SyncAssumption DEF ClearRepeat, tvars
<1>1. /\ cur = t /\ t # Idle /\ status[t] = "RUNNING" /\ pc[t] = "reset"
      /\ panic = FALSE /\ pc \in [Thread -> Label] /\ MutualExclusion /\ LockState
  BY AtFacts
<1>2. /\ value \in {0, 1} /\ repeat \in 0..MaxRepeat /\ intr \in BOOLEAN
      /\ old \in [Thread -> BOOLEAN] /\ holder \in Thread \cup {NULL}
  BY DEF Inv, TypeOK, TTypeOK
<1>3. \A u \in Thread : pc'[u] = IF u = t THEN "up" ELSE pc[u]
  BY <1>1 DEF Goto
<1>4. \A u \in Thread : u # t => pc[u] \notin Owning
  BY <1>1 DEF MutualExclusion, Owning
<1>5. repeat' = 0 /\ repeat' \in 0..MaxRepeat
  OBVIOUS
<1>6. MutualExclusion' /\ LockState'
  BY <1>1, <1>3, <1>4, <1>5 DEF MutualExclusion, LockState, Owning
<1>. QED  BY <1>1, <1>2, <1>5, <1>6, MoveInv DEF Label, Owning

LEMMA UpInv == ASSUME Inv, NEW t \in Thread, SemaUp(t) PROVE Inv'
<1> USE SyncAssumption, ThreadAssumption
<1>1. /\ cur = t /\ t # Idle /\ status[t] = "RUNNING" /\ pc[t] = "up"
      /\ panic = FALSE /\ pc \in [Thread -> Label]
      /\ TInv /\ MutualExclusion /\ LockState
  BY AtFacts DEF SemaUp
<1>2. \A u \in Thread : u # t => pc[u] \notin Owning
  BY <1>1 DEF MutualExclusion, Owning
<1>3. value = 0
  BY <1>1 DEF LockState, Owning, Inv, TypeOK
<1>4. value' = 1 /\ UNCHANGED <<idle_pc, old, holder, repeat>>
  BY <1>3 DEF SemaUp
<1>5. pc' \in [Thread -> Label]
      /\ \A u \in Thread : pc'[u] = IF u = t THEN "out" ELSE pc[u]
  BY <1>1 DEF SemaUp, Goto, Label
<1>6. MutualExclusion' /\ LockState'
  BY <1>1, <1>2, <1>4, <1>5 DEF MutualExclusion, LockState, Owning
<1>7. /\ waiters \in Seq(Thread) /\ WaitersBlocked /\ OnlyBlocked
      /\ idle_pc \in {"block", "woken", "hlt"}
  BY DEF Inv, TypeOK, TTypeOK, SyncInv
<1>8. CASE waiters = <<>>
  <2>1. UNCHANGED <<cur, status, ready, ticks, intr, saved, waiters>>
    BY <1>8 DEF SemaUp
  <2>2. panic' = FALSE
    BY <1>3, <1>8 DEF SemaUp
  <2>3. TInv'
    BY <1>1, <1>4, <1>7, <2>1, <2>2, FlagCorrect
    DEF TInv, TTypeOK, SchedInv, HltInterruptible
  <2>4. TypeOK'
    BY <1>4, <1>5, <2>1, <2>3 DEF TInv, TypeOK, Inv
  <2>5. WaitersBlocked'
    BY <1>1, <1>5, <1>7, <2>1 DEF WaitersBlocked
  <2>6. NoLostWakeup'
    BY <1>8, <2>1 DEF NoLostWakeup
  <2>7. OnlyBlocked'
    BY <1>1, <1>5, <1>7, <2>1 DEF OnlyBlocked
  <2>. QED  BY <1>6, <2>3, <2>4, <2>5, <2>6, <2>7 DEF Inv, SyncInv, TInv
<1>9. CASE waiters # <<>>
  <2> DEFINE w == Head(waiters)
  <2>1. waiters' = Tail(waiters) /\ Unblock(w, value # 0)
    BY <1>9 DEF SemaUp
  <2>2. Unblock(w, FALSE)
    BY <1>3, <2>1
  <2>3. /\ w \in Thread /\ Find(waiters, w) /\ Tail(waiters) \in Seq(Thread)
        /\ NoDup(Tail(waiters))
        /\ \A u : Find(Tail(waiters), u) <=> Find(waiters, u) /\ u # w
    BY <1>7, <1>9, PopFacts DEF WaitersBlocked
  <2> HIDE DEF w
  <2>4. w # Idle /\ status[w] = "BLOCKED" /\ pc[w] = "wait" /\ w # t
    BY <1>1, <1>7, <2>3 DEF WaitersBlocked
  <2>5. TInv'
    BY <1>1, <1>4, <1>7, <2>2, <2>3, <2>4, UnblockCorrect DEF Sleeping
  <2>6. \A u \in Thread : status'[u] = IF u = w THEN "READY" ELSE status[u]
    BY <1>1, <2>2, <2>3 DEF Unblock, TInv, TTypeOK
  <2>7. TypeOK'
    BY <1>4, <1>5, <2>1, <2>3, <2>5 DEF TInv, TypeOK, Inv
  <2>8. WaitersBlocked'
    BY <1>1, <1>5, <1>7, <2>1, <2>3, <2>4, <2>6 DEF WaitersBlocked
  <2>9. NoLostWakeup'
    BY <1>5, <2>3, <2>4, <2>6 DEF NoLostWakeup
  <2>10. OnlyBlocked'
    BY <1>1, <1>5, <1>7, <2>4, <2>6 DEF OnlyBlocked
  <2>. QED  BY <1>6, <2>5, <2>7, <2>8, <2>9, <2>10 DEF Inv, SyncInv, TInv
<1>. QED  BY <1>8, <1>9

LEMMA BlockInv == ASSUME Inv, NEW t \in Thread, SemaDownBlock(t) PROVE Inv'
<1> USE SyncAssumption, ThreadAssumption
<1>1. /\ cur = t /\ t # Idle /\ status[t] = "RUNNING" /\ pc[t] = "wait"
      /\ panic = FALSE /\ pc \in [Thread -> Label]
      /\ TInv /\ MutualExclusion /\ LockState
  BY AtFacts DEF SemaDownBlock
<1>2. waiters \in Seq(Thread) /\ WaitersBlocked /\ OnlyBlocked
  BY DEF Inv, TypeOK, SyncInv
<1>3. /\ value = 0 /\ waiters' = Append(waiters, t)
      /\ UNCHANGED <<idle_pc, pc, old, value, holder, repeat>>
      /\ Block("BLOCKED", status, ready, Find(waiters, t))
  BY DEF SemaDownBlock
<1>4. ~Find(waiters, t)
  BY <1>1, <1>2 DEF WaitersBlocked
<1>7. TInv'
  BY <1>1, <1>3, <1>4, BlockStep DEF Sleeping
<1>9. /\ status'[t] = "BLOCKED"
      /\ \A u \in Thread \ {Idle, t} :
            status'[u] = status[u] \/ (status[u] \in Live /\ status'[u] \in Live)
  BY <1>1, <1>3, <1>4, BlockStep DEF Sleeping
<1>10. /\ waiters' \in Seq(Thread)
       /\ \A u : Find(waiters', u) <=> Find(waiters, u) \/ u = t
       /\ NoDup(waiters')
  BY <1>2, <1>3, <1>4, AppendFacts DEF WaitersBlocked
<1>11. TypeOK'
  BY <1>3, <1>7, <1>10 DEF Inv, TypeOK, TInv
<1>12. MutualExclusion' /\ LockState'
  BY <1>1, <1>3 DEF MutualExclusion, LockState
<1>13. WaitersBlocked'
  BY <1>1, <1>2, <1>3, <1>9, <1>10 DEF WaitersBlocked, Live
<1>14. NoLostWakeup'
  BY <1>3 DEF NoLostWakeup
<1>15. OnlyBlocked'
  <2>1. status'[Idle] \notin {"WAITING", "HANGING", "DIED"}
    BY <1>7 DEF TInv, SchedInv, IdleSleeps
  <2>. QED  BY <1>1, <1>2, <1>3, <1>9, <2>1 DEF OnlyBlocked, Live
<1>. QED  BY <1>7, <1>11, <1>12, <1>13, <1>14, <1>15 DEF Inv, SyncInv, TInv

LEMMA StartInv ==
    ASSUME Inv, NEW t \in Thread, ThreadStart(t), UNCHANGED lvars
    PROVE  Inv'
<1> USE ThreadAssumption
<1>1. TInv'
  BY StartCorrect DEF Inv, TypeOK, TInv
<1>2. status[t] = "DIED"
      /\ \A u \in Thread : status'[u] = IF u = t THEN "READY" ELSE status[u]
  BY DEF ThreadStart, Inv, TypeOK, TTypeOK
<1>3. TypeOK'
  BY <1>1 DEF Inv, TypeOK, TInv, lvars
<1>4. MutualExclusion' /\ LockState'
  BY DEF Inv, SyncInv, MutualExclusion, LockState, lvars
<1>5. WaitersBlocked' /\ NoLostWakeup' /\ OnlyBlocked'
  BY <1>2 DEF Inv, SyncInv, WaitersBlocked, NoLostWakeup, OnlyBlocked, lvars
<1>. QED  BY <1>1, <1>3, <1>4, <1>5 DEF Inv, SyncInv, TInv

LEMMA NextInv == Inv /\ [Next]_vars => Inv'
<1> SUFFICES ASSUME Inv, [Next]_vars PROVE Inv'
  OBVIOUS
<1>a. TInv /\ pc[Idle] = "out"
  BY DEF Inv, TypeOK, TInv, SyncInv, OnlyBlocked
<1>1. ASSUME Tick \/ IdleBlock \/ IdleHlt \/ IntrDisable \/ IntrEnable \/ ThreadYield,
             UNCHANGED lvars
      PROVE  Inv'
  <2>1. TInv'
    BY <1>1, <1>a, TNextInv DEF TNext
  <2>. QED  BY <1>1, <1>a, <2>1, QuietStatus, QuietInv DEF lvars
<1>2. CASE Kernel
  BY <1>1, <1>2 DEF Kernel
<1>3. CASE Elsewhere
  BY <1>1, <1>3, StartInv DEF Elsewhere
<1>4. ASSUME NEW t \in Thread, LockAcquire(t) \/ LockStep(t) PROVE Inv'
  BY <1>4, AcquireInv, EnterInv, BlockInv, TakeInv, SetHolderInv, SetRepeatInv,
     ReleaseInv, ClearHolderInv, ClearRepeatInv, UpInv
  DEF LockStep
<1>5. CASE UNCHANGED vars
  <2>1. UNCHANGED tvars /\ UNCHANGED lvars
    BY <1>5 DEF vars
  <2>2. TInv' /\ UNCHANGED status
    BY <1>a, <2>1, TNextInv DEF tvars
  <2>. QED  BY <1>a, <2>1, <2>2, QuietInv DEF lvars
<1>. QED  BY <1>2, <1>3, <1>4, <1>5 DEF Next

LEMMA SpecInv == Spec => []Inv
BY InitInv, NextInv, PTL DEF Spec

\* The types of the lock's fields, semaphore.value among them: it is a binary
\* semaphore, although sema_down and sema_up only decrement and increment.
THEOREM SyncTyped == Spec => []TypeOK
<1>1. Inv => TypeOK
  BY DEF Inv
<1>. QED  BY <1>1, SpecInv, PTL

\* The scheduler's invariant, the ASSERTs of thread.c and sync.c included, holds
\* with threads that block in sema_down and are woken by sema_up.
THEOREM SyncScheduler == Spec => []SchedInv
<1>1. Inv => SchedInv
  BY DEF Inv
<1>. QED  BY <1>1, SpecInv, PTL

\* lock_acquire and lock_release exclude, for every number of threads.
THEOREM LockExcludes == Spec => []MutualExclusion
<1>1. Inv => MutualExclusion
  BY DEF Inv, SyncInv
<1>. QED  BY <1>1, SpecInv, PTL

\* sema_up loses no wake-up, although a thread it wakes may find the value taken
\* by a thread that came later.
THEOREM WakeupNotLost == Spec => []NoLostWakeup
<1>1. Inv => NoLostWakeup
  BY DEF Inv, SyncInv
<1>. QED  BY <1>1, SpecInv, PTL

\* The invariant as a whole: value, holder and holder_repeat_nr agree with who
\* owns the lock, and the waiters list with who is blocked.
THEOREM LockConsistent == Spec => []SyncInv
<1>1. Inv => SyncInv
  BY DEF Inv
<1>. QED  BY <1>1, SpecInv, PTL

==============================================================================
