------------------------------ MODULE IdeProofs ------------------------------
(***************************************************************************)
(* The disk driver is correct for any number of callers, of commands in a  *)
(* call and of ticks between its steps.                                    *)
(***************************************************************************)
EXTENDS Ide, ThreadsProofs

\* The threads as the driver uses them: inside the kernel interrupts are off, and
\* off again when a thread that gave the CPU away gets it back; who is on a list
\* of waiters sleeps at the sema_down of that semaphore.
CallersInv ==
    /\ pc[Idle] = "user"
    /\ pc[cur] # "user" => ~intr
    /\ \A t \in Thread : pc[t] # "user" => status[t] # "DIED" /\ (t # cur => ~saved[t])
    /\ \A t \in Thread : Find(waiters, t) => pc[t] = "lock" /\ status[t] = "BLOCKED"
    /\ \A t \in Thread : Find(done_waiters, t) => pc[t] = "down" /\ status[t] = "BLOCKED"
    /\ NoDup(waiters) /\ NoDup(done_waiters)

\* Between a command and the end of its wait the channel either expects the
\* interrupt or has the signal, and never both; elsewhere it has neither.
Awaits(t) == pc[t] = "down" \/ (pc[t] = "poll" /\ op[t] = "write")
SignalInv ==
    /\ \A t \in Thread : Awaits(t) => (expecting <=> done = 0)
    /\ (\A t \in Thread : ~Awaits(t)) => ~expecting /\ done = 0
    /\ done_waiters # <<>> => expecting

\* What the disk does for a thread that has given it a command, whether or not
\* requests come late.
DiskInv ==
    /\ \A t \in Thread : pc[t] \in {"down", "poll"} => cmds[t] > 0
    /\ \A t \in Thread : pc[t] = "down" /\ op[t] = "write" => disk \in {"idle", "writing"}
    /\ \A t \in Thread : pc[t] = "down" /\ expecting =>
                         irq \/ disk \in {"reading", "writing"}
    /\ (\A t \in Thread : pc[t] \notin {"down", "poll"}) => disk \in {"idle", "writing"}

\* The same when no request comes late: the disk and its request are exactly
\* where the owner's next step needs them.
Reading(t) ==
    \/ pc[t] = "down" /\ expecting /\ disk = "reading" /\ ~irq
    \/ pc[t] = "down" /\ expecting /\ disk = "data" /\ irq
    \/ pc[t] = "down" /\ ~expecting /\ disk = "data" /\ ~irq
    \/ pc[t] = "poll" /\ disk = "data" /\ ~irq
Writing(t) ==
    \/ pc[t] = "poll" /\ expecting /\ disk \in {"accepting", "want"} /\ ~irq
    \/ pc[t] = "down" /\ expecting /\ disk = "writing" /\ ~irq
    \/ pc[t] = "down" /\ expecting /\ disk = "idle" /\ irq
    \/ pc[t] = "down" /\ ~expecting /\ disk = "idle" /\ ~irq
OnTime ==
    /\ \A t \in Thread : pc[t] \in {"down", "poll"} =>
                         IF op[t] = "read" THEN Reading(t) ELSE Writing(t)
    /\ (\A t \in Thread : pc[t] \notin {"down", "poll"}) => disk = "idle" /\ ~irq

\* The inductive invariant.  Only the PANIC of busy_wait stops the system, and
\* only when requests come late.
IInv ==
    /\ TypeOK /\ OneOwner
    /\ ~panic => SchedInv
    /\ CallersInv /\ SignalInv /\ DiskInv
    /\ ~late => OnTime /\ ~panic

Label == Inside \cup {"user", "kernel", "lock"}

-----------------------------------------------------------------------------
LEMMA InitInv == Init => IInv
<1> SUFFICES ASSUME Init PROVE IInv
  OBVIOUS
<1> USE ThreadAssumption, IdeAssumption
<1>1. TInv
  BY TInitInv DEF Init
<1>2. /\ waiters \in Seq(Thread) /\ done_waiters \in Seq(Thread)
      /\ NoDup(waiters) /\ NoDup(done_waiters)
      /\ \A u : ~Find(waiters, u) /\ ~Find(done_waiters, u)
  BY EmptyFacts DEF Init
<1>6. pc \in [Thread -> Inside \cup {"user", "kernel", "lock"}]
      /\ cmds \in [Thread -> 0..MaxCmds] /\ value = 1 /\ done = 0
  BY DEF Init
<1>7. op \in [Thread -> {"read", "write"}]
      /\ expecting \in BOOLEAN /\ irq \in BOOLEAN /\ late \in BOOLEAN
  BY DEF Init
<1>3. TypeOK
  BY <1>1, <1>2, <1>6, <1>7 DEF Init, TInv, TypeOK
<1>4. OneOwner /\ SignalInv /\ DiskInv /\ OnTime
  BY <1>2 DEF Init, OneOwner, SignalInv, DiskInv, OnTime, Awaits, Inside
<1>5. CallersInv
  BY <1>2 DEF Init, TInit, CallersInv
<1>. QED  BY <1>1, <1>3, <1>4, <1>5 DEF IInv, TInv, SchedInv, NoPanic

\* The facts every step of a thread in the driver starts from.
LEMMA AtFacts ==
    ASSUME IInv, NEW t \in Thread, NEW l, At(t, l)
    PROVE  /\ cur = t /\ t # Idle /\ status[t] = "RUNNING" /\ pc[t] = l
           /\ panic = FALSE /\ TInv
           /\ ~Find(waiters, t) /\ ~Find(done_waiters, t)
           /\ intr \in BOOLEAN /\ (l # "user" => ~intr)
           /\ l \in Inside => value = 0 /\ \A u \in Thread : u # t => pc[u] \notin Inside
BY DEF At, IInv, TypeOK, TTypeOK, SchedInv, OneRunning, NoPanic, TInv, CallersInv,
       OneOwner

\* A step of one thread that leaves all threads where they are.
LEMMA MoveCallers ==
    ASSUME IInv, NEW t \in Thread, NEW m, At(t, m), NEW l \in Label, Goto(t, l),
           UNCHANGED <<cur, status, ready, ticks, saved, idle_pc, waiters, done_waiters>>,
           panic' = FALSE, intr' \in BOOLEAN, l # "user" => ~intr'
    PROVE  TInv' /\ CallersInv'
<1>1. /\ cur = t /\ t # Idle /\ status[t] = "RUNNING"
      /\ panic = FALSE /\ TInv
      /\ ~Find(waiters, t) /\ ~Find(done_waiters, t)
  BY AtFacts
<1>2. TInv'
  BY <1>1, FlagCorrect DEF TInv, TTypeOK
<1>3. \A u \in Thread : pc'[u] = IF u = t THEN l ELSE pc[u]
  BY DEF Goto, IInv, TypeOK
<1>4. CallersInv'
  BY <1>1, <1>3, ThreadAssumption DEF IInv, CallersInv
<1>. QED  BY <1>2, <1>4

\* A step of the scheduler that changes nothing of the driver.
LEMMA QuietInv ==
    ASSUME IInv, TInv', UNCHANGED ivars,
           \A u \in Thread \ {Idle} :
               status'[u] = status[u] \/ (status[u] \in Live /\ status'[u] \in Live),
           \/ Switched
           \/ UNCHANGED <<cur, saved>> /\ (pc[cur] = "user" \/ UNCHANGED intr)
    PROVE  IInv'
<1> USE ThreadAssumption DEF ivars, chan
<1>1. TypeOK'
  BY DEF IInv, TypeOK, TInv
<1>2. OneOwner' /\ SignalInv' /\ DiskInv' /\ (~late' => OnTime')
  BY DEF IInv, OneOwner, SignalInv, DiskInv, OnTime, Awaits, Reading, Writing
<1>3. cur \in Thread /\ cur' \in Thread /\ saved \in [Thread -> BOOLEAN]
  BY <1>1 DEF IInv, TypeOK, TTypeOK
<1>4. pc'[cur'] # "user" => ~intr'
  BY <1>3 DEF IInv, CallersInv, Switched
<1>5. \A t \in Thread : pc'[t] # "user" /\ t # cur' => ~saved'[t]
  BY <1>3 DEF IInv, CallersInv, Switched
<1>6. CallersInv'
  BY <1>4, <1>5 DEF IInv, CallersInv, Live
<1>. QED  BY <1>1, <1>2, <1>6 DEF IInv, TInv, SchedInv, NoPanic

-----------------------------------------------------------------------------
LEMMA EnterInv == ASSUME IInv, NEW t \in Thread, Enter(t) PROVE IInv'
<1> USE DEF Enter, chan
<1>1. At(t, "user") /\ pc[t] = "user" /\ panic' = FALSE /\ late' = late
  BY AtFacts DEF At
<1>2. TInv' /\ CallersInv'
  BY <1>1, MoveCallers DEF Label
<1>3. pc' \in [Thread -> Label]
      /\ \A u \in Thread : pc'[u] = IF u = t THEN "kernel" ELSE pc[u]
  BY DEF Goto, IInv, TypeOK, Label
<1>4. TypeOK'
  BY <1>2, <1>3 DEF IInv, TypeOK, TInv, Label
<1>5. OneOwner' /\ SignalInv' /\ DiskInv' /\ (~late' => OnTime')
  BY <1>1, <1>3, <1>2
  DEF IInv, OneOwner, SignalInv, DiskInv, OnTime, Awaits, Reading, Writing, Inside, CallersInv
<1>. QED  BY <1>1, <1>2, <1>4, <1>5 DEF IInv, TInv, SchedInv

LEMMA TakeInv == ASSUME IInv, NEW t \in Thread, LockTake(t) PROVE IInv'
<1> USE DEF LockTake
<1>1. /\ At(t, "lock") /\ pc[t] = "lock" /\ late' = late
      /\ intr' \in BOOLEAN /\ ~intr'
  BY AtFacts DEF At
<1>2. value = 1 /\ value' = 0 /\ \A u \in Thread : pc[u] \notin Inside
  BY DEF IInv, TypeOK, OneOwner
<1>3. panic' = FALSE
  BY <1>2
<1>4. TInv' /\ CallersInv'
  BY <1>1, <1>3, MoveCallers DEF Label, Inside
<1>5. pc' \in [Thread -> Label]
      /\ \A u \in Thread : pc'[u] = IF u = t THEN "cmd" ELSE pc[u]
  BY DEF Goto, IInv, TypeOK, Label, Inside
<1>6. TypeOK'
  BY <1>2, <1>4, <1>5 DEF IInv, TypeOK, TInv, Label
<1>7. OneOwner'
  BY <1>1, <1>2, <1>4, <1>5 DEF IInv, OneOwner, Inside, CallersInv
<1>8. SignalInv' /\ DiskInv' /\ (~late' => OnTime')
  BY <1>1, <1>2, <1>5
  DEF IInv, SignalInv, DiskInv, OnTime, Awaits, Reading, Writing, Inside
<1>. QED  BY <1>1, <1>3, <1>4, <1>6, <1>7, <1>8 DEF IInv, TInv, SchedInv

LEMMA CmdOutInv == ASSUME IInv, NEW t \in Thread, CmdOut(t) PROVE IInv'
<1> USE DEF CmdOut, tvars
<1>1. /\ At(t, "cmd") /\ pc[t] = "cmd" /\ late' = late /\ panic' = FALSE
      /\ intr' \in BOOLEAN /\ ~intr'
      /\ value = 0 /\ \A u \in Thread : u # t => pc[u] \notin Inside
  BY AtFacts DEF At, Inside
<1>2. PICK l \in {"down", "poll"} :
        /\ Goto(t, l)
        /\ l = "down" <=> op[t] = "read"
        /\ disk' = IF disk = "idle" THEN IF l = "down" THEN "reading" ELSE "accepting"
                   ELSE disk
  BY DEF Command
<1>4. TInv' /\ CallersInv'
  BY <1>1, <1>2, MoveCallers DEF Label, Inside
<1>5. pc' \in [Thread -> Label]
      /\ \A u \in Thread : pc'[u] = IF u = t THEN l ELSE pc[u]
  BY <1>2 DEF Goto, IInv, TypeOK, Label, Inside
<1>6. TypeOK'
  BY <1>2, <1>4, <1>5 DEF IInv, TypeOK, TInv, Label
<1>7. OneOwner'
  BY <1>1, <1>2, <1>4, <1>5 DEF IInv, OneOwner, Inside, CallersInv
<1>8. \A u \in Thread : ~Awaits(u) /\ pc[u] \notin {"down", "poll"}
  BY <1>1 DEF Awaits, Inside
<1>9. ~expecting /\ done = 0 /\ done_waiters = <<>> /\ disk \in {"idle", "writing"}
      /\ (~late => disk = "idle" /\ ~irq)
  BY <1>8 DEF IInv, SignalInv, DiskInv, OnTime
<1>10. SignalInv' /\ DiskInv' /\ (~late' => OnTime')
  BY <1>1, <1>2, <1>5, <1>8, <1>9
  DEF IInv, TypeOK, SignalInv, DiskInv, OnTime, Awaits, Reading, Writing, Inside
<1>. QED  BY <1>1, <1>4, <1>6, <1>7, <1>10 DEF IInv, TInv, SchedInv

LEMMA LeaveInv == ASSUME IInv, NEW t \in Thread, Leave(t) PROVE IInv'
<1> USE DEF Leave, chan
<1>1. /\ At(t, "kernel") /\ pc[t] = "kernel" /\ panic' = FALSE /\ late' = late
      /\ intr' \in BOOLEAN
  BY AtFacts DEF At
<1>2. TInv' /\ CallersInv'
  BY <1>1, MoveCallers DEF Label
<1>3. pc' \in [Thread -> Label]
      /\ \A u \in Thread : pc'[u] = IF u = t THEN "user" ELSE pc[u]
  BY DEF Goto, IInv, TypeOK, Label
<1>4. TypeOK'
  BY <1>2, <1>3 DEF IInv, TypeOK, TInv, Label
<1>5. OneOwner' /\ SignalInv' /\ DiskInv' /\ (~late' => OnTime')
  BY <1>1, <1>3, <1>2
  DEF IInv, OneOwner, SignalInv, DiskInv, OnTime, Awaits, Reading, Writing, Inside, CallersInv
<1>. QED  BY <1>1, <1>2, <1>4, <1>5 DEF IInv, TInv, SchedInv

LEMMA CallInv ==
    ASSUME IInv, NEW t \in Thread, NEW o \in {"read", "write"}, NEW n \in 1..MaxCmds,
           IdeCall(t, o, n)
    PROVE  IInv'
<1> USE IdeAssumption DEF IdeCall, tvars, chan
<1>1. /\ At(t, "kernel") /\ pc[t] = "kernel" /\ panic' = FALSE /\ late' = late
      /\ intr' \in BOOLEAN /\ ~intr'
  BY AtFacts DEF At
<1>2. TInv' /\ CallersInv'
  BY <1>1, MoveCallers DEF Label
<1>3. pc' \in [Thread -> Label]
      /\ \A u \in Thread : pc'[u] = IF u = t THEN "lock" ELSE pc[u]
  BY DEF Goto, IInv, TypeOK, Label
<1>4. /\ op' \in [Thread -> {"read", "write"}]
      /\ \A u \in Thread : u # t => op'[u] = op[u]
  BY DEF IInv, TypeOK
<1>5. cmds' \in [Thread -> 0..MaxCmds]
  BY DEF IInv, TypeOK
<1>6. TypeOK'
  BY <1>2, <1>3, <1>4, <1>5 DEF IInv, TypeOK, TInv, Label
<1>7. OneOwner' /\ SignalInv' /\ DiskInv' /\ (~late' => OnTime')
  BY <1>1, <1>2, <1>3, <1>4
  DEF IInv, OneOwner, SignalInv, DiskInv, OnTime, Awaits, Reading, Writing, Inside, CallersInv
<1>. QED  BY <1>1, <1>2, <1>6, <1>7 DEF IInv, TInv, SchedInv

LEMMA DoneTakeInv == ASSUME IInv, NEW t \in Thread, DoneTake(t) PROVE IInv'
<1> USE DEF DoneTake
<1>1. /\ At(t, "down") /\ pc[t] = "down" /\ late' = late
      /\ intr' \in BOOLEAN /\ ~intr'
      /\ value = 0 /\ \A u \in Thread : u # t => pc[u] \notin Inside
  BY AtFacts DEF At, Inside
<1>2. done = 1 /\ done' = 0 /\ ~expecting /\ done_waiters = <<>>
  BY <1>1 DEF IInv, TypeOK, SignalInv, Awaits
<1>3. panic' = FALSE
  BY <1>2
<1>4. PICK l \in {"poll", "cmd"} : Goto(t, l) /\ (l = "poll" <=> op[t] = "read")
  OBVIOUS
<1>5. TInv' /\ CallersInv'
  BY <1>1, <1>3, <1>4, MoveCallers DEF Label, Inside
<1>6. pc' \in [Thread -> Label]
      /\ \A u \in Thread : pc'[u] = IF u = t THEN l ELSE pc[u]
  BY <1>4 DEF Goto, IInv, TypeOK, Label, Inside
<1>7. cmds' \in [Thread -> 0..MaxCmds]
  <2>1. cmds \in [Thread -> 0..MaxCmds] /\ cmds[t] > 0 /\ MaxCmds \in Nat
    BY <1>1, IdeAssumption DEF IInv, TypeOK, DiskInv
  <2>2. cmds[t] - 1 \in 0..MaxCmds
    BY <2>1
  <2>. QED  BY <2>1, <2>2
<1>8. TypeOK'
  BY <1>2, <1>5, <1>6, <1>7 DEF IInv, TypeOK, TInv, Label
<1>9. OneOwner'
  BY <1>1, <1>2, <1>4, <1>5, <1>6 DEF IInv, OneOwner, Inside, CallersInv
<1>10. SignalInv'
  BY <1>1, <1>2, <1>4, <1>6 DEF SignalInv, Awaits, Inside
<1>11. DiskInv'
  BY <1>1, <1>2, <1>4, <1>6 DEF IInv, TypeOK, DiskInv, Inside
<1>12. ~late => OnTime'
  BY <1>1, <1>2, <1>4, <1>6 DEF IInv, TypeOK, OnTime, Reading, Writing, Inside
<1>. QED  BY <1>1, <1>3, <1>5, <1>8, <1>9, <1>10, <1>11, <1>12 DEF IInv, TInv, SchedInv

LEMMA ReadInv == ASSUME IInv, NEW t \in Thread, ReadSectors(t) PROVE IInv'
<1> USE DEF ReadSectors, tvars
<1>1. /\ At(t, "poll") /\ pc[t] = "poll" /\ late' = late /\ panic' = FALSE
      /\ intr' \in BOOLEAN /\ ~intr'
      /\ value = 0 /\ \A u \in Thread : u # t => pc[u] \notin Inside
  BY AtFacts DEF At, Inside
<1>2. TInv' /\ CallersInv'
  BY <1>1, MoveCallers DEF Label, Inside
<1>3. pc' \in [Thread -> Label]
      /\ \A u \in Thread : pc'[u] = IF u = t THEN "cmd" ELSE pc[u]
  BY DEF Goto, IInv, TypeOK, Label, Inside
<1>4. cmds' \in [Thread -> 0..MaxCmds]
  <2>1. cmds \in [Thread -> 0..MaxCmds] /\ cmds[t] > 0 /\ MaxCmds \in Nat
    BY <1>1, IdeAssumption DEF IInv, TypeOK, DiskInv
  <2>2. cmds[t] - 1 \in 0..MaxCmds
    BY <2>1
  <2>. QED  BY <2>1, <2>2
<1>5. irq' \in BOOLEAN /\ (~late /\ ~irq => ~irq')
  BY DEF IInv, TypeOK
<1>6. TypeOK'
  BY <1>2, <1>3, <1>4, <1>5 DEF IInv, TypeOK, TInv, Label
<1>7. OneOwner'
  BY <1>1, <1>2, <1>3 DEF IInv, OneOwner, Inside, CallersInv
<1>8. ~expecting /\ done = 0 /\ done_waiters = <<>> /\ (~late => ~irq)
  BY <1>1 DEF IInv, SignalInv, OnTime, Reading, Awaits, Inside
<1>9. SignalInv' /\ DiskInv' /\ (~late => OnTime')
  BY <1>1, <1>3, <1>5, <1>8 DEF SignalInv, DiskInv, OnTime, Awaits, Inside
<1>. QED  BY <1>1, <1>2, <1>6, <1>7, <1>9 DEF IInv, TInv, SchedInv

LEMMA WriteInv == ASSUME IInv, NEW t \in Thread, WriteSectors(t) PROVE IInv'
<1> USE DEF WriteSectors, tvars
<1>1. /\ At(t, "poll") /\ pc[t] = "poll" /\ late' = late /\ panic' = FALSE
      /\ intr' \in BOOLEAN /\ ~intr'
      /\ value = 0 /\ \A u \in Thread : u # t => pc[u] \notin Inside
  BY AtFacts DEF At, Inside
<1>2. TInv' /\ CallersInv'
  BY <1>1, MoveCallers DEF Label, Inside
<1>3. pc' \in [Thread -> Label]
      /\ \A u \in Thread : pc'[u] = IF u = t THEN "down" ELSE pc[u]
  BY DEF Goto, IInv, TypeOK, Label, Inside
<1>4. TypeOK'
  BY <1>2, <1>3 DEF IInv, TypeOK, TInv, Label
<1>5. OneOwner'
  BY <1>1, <1>2, <1>3 DEF IInv, OneOwner, Inside, CallersInv
<1>6. SignalInv' /\ DiskInv' /\ (~late => OnTime')
  BY <1>1, <1>3
  DEF IInv, SignalInv, DiskInv, OnTime, Awaits, Writing, Inside
<1>. QED  BY <1>1, <1>2, <1>4, <1>5, <1>6 DEF IInv, TInv, SchedInv

\* The PANIC: the driver stops where it is, and only with a disk that is late.
LEMMA NoDataInv ==
    ASSUME IInv, NEW t \in Thread, NoData(t) \/ BusyGivesUp(t) PROVE IInv'
<1>1. /\ panic' = TRUE /\ UNCHANGED <<cur, status, ready, ticks, intr, saved, idle_pc>>
      /\ UNCHANGED <<pc, op, cmds, value, waiters, done, done_waiters, expecting, disk, irq, late>>
  BY DEF NoData, BusyGivesUp, ivars, chan
<1>2. late
  <2>1. CASE BusyGivesUp(t)
    BY <2>1 DEF BusyGivesUp
  <2>2. CASE NoData(t)
    <3>1. /\ pc[t] = "poll" /\ op[t] \in {"read", "write"}
          /\ disk # (IF op[t] = "read" THEN "data" ELSE "want") /\ disk # "accepting"
      BY <2>2 DEF NoData, At, IInv, TypeOK, Busy
    <3>. QED  BY <3>1 DEF IInv, OnTime, Reading, Writing
  <2>. QED  BY <2>1, <2>2
<1>3. TypeOK'
  BY <1>1 DEF IInv, TypeOK, TTypeOK
<1>4. OneOwner' /\ CallersInv' /\ SignalInv' /\ DiskInv'
  BY <1>1 DEF IInv, OneOwner, CallersInv, SignalInv, DiskInv, Awaits
<1>. QED  BY <1>1, <1>2, <1>3, <1>4 DEF IInv

LEMMA DiskStepInv == ASSUME IInv, DiskStep PROVE IInv'
<1> USE DEF DiskStep, tvars
<1>1. irq' \in BOOLEAN
  BY DEF IInv, TypeOK
<1>2. disk' \in {"data", "want", "idle"}
  OBVIOUS
<1>3. TypeOK'
  BY <1>1, <1>2 DEF IInv, TypeOK, TTypeOK
<1>4. OneOwner' /\ CallersInv' /\ SignalInv'
  BY DEF IInv, OneOwner, CallersInv, SignalInv, Awaits
<1>5. DiskInv'
  BY DEF IInv, DiskInv
<1>6. ~late => OnTime'
  BY DEF IInv, TypeOK, OnTime, Reading, Writing
<1>7. SchedInv'
  BY DEF IInv, SchedInv, OneRunning, ReadyExact, IdleSleeps, NoPanic, HltInterruptible
<1>. QED  BY <1>3, <1>4, <1>5, <1>6, <1>7 DEF IInv

-----------------------------------------------------------------------------
\* A thread that goes to sleep in sema_down, on the lock or on disk_done.
LEMMA SleepCallers ==
    ASSUME IInv, NEW t \in Thread, NEW l \in Label, At(t, l), l # "user",
           NEW bad, ~bad, Block("BLOCKED", status, ready, bad), UNCHANGED <<idle_pc, pc>>,
           \A u \in Thread : Find(waiters', u) =>
                             Find(waiters, u) \/ (u = t /\ l = "lock"),
           \A u \in Thread : Find(done_waiters', u) =>
                             Find(done_waiters, u) \/ (u = t /\ l = "down"),
           NoDup(waiters'), NoDup(done_waiters')
    PROVE  TInv' /\ CallersInv'
<1> USE ThreadAssumption
<1>1. /\ cur = t /\ t # Idle /\ pc[t] = l /\ ~intr /\ TInv
      /\ cur \in Thread /\ saved \in [Thread -> BOOLEAN]
  BY AtFacts DEF TInv, TTypeOK
<1>2. /\ TInv' /\ Switched /\ cur' # t /\ status'[t] = "BLOCKED"
      /\ \A u \in Thread \ {Idle, t} :
            status'[u] = status[u] \/ (status[u] \in Live /\ status'[u] \in Live)
  BY <1>1, BlockStep DEF Sleeping
<1>3. cur' \in Thread
  BY <1>2 DEF TInv, TTypeOK
<1>4. pc'[cur'] # "user" => ~intr'
  BY <1>1, <1>2, <1>3 DEF IInv, CallersInv, Switched
<1>5. \A u \in Thread : pc'[u] # "user" /\ u # cur' => ~saved'[u]
  BY <1>1, <1>2, <1>3 DEF IInv, CallersInv, Switched
<1>6. CallersInv'
  BY <1>1, <1>2, <1>4, <1>5 DEF IInv, CallersInv, Live
<1>. QED  BY <1>2, <1>6

LEMMA LockBlockInv == ASSUME IInv, NEW t \in Thread, LockBlock(t) PROVE IInv'
<1> USE DEF LockBlock
<1>1. At(t, "lock") /\ ~Find(waiters, t) /\ waiters \in Seq(Thread)
      /\ NoDup(waiters) /\ NoDup(done_waiters)
  BY AtFacts DEF IInv, TypeOK, CallersInv
<1>2. /\ waiters' \in Seq(Thread)
      /\ \A u : Find(waiters', u) <=> Find(waiters, u) \/ u = t
      /\ NoDup(waiters')
  BY <1>1, AppendFacts
<1>3. TInv' /\ CallersInv'
  BY <1>1, <1>2, SleepCallers DEF Label
<1>4. TypeOK'
  BY <1>2, <1>3 DEF IInv, TypeOK, TInv
<1>5. OneOwner' /\ SignalInv' /\ DiskInv' /\ (~late' => OnTime')
  BY DEF IInv, OneOwner, SignalInv, DiskInv, OnTime, Awaits, Reading, Writing
<1>. QED  BY <1>3, <1>4, <1>5 DEF IInv, TInv, SchedInv, NoPanic

LEMMA DoneBlockInv == ASSUME IInv, NEW t \in Thread, DoneBlock(t) PROVE IInv'
<1> USE DEF DoneBlock
<1>1. /\ At(t, "down") /\ pc[t] = "down" /\ ~Find(done_waiters, t)
      /\ done_waiters \in Seq(Thread) /\ NoDup(waiters) /\ NoDup(done_waiters)
  BY AtFacts, ZenonT(60) DEF IInv, TypeOK, CallersInv
<1>2. /\ done_waiters' \in Seq(Thread)
      /\ \A u : Find(done_waiters', u) <=> Find(done_waiters, u) \/ u = t
      /\ NoDup(done_waiters')
  BY <1>1, AppendFacts
<1>3. TInv' /\ CallersInv'
  BY <1>1, <1>2, SleepCallers DEF Label, Inside
<1>4. TypeOK'
  BY <1>2, <1>3 DEF IInv, TypeOK, TInv
<1>5. expecting
  BY <1>1 DEF IInv, SignalInv, Awaits
<1>6. OneOwner'
  BY <1>1, <1>2 DEF IInv, OneOwner
<1>7. SignalInv' /\ DiskInv' /\ (~late' => OnTime')
  BY <1>5 DEF IInv, SignalInv, DiskInv, OnTime, Awaits, Reading, Writing
<1>. QED  BY <1>3, <1>4, <1>6, <1>7 DEF IInv, TInv, SchedInv, NoPanic

\* A wake-up by sema_up: nobody but the thread woken changes its place.
LEMMA WakeCallers ==
    ASSUME IInv, ~panic, NEW w \in Thread, w # Idle, status[w] = "BLOCKED",
           NEW bad, ~bad, Unblock(w, bad), idle_pc' \in {"block", "woken", "hlt"}
    PROVE  /\ TInv' /\ UNCHANGED <<cur, intr, saved>>
           /\ \A u \in Thread : status'[u] = IF u = w THEN "READY" ELSE status[u]
<1>1. TInv
  BY DEF IInv, TInv, TypeOK
<1>2. TInv'
  BY <1>1, UnblockCorrect DEF Sleeping
<1>. QED  BY <1>1, <1>2 DEF Unblock, TInv, TTypeOK

LEMMA ReleaseInv == ASSUME IInv, NEW t \in Thread, LockRelease(t) PROVE IInv'
<1> USE ThreadAssumption
<1>1. /\ At(t, "cmd") /\ cur = t /\ pc[t] = "cmd" /\ status[t] = "RUNNING" /\ ~panic
      /\ intr \in BOOLEAN /\ ~intr /\ t # Idle
      /\ value = 0 /\ \A u \in Thread : u # t => pc[u] \notin Inside
  BY AtFacts DEF Inside, At, LockRelease
<1>2. /\ value' = 1 /\ Goto(t, "kernel")
      /\ UNCHANGED <<idle_pc, op, cmds, done, done_waiters, expecting, disk, irq, late>>
  BY <1>1 DEF LockRelease
<1>3. /\ pc' \in [Thread -> Label]
      /\ \A u \in Thread : pc'[u] = IF u = t THEN "kernel" ELSE pc[u]
  BY <1>2 DEF Goto, IInv, TypeOK, Label
<1>4. TInv' /\ CallersInv' /\ waiters' \in Seq(Thread)
  <2>1. CASE waiters = <<>>
    <3>1. UNCHANGED <<cur, status, ready, ticks, intr, saved, waiters>>
      BY <2>1 DEF LockRelease
    <3>2. panic' = FALSE
      BY <1>1, <2>1 DEF LockRelease
    <3>. QED  BY <1>1, <1>2, <3>1, <3>2, MoveCallers DEF Label, IInv, TypeOK
  <2>2. CASE waiters # <<>>
    <3> DEFINE w == Head(waiters)
    <3>1. waiters' = Tail(waiters) /\ Unblock(w, value # 0)
      BY <2>2 DEF LockRelease
    <3>2. /\ w \in Thread /\ Find(waiters, w) /\ waiters' \in Seq(Thread)
          /\ NoDup(waiters')
          /\ \A u : Find(waiters', u) <=> Find(waiters, u) /\ u # w
      BY <2>2, <3>1, PopFacts DEF IInv, TypeOK, CallersInv
    <3> HIDE DEF w
    <3>3. w # Idle /\ status[w] = "BLOCKED" /\ pc[w] = "lock"
      BY <3>2 DEF IInv, CallersInv
    <3>4. /\ TInv' /\ UNCHANGED <<cur, intr, saved>>
          /\ \A u \in Thread : status'[u] = IF u = w THEN "READY" ELSE status[u]
      BY <1>1, <1>2, <3>1, <3>2, <3>3, WakeCallers DEF IInv, TypeOK, TTypeOK
    <3>5. CallersInv'
      BY <1>1, <1>2, <1>3, <3>2, <3>3, <3>4, ZenonT(60) DEF IInv, CallersInv
    <3>. QED  BY <3>2, <3>4, <3>5
  <2>. QED  BY <2>1, <2>2
<1>5. TypeOK'
  BY <1>2, <1>3, <1>4 DEF IInv, TypeOK, TInv, Label
<1>6. OneOwner'
  BY <1>1, <1>2, <1>3, <1>4 DEF OneOwner, Inside, CallersInv
<1>7. SignalInv' /\ DiskInv' /\ (~late' => OnTime')
  BY <1>1, <1>2, <1>3
  DEF IInv, SignalInv, DiskInv, OnTime, Awaits, Reading, Writing, Inside
<1>. QED  BY <1>2, <1>4, <1>5, <1>6, <1>7 DEF IInv, TInv, SchedInv, NoPanic

LEMMA HdInterruptInv == ASSUME IInv, HdInterrupt PROVE IInv'
<1> USE ThreadAssumption
<1>1. /\ ~panic /\ irq /\ intr /\ ~irq' /\ ~expecting'
      /\ UNCHANGED <<pc, op, cmds, value, waiters, disk, late>>
  BY DEF HdInterrupt
<1>2. TInv /\ idle_pc' \in {"block", "woken", "hlt"}
  BY <1>1 DEF HdInterrupt, WakeCpu, IInv, TInv, TypeOK, TTypeOK
<1>3. expecting' \in BOOLEAN /\ irq' \in BOOLEAN
  BY DEF HdInterrupt
<1>4. CASE ~expecting
  <2>1. UNCHANGED <<cur, status, ready, ticks, intr, saved, panic, done, done_waiters>>
    BY <1>4 DEF HdInterrupt
  <2>2. TInv'
    BY <1>2, <2>1, FlagCorrect DEF TInv, TTypeOK, SchedInv, HltInterruptible
  <2>3. TypeOK'
    BY <1>1, <1>3, <2>1, <2>2 DEF IInv, TypeOK, TInv
  <2>4. OneOwner' /\ CallersInv'
    BY <1>1, <2>1 DEF IInv, OneOwner, CallersInv
  <2>5. SignalInv' /\ DiskInv' /\ (~late' => OnTime')
    BY <1>1, <1>4, <2>1
    DEF IInv, SignalInv, DiskInv, OnTime, Awaits, Reading, Writing
  <2>. QED  BY <2>2, <2>3, <2>4, <2>5 DEF IInv, TInv, SchedInv, NoPanic
<1>5. CASE expecting
  <2>1. PICK t \in Thread : Awaits(t)
    BY <1>5 DEF IInv, SignalInv
  <2>2. done = 0 /\ pc[t] \in {"down", "poll"}
        /\ \A u \in Thread : u # t => pc[u] \notin Inside
    BY <1>5, <2>1 DEF IInv, SignalInv, OneOwner, Awaits, Inside
  <2>3. done' = 1
    <3>1. done' = done + 1
      BY <1>5, Zenon DEF HdInterrupt
    <3>. QED  BY <2>2, <3>1
  <2>4. TInv' /\ CallersInv' /\ done_waiters' = <<>>
    <3>1. CASE done_waiters = <<>>
      <4>1. UNCHANGED <<cur, status, ready, ticks, intr, saved, done_waiters>>
        BY <1>5, <3>1 DEF HdInterrupt
      <4>2. panic' = FALSE /\ panic = FALSE
        BY <1>1, <1>2, <1>5, <2>2, <3>1 DEF HdInterrupt, TInv, TTypeOK
      <4>3. TInv'
        BY <1>2, <4>1, <4>2, FlagCorrect DEF TInv, TTypeOK, SchedInv, HltInterruptible
      <4>4. CallersInv'
        BY <1>1, <4>1 DEF IInv, CallersInv
      <4>. QED  BY <3>1, <4>1, <4>3, <4>4
    <3>2. CASE done_waiters # <<>>
      <4> DEFINE w == Head(done_waiters)
      <4>1. done_waiters' = Tail(done_waiters) /\ Unblock(w, done # 0)
        BY <1>5, <3>2 DEF HdInterrupt
      <4>2. /\ w \in Thread /\ Find(done_waiters, w) /\ done_waiters' \in Seq(Thread)
            /\ NoDup(done_waiters')
            /\ \A u : Find(done_waiters', u) <=> Find(done_waiters, u) /\ u # w
        BY <3>2, <4>1, PopFacts DEF IInv, TypeOK, CallersInv
      <4> HIDE DEF w
      <4>3. w # Idle /\ status[w] = "BLOCKED" /\ pc[w] = "down"
        BY <4>2 DEF IInv, CallersInv
      <4>4. /\ TInv' /\ UNCHANGED <<cur, intr, saved>>
            /\ \A u \in Thread : status'[u] = IF u = w THEN "READY" ELSE status[u]
        BY <1>1, <1>2, <2>2, <4>1, <4>2, <4>3, WakeCallers
      <4>5. CallersInv'
        BY <1>1, <4>2, <4>3, <4>4 DEF IInv, CallersInv
      <4>6. \A u \in Thread : ~Find(done_waiters', u)
        BY <2>2, <4>2, <4>3 DEF IInv, CallersInv, Inside
      <4>7. done_waiters' = <<>>
        BY <4>2, <4>6, PopFacts
      <4>. QED  BY <4>4, <4>5, <4>7
    <3>. QED  BY <3>1, <3>2
  <2>5. TypeOK'
    BY <1>1, <1>3, <2>3, <2>4, EmptyFacts DEF IInv, TypeOK, TInv
  <2>6. OneOwner'
    BY <1>1, <2>4, EmptyFacts DEF IInv, OneOwner
  <2>7. SignalInv' /\ DiskInv' /\ (~late' => OnTime')
    BY <1>1, <1>5, <2>1, <2>2, <2>3, <2>4
    DEF IInv, SignalInv, DiskInv, OnTime, Awaits, Reading, Writing, Inside
  <2>. QED  BY <2>4, <2>5, <2>6, <2>7 DEF IInv, TInv, SchedInv, NoPanic
<1>. QED  BY <1>4, <1>5

LEMMA KernelInv == ASSUME IInv, Kernel PROVE IInv'
<1> USE ThreadAssumption
<1>1. UNCHANGED ivars /\ ~panic
  BY DEF Kernel, Tick, IdleBlock, IdleHlt, ThreadStart
<1>2. TInv
  BY <1>1 DEF IInv, TInv, TypeOK
<1>3. CASE Tick \/ IdleBlock
  <2>1. TInv'
    BY <1>2, <1>3, TNextInv DEF TNext
  <2>. QED  BY <1>1, <1>2, <1>3, <2>1, QuietStatus, QuietFlags, QuietInv
<1>4. CASE IdleHlt
  <2>1. TInv'
    BY <1>2, <1>4, TNextInv DEF TNext
  <2>2. UNCHANGED <<cur, saved, status>> /\ pc[cur] = "user"
    BY <1>4 DEF IdleHlt, IInv, CallersInv
  <2>. QED  BY <1>1, <2>1, <2>2, QuietInv
<1>5. ASSUME NEW t \in Thread, ThreadStart(t) PROVE IInv'
  <2>1. TInv'
    BY <1>2, <1>5, StartCorrect
  <2>2. /\ status[t] = "DIED" /\ UNCHANGED <<cur, intr>>
        /\ \A u \in Thread : status'[u] = IF u = t THEN "READY" ELSE status[u]
        /\ \A u \in Thread : saved'[u] = IF u = t THEN TRUE ELSE saved[u]
    BY <1>2, <1>5 DEF ThreadStart, TInv, TTypeOK
  <2>3. CallersInv'
    BY <1>1, <2>2 DEF IInv, CallersInv, ivars, chan
  <2>4. TypeOK'
    BY <1>1, <2>1 DEF IInv, TypeOK, TInv, ivars, chan
  <2>5. OneOwner' /\ SignalInv' /\ DiskInv' /\ (~late' => OnTime')
    BY <1>1 DEF IInv, OneOwner, SignalInv, DiskInv, OnTime, Awaits, Reading, Writing,
                ivars, chan
  <2>. QED  BY <2>1, <2>3, <2>4, <2>5 DEF IInv, TInv, SchedInv, NoPanic
<1>. QED  BY <1>3, <1>4, <1>5, IdeAssumption DEF Kernel

LEMMA NextInv == IInv /\ [Next]_vars => IInv'
<1> SUFFICES ASSUME IInv, [Next]_vars PROVE IInv'
  OBVIOUS
<1>1. ASSUME NEW t \in Thread, BusySleep(t) PROVE IInv'
  <2>1. TInv /\ ThreadYield /\ UNCHANGED ivars
    BY <1>1, AtFacts DEF BusySleep
  <2>2. TInv'
    BY <2>1, TNextInv DEF TNext
  <2>. QED  BY <2>1, <2>2, QuietStatus, QuietFlags, QuietInv
<1>2. ASSUME NEW t \in Thread, CallStep(t) PROVE IInv'
  BY <1>1, <1>2, LockBlockInv, TakeInv, CmdOutInv, DoneBlockInv, DoneTakeInv, ReadInv,
     WriteInv, NoDataInv, ReleaseInv
  DEF CallStep
<1>3. CASE UNCHANGED vars
  <2>1. UNCHANGED tvars /\ UNCHANGED ivars
    BY <1>3 DEF vars
  <2>. QED  BY <2>1, SMTT(30) DEF tvars, ivars, chan, IInv, TypeOK, TTypeOK, OneOwner, SchedInv,
              OneRunning, ReadyExact, IdleSleeps, NoPanic, HltInterruptible, CallersInv,
              SignalInv, DiskInv, OnTime, Awaits, Reading, Writing
<1>. QED
  BY <1>2, <1>3, KernelInv, DiskStepInv, HdInterruptInv, EnterInv, LeaveInv, CallInv
  DEF Next

LEMMA SpecInv == Spec => []IInv
BY InitInv, NextInv, PTL DEF Spec

\* For any number of threads in ide_read and ide_write: the channel has one owner,
\* only the owner waits for the disk, and a signal in disk_done is the owner's,
\* whatever requests of the disk come late.
THEOREM ChannelConsistent == Spec => []IdeInv
<1>1. IInv => IdeInv
  BY DEF IInv, IdeInv, DoneBelongs, SignalInv, Awaits, Inside
<1>. QED  BY <1>1, SpecInv, PTL

\* The interrupt an owner sleeps for is expected and on its way: the wait in
\* sema_down(&disk_done) never begins after its wake-up.
THEOREM DiskWakes == Spec => []DiskWillWake
<1>1. IInv => DiskWillWake
  <2> SUFFICES ASSUME IInv, done_waiters # <<>>
               PROVE  expecting /\ done = 0 /\ (irq \/ disk \in {"reading", "writing"})
    BY DEF DiskWillWake
  <2>1. Find(done_waiters, Head(done_waiters)) /\ Head(done_waiters) \in Thread
    BY PopFacts DEF IInv, TypeOK
  <2>2. pc[Head(done_waiters)] = "down" /\ expecting
    BY <2>1 DEF IInv, CallersInv, SignalInv
  <2>. QED  BY <2>1, <2>2 DEF IInv, SignalInv, DiskInv, Awaits
<1>. QED  BY <1>1, SpecInv, PTL

\* Unless requests come late, the driver writes a command only to an idle disk.
THEOREM CommandsWait == Spec => []CommandWhenIdle
<1>1. IInv => CommandWhenIdle
  BY DEF IInv, CommandWhenIdle, OnTime, OneOwner, Inside
<1>. QED  BY <1>1, SpecInv, PTL

\* Unless requests come late, no PANIC of the driver, no ASSERT of thread.c and
\* none of sync.c is ever reached.
THEOREM DriverNeverPanics == Spec => [](~late => ~panic)
<1>1. IInv => (~late => ~panic)
  BY DEF IInv
<1>. QED  BY <1>1, SpecInv, PTL
=============================================================================
