------------------------------ MODULE Scheduler ------------------------------
(***************************************************************************)
(* What the thread scheduler promises, without its list: one thread runs,  *)
(* a set of threads may run next, the others sleep.  The idle thread is    *)
(* taken out of its sleep only when nobody else could run.                 *)
(***************************************************************************)
CONSTANTS Thread, Idle

VARIABLES running, runnable, asleep

svars == <<running, runnable, asleep>>

SInit ==
    /\ running \in Thread \ {Idle}
    /\ runnable \subseteq Thread \ {running}
    /\ Idle \in runnable
    /\ asleep = {}

\* The running thread gives up the CPU but stays runnable.
Preempt ==
    \E next \in runnable \cup {running} :
        /\ running' = next
        /\ runnable' = (runnable \cup {running}) \ {next}
        /\ UNCHANGED asleep

\* The running thread goes to sleep; somebody else, or Idle if there is nobody,
\* gets the CPU.
Sleep ==
    \/ /\ runnable = {}
       /\ running' = Idle
       /\ runnable' = {}
       /\ asleep' = (asleep \cup {running}) \ {Idle}
    \/ \E next \in runnable :
        /\ running' = next
        /\ runnable' = runnable \ {next}
        /\ asleep' = asleep \cup {running}

\* A sleeping thread other than Idle becomes runnable.
Wake(t) ==
    /\ t \in asleep \ {Idle}
    /\ runnable' = runnable \cup {t}
    /\ asleep' = asleep \ {t}
    /\ UNCHANGED running

\* A new thread becomes runnable.
Create(t) ==
    /\ t \notin runnable \cup asleep \cup {running}
    /\ runnable' = runnable \cup {t}
    /\ UNCHANGED <<running, asleep>>

\* A sleeping thread is disposed of.
Dispose(t) ==
    /\ t \in asleep \ {Idle}
    /\ asleep' = asleep \ {t}
    /\ UNCHANGED <<running, runnable>>

SNext ==
    \/ Preempt
    \/ Sleep
    \/ \E t \in Thread : Wake(t) \/ Create(t) \/ Dispose(t)

SSpec == SInit /\ [][SNext]_svars
==============================================================================
