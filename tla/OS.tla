--------------------------------- MODULE OS ---------------------------------
(***************************************************************************)
(* The counting semaphores of the real-time kernel the meter is linked     *)
(* with (Library/OS.h; only its binary is in the repository, so this is    *)
(* modelled from how Sources/ uses it).  Threads have fixed priorities, 0  *)
(* being the most urgent.  A wait on a semaphore whose count is 0 puts the *)
(* caller to sleep; a signal hands the unit to the most urgent sleeper, or *)
(* increments the count when nobody sleeps.  Each call is atomic: the      *)
(* kernel runs it with interrupts masked.  Every wait of the program has   *)
(* time-out 0, which means "for ever".                                     *)
(***************************************************************************)
EXTENDS Integers, FiniteSets

CONSTANTS
    Threads,       \* the threads of the system
    Semaphores,    \* the event control blocks (OS_ECB)
    Priority       \* OS_ThreadCreate's priority of each thread

ASSUME OSAssumption == /\ IsFiniteSet(Threads)
                       /\ Priority \in [Threads -> Nat]

VARIABLES
    count,         \* the count of each semaphore
    waiters        \* the threads asleep on each semaphore

osVars == <<count, waiters>>

\* OS_SemaphoreCreate(n) for every semaphore at once.
OS_SemaphoreCreate(initial) ==
    /\ count = initial
    /\ waiters = [s \in Semaphores |-> {}]

\* A thread that sleeps on no semaphore can be scheduled.
Ready(t) == \A s \in Semaphores : t \notin waiters[s]

\* The members of S the scheduler prefers.
Urgent(S) == {t \in S : \A u \in S : Priority[t] <= Priority[u]}

Take(s) ==
    /\ count[s] > 0
    /\ count' = [count EXCEPT ![s] = @ - 1]
    /\ UNCHANGED waiters

Sleep(s, t) ==
    /\ count[s] = 0
    /\ waiters' = [waiters EXCEPT ![s] = @ \cup {t}]
    /\ UNCHANGED count

OS_SemaphoreWait(s, t) == Take(s) \/ Sleep(s, t)

Give(s) ==
    /\ waiters[s] = {}
    /\ count' = [count EXCEPT ![s] = @ + 1]
    /\ UNCHANGED waiters

HandOver(s, t) ==
    /\ t \in Urgent(waiters[s])
    /\ waiters' = [waiters EXCEPT ![s] = @ \ {t}]
    /\ UNCHANGED count

OS_SemaphoreSignal(s) == Give(s) \/ \E t \in waiters[s] : HandOver(s, t)

=============================================================================
