----------------------------- MODULE Semaphore -----------------------------
(***************************************************************************)
(* sylar::Semaphore of src/src/thread/semaphore.cpp: a count behind a      *)
(* mutex and a condition variable, line by line.  A thread is in wait() or *)
(* signal() of one semaphore at a time; the mutex of a semaphore is held   *)
(* by the thread whose label says so.                                      *)
(***************************************************************************)
EXTENDS Naturals, FiniteSets

CONSTANTS
    Procs,      \* the threads
    Semaphores

VARIABLES
    count,      \* _count of each semaphore
    at          \* at[s][p]: where p is in a call on s; "out" when in none

semVars == <<count, at>>

WaitLabels == {"waitLock", "test", "block", "asleep", "take"}
SignalLabels == {"signalLock", "increment", "notify", "unlock"}

\* Mutant: signal() does not lock _mutex.
Locked_WaitOnly == {"test", "block", "take"}

\* Mutant: notify_one() after the lock is released.
Locked_NotifyOutside == {"test", "block", "take", "increment"}

\* The labels at which a thread holds _mutex.
Locked == {"test", "block", "take", "increment", "notify", "unlock"}

Unlocked(s) == \A p \in Procs : at[s][p] \notin Locked

Asleep(s) == {p \in Procs : at[s][p] = "asleep"}

Goto(s, p, from, to) ==
    /\ at[s][p] = from
    /\ at' = [at EXCEPT ![s][p] = to]

Init ==
    /\ count = [s \in Semaphores |-> 0]
    /\ at = [s \in Semaphores |-> [p \in Procs |-> "out"]]

\* The default argument is the only one the library passes.
Construct(s) ==
    /\ \A p \in Procs : at[s][p] = "out"
    /\ count' = [count EXCEPT ![s] = 0]
    /\ UNCHANGED at
----------------------------------------------------------------------------
(* wait() *)

wait(s, p) == Goto(s, p, "out", "waitLock") /\ UNCHANGED count

\* The lock at the start of wait(), or again on the way out of _cv.wait().
WaitLocks(s, p) ==
    /\ Unlocked(s)
    /\ Goto(s, p, "waitLock", "test")
    /\ UNCHANGED count

\* The condition of the loop.
Tests(s, p) ==
    /\ Goto(s, p, "test", IF count[s] = 0 THEN "block" ELSE "take")
    /\ UNCHANGED count

\* _cv.wait() releases the mutex and sleeps in one step.
Blocks(s, p) == Goto(s, p, "block", "asleep") /\ UNCHANGED count

\* Mutant: `if` for `while`, a thread that wakes takes without looking.
WakesUnasked_NoLoop(s, p) ==
    /\ Unlocked(s)
    /\ Goto(s, p, "asleep", "take")
    /\ UNCHANGED count

\* A condition variable may wake a thread nobody has notified.
WakesUnasked(s, p) == Goto(s, p, "asleep", "waitLock") /\ UNCHANGED count

Takes(s, p) ==
    /\ Goto(s, p, "take", "out")
    /\ count' = [count EXCEPT ![s] = count[s] - 1]
----------------------------------------------------------------------------
(* signal() *)

signal(s, p) == Goto(s, p, "out", "signalLock") /\ UNCHANGED count

SignalLocks(s, p) ==
    /\ Unlocked(s)
    /\ Goto(s, p, "signalLock", "increment")
    /\ UNCHANGED count

Increments(s, p) ==
    /\ Goto(s, p, "increment", "notify")
    /\ count' = [count EXCEPT ![s] = count[s] + 1]

\* Mutant: notify_one() is left out.
Notifies_Nobody(s, p) == Goto(s, p, "notify", "unlock") /\ UNCHANGED count

Wakes(s, p, q) ==
    /\ at[s][p] = "notify" /\ at[s][q] = "asleep"
    /\ at' = [at EXCEPT ![s][p] = "unlock", ![s][q] = "waitLock"]

\* notify_one(): one of the threads asleep, if there are any, goes for the lock.
Notifies(s, p) ==
    /\ \/ Asleep(s) = {} /\ Goto(s, p, "notify", "unlock")
       \/ \E q \in Procs : Wakes(s, p, q)
    /\ UNCHANGED count

Unlocks(s, p) == Goto(s, p, "unlock", "out") /\ UNCHANGED count
----------------------------------------------------------------------------
\* The steps of wait() and of signal() before the last.
WaitStep(s, p) == WaitLocks(s, p) \/ Tests(s, p) \/ Blocks(s, p)
SignalStep(s, p) == SignalLocks(s, p) \/ Increments(s, p) \/ Notifies(s, p)

Next ==
    \E s \in Semaphores :
        \/ Construct(s)
        \/ \E p \in Procs :
              \/ wait(s, p) \/ WaitStep(s, p) \/ WakesUnasked(s, p) \/ Takes(s, p)
              \/ signal(s, p) \/ SignalStep(s, p) \/ Unlocks(s, p)

Spec == Init /\ [][Next]_semVars
----------------------------------------------------------------------------
(* Properties *)

\* The type invariant of the semaphores: a count never goes below zero.
TypeOK ==
    /\ count \in [Semaphores -> Nat]
    /\ at \in [Semaphores -> [Procs -> {"out"} \cup WaitLabels \cup SignalLabels]]

\* _mutex excludes: what a thread has read in the loop of wait() stays true until
\* it takes one or sleeps.
LockedIsStable ==
    \A s \in Semaphores, p \in Procs :
        /\ at[s][p] \in Locked => \A q \in Procs \ {p} : at[s][q] \notin Locked
        /\ at[s][p] = "block" => count[s] = 0
        /\ at[s][p] = "take" => count[s] > 0

Awake(s) == {p \in Procs : at[s][p] \in {"waitLock", "test", "take", "notify"}}

\* No signal is lost: for each unit of the count a thread is awake that will look
\* at it, or about to be notified, unless nobody sleeps on the semaphore.
NoSignalLost ==
    \A s \in Semaphores : Asleep(s) = {} \/ count[s] <= Cardinality(Awake(s))

\* The refinement: a request is over when the count has changed.
Asked(label) ==
    CASE label \in WaitLabels -> "P"
      [] label \in {"signalLock", "increment"} -> "V"
      [] OTHER -> "none"

Requests == [s \in Semaphores |-> [p \in Procs |-> Asked(at[s][p])]]

Counting == INSTANCE CountingSemaphore WITH value <- count, request <- Requests
=============================================================================
