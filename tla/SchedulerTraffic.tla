-------------------------- MODULE SchedulerTraffic --------------------------
(***************************************************************************)
(* The scheduler under traffic that need not end.  Scheduler.tla numbers   *)
(* the scheduleLock() calls and bounds them by MaxCalls, by which every    *)
(* task stops scheduling some day.  Here a task that run() has finished    *)
(* with is forgotten when the bound is reached, and those after it move up *)
(* a number: MaxCalls bounds the tasks that are queued or run at one time  *)
(* and no longer those of a behaviour, so that tasks and other threads may *)
(* schedule for ever.                                                      *)
(***************************************************************************)
EXTENDS Scheduler

CONSTANT Kept   \* the first tasks are not forgotten, which tells them from later ones

ASSUME KeptAssumption == Kept \in 0..MaxCalls

MovesUp(id, n) == IF n > id THEN n - 1 ELSE n

\* Ids, calls and retired are history: nothing the program has is changed.
Forget(id) ==
    /\ Alive /\ calls = MaxCalls
    /\ id \in retired /\ id > Kept
    /\ calls' = calls - 1
    /\ retired' = {MovesUp(id, n) : n \in retired \ {id}}
    /\ m_tasks' = [i \in DOMAIN m_tasks |-> [m_tasks[i] EXCEPT !.id = MovesUp(id, @)]]
    /\ task' = [t \in Threads |-> [task[t] EXCEPT !.id = MovesUp(id, @)]]
    /\ UNCHANGED <<objVars, counters, fiberVars, capacity, stale, rootPc, pc, idleState,
                   late, aborted>>

NextOrForget == Next \/ \E id \in 1..MaxCalls : Forget(id)

FairSpec == Init /\ [][NextOrForget]_vars /\ Fairness
----------------------------------------------------------------------------
(* Liveness *)

TasksKeepScheduling ==
    []<><<\E t \in Threads, f \in Fibers, target \in Targets :
              BodySchedule(t, f, target)>>_vars

SchedulingGoesOn == []<><<Schedule>>_vars

\* A task for a thread that start() never got to create, or for the constructing
\* thread of a scheduler without use_caller, has nobody to run it.
NeverRuns(t) == IF t = Root THEN ~m_useCallerThread ELSE broken /\ pc[t] = "off"
Orphaned == \E i \in DOMAIN m_tasks : m_tasks[i].thread \in {t \in Threads : NeverRuns(t)}

\* stop() returns: the workers notice that it was called, drain the queue and leave,
\* unless the tasks go on scheduling tasks for ever, which keeps the queue from
\* ever being empty and stop() from returning, or one has nobody to run it.
StopReturns ==
    \/ TasksKeepScheduling
    \/ m_stopping ~> rootPc \in {"stopped", "destroyed"} \/ ~Alive \/ late \/ Orphaned

\* The task is queued for any thread, and there is a worker.
Awaits(id) ==
    /\ \E i \in DOMAIN m_tasks : m_tasks[i].id = id /\ m_tasks[i].thread = AnyThread
    /\ \E w \in Pool : pc[w] # "off"

\* A task that any thread may run is taken by one, wherever in the queue it is and
\* whatever is queued before and for ever after it.  It is run as well, unless
\* scheduling goes on for ever: then its taker may starve at the fiber's m_mutex,
\* which is not fair, while another thread keeps running that fiber.
TasksAreRun ==
    /\ \A id \in 1..Kept : Awaits(id) ~> id \notin QueuedIds \/ ~Alive \/ late
    /\ \/ SchedulingGoesOn
       \/ \A id \in 1..Kept : Awaits(id) ~> id \in retired \/ ~Alive \/ late
=============================================================================
