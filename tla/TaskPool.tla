------------------------------ MODULE TaskPool ------------------------------
(***************************************************************************)
(* What sylar::Scheduler promises its clients, with none of its machinery: *)
(* a submitted task waits in a FIFO queue, is taken by exactly one thread  *)
(* it may run on, and is done once that thread has given it back.  A       *)
(* thread may leave for good only after a moment at which stop() had been  *)
(* asked for, nothing was waiting and nothing was being run.               *)
(*                                                                         *)
(* Tasks are numbered 1, 2, ... in the order they were submitted.          *)
(* Scheduler.tla is shown to implement this specification.                 *)
(***************************************************************************)
EXTENDS Naturals, SequencesExt

CONSTANTS
    Threads,    \* the threads that may serve the queue
    AnyThread,  \* the target of a task every thread may run
    MaxCalls    \* bound on the number of submissions

VARIABLES
    submitted,      \* number of tasks submitted so far
    pending,        \* the queue: a sequence of [id, thread]
    running,        \* running[t] is the task in t's hands, 0 when there is none
    done,           \* the tasks that were run and given back
    stopRequested,  \* stop() has been asked for
    drained,        \* the pool has been seen empty since stop() was asked for
    left            \* the threads that are gone

poolVars ==
    <<submitted, pending, running, done, stopRequested, drained, left>>

MayRun(t, entry) == entry.thread \in {AnyThread, t}

Init ==
    /\ submitted = 0
    /\ pending = <<>>
    /\ running = [t \in Threads |-> 0]
    /\ done = {}
    /\ stopRequested = FALSE
    /\ drained = FALSE
    /\ left = {}

Submit(target) ==
    /\ submitted < MaxCalls
    /\ submitted' = submitted + 1
    /\ pending' = Append(pending, [id |-> submitted + 1, thread |-> target])
    /\ UNCHANGED <<running, done, stopRequested, drained, left>>

\* A free thread takes the first entry it may run, and no other.
Take(t, i) ==
    /\ t \notin left
    /\ running[t] = 0
    /\ i \in 1..Len(pending)
    /\ MayRun(t, pending[i])
    /\ \A j \in 1..(i - 1) : ~MayRun(t, pending[j])
    /\ running' = [running EXCEPT ![t] = pending[i].id]
    /\ pending' = RemoveAt(pending, i)
    /\ UNCHANGED <<submitted, done, stopRequested, drained, left>>

Finish(t) ==
    /\ running[t] # 0
    /\ done' = done \cup {running[t]}
    /\ running' = [running EXCEPT ![t] = 0]
    /\ UNCHANGED <<submitted, pending, stopRequested, drained, left>>

RequestStop ==
    /\ stopRequested' = TRUE
    /\ UNCHANGED <<submitted, pending, running, done, drained, left>>

Drain ==
    /\ stopRequested
    /\ pending = <<>>
    /\ \A t \in Threads : running[t] = 0
    /\ drained' = TRUE
    /\ UNCHANGED <<submitted, pending, running, done, stopRequested, left>>

Leave(t) ==
    /\ drained
    /\ running[t] = 0
    /\ left' = left \cup {t}
    /\ UNCHANGED <<submitted, pending, running, done, stopRequested, drained>>

Next ==
    \/ \E target \in Threads \cup {AnyThread} : Submit(target)
    \/ \E t \in Threads : \E i \in 1..Len(pending) : Take(t, i)
    \/ \E t \in Threads : Finish(t) \/ Leave(t)
    \/ RequestStop
    \/ Drain

Spec == Init /\ [][Next]_poolVars
=============================================================================
