----------------------------- MODULE ThreadLife -----------------------------
(***************************************************************************)
(* What sylar::Thread promises the code that uses it, with neither         *)
(* semaphore nor object: the constructor starts a thread and returns when  *)
(* it is up, join() returns when it has ended, and each thread is joined   *)
(* or detached at most once.                                               *)
(* Thread.tla is shown to implement this specification, and Scheduler.tla, *)
(* which has Thread's operations as single steps, to keep to it.           *)
(***************************************************************************)
CONSTANT Kids       \* the threads that may be started

VARIABLES
    stage,          \* stage[k]: "none", "starting", "running" or "ended"
    handle,         \* handle[k]: "none", "owned", "joined" or "detached"
    constructing    \* a constructor has been called and has not returned

lifeVars == <<stage, handle, constructing>>

Init ==
    /\ stage = [k \in Kids |-> "none"]
    /\ handle = [k \in Kids |-> "none"]
    /\ constructing = FALSE

\* Threads are constructed one at a time.
Construct(k) ==
    /\ ~constructing
    /\ stage[k] = "none"
    /\ stage' = [stage EXCEPT ![k] = "starting"]
    /\ handle' = [handle EXCEPT ![k] = "owned"]
    /\ constructing' = TRUE

\* The thread knows its object, its id and its callback.
ComesUp(k) ==
    /\ stage[k] = "starting"
    /\ stage' = [stage EXCEPT ![k] = "running"]
    /\ UNCHANGED <<handle, constructing>>

\* The constructor returns to a client that may use or destroy any of its threads.
Constructed ==
    /\ constructing
    /\ \A k \in Kids : stage[k] # "starting"
    /\ constructing' = FALSE
    /\ UNCHANGED <<stage, handle>>

Ends(k) ==
    /\ stage[k] = "running"
    /\ stage' = [stage EXCEPT ![k] = "ended"]
    /\ UNCHANGED <<handle, constructing>>

\* A client that joins several threads one after the other has joined them all
\* when it is done.
Join(joined) ==
    /\ ~constructing
    /\ \A k \in joined : stage[k] = "ended" /\ handle[k] = "owned"
    /\ handle' = [k \in Kids |-> IF k \in joined THEN "joined" ELSE handle[k]]
    /\ UNCHANGED <<stage, constructing>>

Detach(k) ==
    /\ ~constructing
    /\ handle[k] = "owned"
    /\ handle' = [handle EXCEPT ![k] = "detached"]
    /\ UNCHANGED <<stage, constructing>>

Next ==
    \/ \E k \in Kids : Construct(k) \/ ComesUp(k) \/ Ends(k) \/ Detach(k)
    \/ Constructed
    \/ \E joined \in SUBSET Kids : Join(joined)

Spec == Init /\ [][Next]_lifeVars
=============================================================================
