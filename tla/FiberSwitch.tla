----------------------------- MODULE FiberSwitch -----------------------------
(***************************************************************************)
(* The context switch of src/src/fiber/fiber.cpp: resume() and yield() as  *)
(* they save and load contexts, and the three thread-local pointers that   *)
(* say where.  A thread is on its own stack or on that of a fiber, and     *)
(* each stack has code that goes on when a thread loads its context.       *)
(*                                                                         *)
(* The threads of a scheduler with use_caller: those of the pool run       *)
(* run() on their own stack, Root constructs the scheduler and runs run()  *)
(* in m_schedulerFiber, which stop() resumes.  run() resumes any fiber it  *)
(* can lock, so that a fiber moves between threads.  The client's code,    *)
(* on Root and in the fibers, may resume a fiber itself, with its m_mutex  *)
(* held as run() has it, and reset() one that has ended.                   *)
(*                                                                         *)
(* A fiber has the name of its stack: the main fiber of a thread that of   *)
(* the thread.  Loading a context that is not the last one saved of its    *)
(* stack, or of a stack some thread is on, is undefined: `broken`.         *)
(***************************************************************************)
CONSTANTS
    Pool,               \* the threads of m_pool
    Root,               \* the thread that constructs the scheduler and calls stop()
    Fibers,             \* the fibers of the client, READY at first
    m_schedulerFiber,   \* of Root
    None

Threads == Pool \cup {Root}
Stacks == Threads \cup Fibers \cup {m_schedulerFiber}
Loops == Pool \cup {m_schedulerFiber}   \* the stacks run() is on

ASSUME FiberSwitchAssumption ==
    /\ Root \notin Pool
    /\ m_schedulerFiber \notin Threads \cup Fibers
    /\ Fibers \cap Threads = {}
    /\ None \notin Stacks

VARIABLES
    \* thread-local
    on,                 \* the stack the thread is on
    _running_fiber, _scheduler_fiber, _main_fiber,
    \* of the fibers
    m_state,
    m_mutex,            \* the stack whose code has locked it
    m_ctx,              \* the stack m_ctx is a context of
    m_yieldToSchedulerFiber,
    \* of the stacks
    at,                 \* where the code is
    self,               \* the fiber its resume() or yield() is called on
    saved,              \* history: the fiber that has its last context, None when a thread is on it
    \* histories
    misused,            \* a fiber was resumed from a stack it does not yield to, or was reset
    broken

threadVars == <<on, _running_fiber, _scheduler_fiber, _main_fiber>>
fiberVars == <<m_state, m_mutex, m_ctx, m_yieldToSchedulerFiber>>
stackVars == <<at, self, saved>>
vars == <<threadVars, fiberVars, stackVars, misused, broken>>

\* Fiber() leaves m_yieldToSchedulerFiber of a main fiber unset.
Init ==
    /\ on = [t \in Threads |-> t]
    /\ _running_fiber = [t \in Threads |-> None]
    /\ _scheduler_fiber = [t \in Threads |-> None]
    /\ _main_fiber = [t \in Threads |-> None]
    /\ m_state = [f \in Stacks |-> "READY"]
    /\ m_mutex = [f \in Stacks |-> None]
    /\ m_ctx = [f \in Stacks |-> IF f \in Threads THEN None ELSE f]
    /\ m_yieldToSchedulerFiber \in {y \in [Stacks -> BOOLEAN] : ~y[m_schedulerFiber]}
    /\ at = [s \in Stacks |-> IF s \in Threads THEN "begin" ELSE "fresh"]
    /\ self = [s \in Stacks |-> None]
    /\ saved = [s \in Stacks |-> IF s \in Threads THEN None ELSE s]
    /\ misused = FALSE
    /\ broken = FALSE

Goto(s, label) == at' = [at EXCEPT ![s] = label]

\* The code of thread t is on stack s, at a label of the set.
Runs(t, s, labels) == ~broken /\ on[t] = s /\ at[s] \in labels

\* The fiber on whose context yield() goes on, and over whose context resume() saves.
Landing(t, f) ==
    IF m_yieldToSchedulerFiber[f] THEN _scheduler_fiber[t] ELSE _main_fiber[t]

\* swapcontext(): save stack s, which thread t is on, and load what is in `from`.
swapcontext(t, s, into, from) ==
    LET c == m_ctx[from] IN
    /\ m_ctx' = [m_ctx EXCEPT ![into] = s]
    /\ IF c \in Stacks /\ saved[c] = from /\ \A u \in Threads : on[u] # c
         THEN /\ on' = [on EXCEPT ![t] = c]
              /\ saved' = [saved EXCEPT ![s] = into, ![c] = None]
              /\ UNCHANGED broken
         ELSE /\ broken' = TRUE
              /\ UNCHANGED <<on, saved>>
----------------------------------------------------------------------------
(* The first fiber of a thread *)

\* Mutant: the thread's scheduler fiber is not set.
getRunningFiber_NoScheduler(t) ==
    /\ Runs(t, t, {"begin"})
    /\ _running_fiber' = [_running_fiber EXCEPT ![t] = t]
    /\ _main_fiber' = [_main_fiber EXCEPT ![t] = t]
    /\ m_state' = [m_state EXCEPT ![t] = "RUNNING"]
    /\ Goto(t, IF t = Root THEN "client" ELSE "loop")
    /\ UNCHANGED <<on, _scheduler_fiber, m_mutex, m_ctx, m_yieldToSchedulerFiber, self, saved,
                   misused, broken>>

\* run() of a thread of the pool makes its main fiber, the constructor of the
\* scheduler that of Root, which then has m_schedulerFiber to schedule in.
getRunningFiber(t) ==
    /\ Runs(t, t, {"begin"})
    /\ _running_fiber' = [_running_fiber EXCEPT ![t] = t]
    /\ _main_fiber' = [_main_fiber EXCEPT ![t] = t]
    /\ _scheduler_fiber' = [_scheduler_fiber EXCEPT
                              ![t] = IF t = Root THEN m_schedulerFiber ELSE t]
    /\ m_state' = [m_state EXCEPT ![t] = "RUNNING"]
    /\ Goto(t, IF t = Root THEN "client" ELSE "loop")
    /\ UNCHANGED <<on, m_mutex, m_ctx, m_yieldToSchedulerFiber, self, saved,
                   misused, broken>>
----------------------------------------------------------------------------
(* resume() *)

\* Resumed from here, a fiber that yields comes back to here.
ComesBack(s, f) == IF m_yieldToSchedulerFiber[f] THEN s \in Loops ELSE s \in Threads

\* Up to swapcontext(), with the assertion that the fiber is READY.
resume(t, s, f) ==
    /\ broken' = (m_state[f] # "READY")
    /\ m_state' = [m_state EXCEPT ![f] = "RUNNING"]
    /\ _running_fiber' = [_running_fiber EXCEPT ![t] = f]
    /\ Goto(s, "resume")
    /\ self' = [self EXCEPT ![s] = f]
    /\ misused' = (misused \/ ~ComesBack(s, f))
    /\ UNCHANGED <<on, _scheduler_fiber, _main_fiber, m_ctx, m_yieldToSchedulerFiber, saved>>

\* Mutant: the fiber's mutex is not taken.
LockAndResume_NoLock(t, s, f) ==
    /\ Runs(t, s, {"loop", "client", "body"})
    /\ m_state[f] # "TERM"
    /\ resume(t, s, f)
    /\ UNCHANGED m_mutex

\* run() with a task, or the client's code in a fiber or on Root.
LockAndResume(t, s, f) ==
    /\ Runs(t, s, {"loop", "client", "body"})
    /\ m_mutex[f] = None
    /\ m_mutex' = [m_mutex EXCEPT ![f] = s]
    /\ m_state[f] # "TERM"
    /\ resume(t, s, f)

\* stop() on Root, the first time.
ResumeScheduler(t, s) ==
    /\ t = Root /\ Runs(t, s, {"client"})
    /\ m_state[m_schedulerFiber] = "READY"
    /\ resume(t, s, m_schedulerFiber)
    /\ UNCHANGED m_mutex

\* Mutant: the context is saved in the main fiber's whatever the fiber.
SwapIn_MainOnly(t, s) ==
    /\ Runs(t, s, {"resume"})
    /\ swapcontext(t, s, _main_fiber[t], self[s])
    /\ Goto(s, "resumed")
    /\ UNCHANGED <<_running_fiber, _scheduler_fiber, _main_fiber, m_state, m_mutex,
                   m_yieldToSchedulerFiber, self, misused>>

SwapIn(t, s) ==
    /\ Runs(t, s, {"resume"})
    /\ swapcontext(t, s, Landing(t, self[s]), self[s])
    /\ Goto(s, "resumed")
    /\ UNCHANGED <<_running_fiber, _scheduler_fiber, _main_fiber, m_state, m_mutex,
                   m_yieldToSchedulerFiber, self, misused>>

\* swapcontext() has returned, and so does resume(); the mutex is unlocked.
Resumed(t, s) ==
    /\ Runs(t, s, {"resumed"})
    /\ m_mutex' = [f \in Stacks |-> IF m_mutex[f] = s THEN None ELSE m_mutex[f]]
    /\ Goto(s, IF s \in Loops THEN "loop" ELSE IF s = Root THEN "client" ELSE "body")
    /\ self' = [self EXCEPT ![s] = None]
    /\ UNCHANGED <<threadVars, m_state, m_ctx, m_yieldToSchedulerFiber, saved,
                   misused, broken>>
----------------------------------------------------------------------------
(* The code of a fiber *)

\* MainFunc() calls the callback of the running fiber, which has to be this one.
MainFunc(t, s) ==
    /\ Runs(t, s, {"fresh"})
    /\ Goto(s, IF s = m_schedulerFiber THEN "loop" ELSE "body")
    /\ broken' = (_running_fiber[t] # s)
    /\ UNCHANGED <<threadVars, fiberVars, self, saved, misused>>

\* getRunningFiber()->yield(), up to swapcontext(), with its assertion.
yield(t, s) ==
    /\ Runs(t, s, {"body"})
    /\ broken' = (m_state[_running_fiber[t]] = "READY")
    /\ m_state' = [m_state EXCEPT ![_running_fiber[t]] = IF @ = "TERM" THEN @ ELSE "READY"]
    /\ self' = [self EXCEPT ![s] = _running_fiber[t]]
    /\ Goto(s, "yield")
    /\ UNCHANGED <<threadVars, m_mutex, m_ctx, m_yieldToSchedulerFiber, saved,
                   misused>>

\* The callback returns; MainFunc() has kept a pointer to its fiber.
MainFuncEnds(t, s) ==
    /\ Runs(t, s, {"body", "loop"}) /\ s \notin Threads
    /\ m_state' = [m_state EXCEPT ![s] = "TERM"]
    /\ self' = [self EXCEPT ![s] = s]
    /\ Goto(s, "yield")
    /\ UNCHANGED <<threadVars, m_mutex, m_ctx, m_yieldToSchedulerFiber, saved,
                   misused, broken>>

\* Mutant: the running fiber stays the one that yields.
SwapOut_NotRunning(t, s) ==
    /\ Runs(t, s, {"yield"})
    /\ swapcontext(t, s, self[s], Landing(t, self[s]))
    /\ Goto(s, IF m_state[self[s]] = "TERM" THEN "ended" ELSE "body")
    /\ self' = [self EXCEPT ![s] = None]
    /\ UNCHANGED <<_running_fiber, _scheduler_fiber, _main_fiber, m_state, m_mutex,
                   m_yieldToSchedulerFiber, misused>>

\* The rest of yield().
SwapOut(t, s) ==
    /\ Runs(t, s, {"yield"})
    /\ _running_fiber' = [_running_fiber EXCEPT ![t] = Landing(t, self[s])]
    /\ swapcontext(t, s, self[s], Landing(t, self[s]))
    /\ Goto(s, IF m_state[self[s]] = "TERM" THEN "ended" ELSE "body")
    /\ self' = [self EXCEPT ![s] = None]
    /\ UNCHANGED <<_scheduler_fiber, _main_fiber, m_state, m_mutex,
                   m_yieldToSchedulerFiber, misused>>

\* getcontext() succeeds: m_ctx is a context of the caller's stack, and reset() takes
\* the success for a failure and ends the thread.
reset(t, s, f) ==
    /\ Runs(t, s, {"body", "client"})
    /\ m_state[f] = "TERM" /\ m_mutex[f] = None
    /\ m_state' = [m_state EXCEPT ![f] = "READY"]
    /\ m_ctx' = [m_ctx EXCEPT ![f] = s]
    /\ misused' = TRUE
    /\ Goto(s, "exited")
    /\ UNCHANGED <<threadVars, m_mutex, m_yieldToSchedulerFiber, self, saved, broken>>

\* The last yield() of a fiber returns: MainFunc() does, and uc_link is nullptr.
MainFuncReturns(t, s) ==
    /\ Runs(t, s, {"ended"})
    /\ Goto(s, "exited")
    /\ UNCHANGED <<threadVars, fiberVars, self, saved, misused, broken>>

\* run() of a thread of the pool returns.
RunReturns(t) ==
    /\ t \in Pool /\ Runs(t, t, {"loop"})
    /\ Goto(t, "exited")
    /\ UNCHANGED <<threadVars, fiberVars, self, saved, misused, broken>>
----------------------------------------------------------------------------
Step(t, s) ==
    \/ ResumeScheduler(t, s) \/ SwapIn(t, s) \/ Resumed(t, s)
    \/ MainFunc(t, s) \/ yield(t, s) \/ MainFuncEnds(t, s) \/ SwapOut(t, s)
    \/ MainFuncReturns(t, s)
    \/ \E f \in Fibers : LockAndResume(t, s, f) \/ reset(t, s, f)

Next == \E t \in Threads :
    getRunningFiber(t) \/ RunReturns(t) \/ \E s \in Stacks : Step(t, s)

Spec == Init /\ [][Next]_vars
----------------------------------------------------------------------------
(* Properties *)

Labels == {"begin", "loop", "client", "resume", "resumed", "fresh", "body", "yield",
           "ended", "exited"}

\* The variables have their types; a thread past its first getRunningFiber() has its
\* three fibers.
TypeOK ==
    /\ on \in [Threads -> Stacks]
    /\ _running_fiber \in [Threads -> Stacks \cup {None}]
    /\ _scheduler_fiber \in [Threads -> Stacks \cup {None}]
    /\ _main_fiber \in [Threads -> Stacks \cup {None}]
    /\ \A t \in Threads : at[t] # "begin" =>
          None \notin {_running_fiber[t], _scheduler_fiber[t], _main_fiber[t]}
    /\ m_state \in [Stacks -> {"READY", "RUNNING", "TERM"}]
    /\ m_mutex \in [Stacks -> Stacks \cup {None}]
    /\ m_ctx \in [Stacks -> Stacks \cup {None}]
    /\ m_yieldToSchedulerFiber \in [Stacks -> BOOLEAN]
    /\ at \in [Stacks -> Labels]
    /\ self \in [Stacks -> Stacks \cup {None}]
    /\ saved \in [Stacks -> Stacks \cup {None}]
    /\ misused \in BOOLEAN /\ broken \in BOOLEAN

\* Every context that is loaded is the last one saved of a stack no thread is on: a
\* fiber never runs on two threads nor goes on from where it has been already, as long
\* as fibers are resumed only from where they yield to and none is reset.
NothingBreaks == ~misused => ~broken

\* getRunningFiber() is the fiber whose code asks, also after the fiber has moved to
\* another thread, under the same condition.
RunningFiberIsOn ==
    ~misused /\ ~broken =>
        \A t \in Threads : at[on[t]] \notin {"begin", "resume"} => _running_fiber[t] = on[t]

\* A yield() goes on in the resume() that resumed this fiber, and a resume() on the
\* fiber's own stack, under the same condition.
SwitchStepLands ==
    ~misused => \A t \in Threads, s \in Stacks :
        /\ SwapOut(t, s) => at[on'[t]] = "resumed" /\ self[on'[t]] = s
        /\ SwapIn(t, s) => on'[t] = self[s]
SwitchesLand == [][SwitchStepLands]_vars

\* The comment at fiber.cpp:106: a fiber made to yield to the scheduler fiber goes on in
\* it, and on a thread of the pool that is run(), also when another fiber resumed it.
YieldStepLands ==
    \A t \in Pool, s \in Stacks :
        SwapOut(t, s) /\ m_yieldToSchedulerFiber[self[s]] /\ on'[t] # s => on'[t] \in Loops
YieldsToScheduler == [][YieldStepLands]_vars

\* fiber.h:37: reset() reuses the stack of the fiber, so that a READY fiber that no
\* thread is on has a context of that stack to be resumed with.
ReusesItsStack ==
    \A f \in Fibers : m_state[f] = "READY" /\ (\A t \in Threads : on[t] # f) => m_ctx[f] = f

\* How the scheduler uses fibers: run() alone resumes them, they were made to yield to
\* it, which is the default, and none is reset.  Their callbacks may yield and end.
OnlyRunResumes ==
    \A t \in Threads, s \in Stacks, f \in Fibers :
        (LockAndResume(t, s, f) => s \in Loops) /\ ~reset(t, s, f)
SchedulerUse ==
    (\A f \in Fibers : m_yieldToSchedulerFiber[f]) /\ [][OnlyRunResumes]_vars
----------------------------------------------------------------------------
(* The invariant the proofs are made with *)

Off(s) == \A u \in Threads : on[u] # s

\* A thread has its three fibers from its first getRunningFiber() on, and a stack that
\* is about to switch knows its fiber, whatever the program does.
Pointers ==
    /\ ~m_yieldToSchedulerFiber[m_schedulerFiber]
    /\ \A t \in Threads :
         /\ at[t] = "begin" => on[t] = t /\ saved[t] = None
         /\ at[t] # "begin" =>
              /\ _main_fiber[t] = t
              /\ _scheduler_fiber[t] = IF t = Root THEN m_schedulerFiber ELSE t
    /\ \A s \in Stacks : at[s] \in {"resume", "yield"} => self[s] # None

\* No two threads are on one stack, and the context of one no thread is on is where
\* resume() and yield() look for it.
Contexts ==
    /\ \A t \in Threads : on[t] \in Threads => on[t] = t
    /\ \A t, u \in Threads : on[t] = on[u] => t = u
    /\ \A t \in Threads : on[t] = m_schedulerFiber => t = Root
    /\ \A s \in Stacks : Off(s) => m_ctx[s] = s /\ saved[s] = s

\* A thread on the stack of a fiber has left its own, and Root that of m_schedulerFiber,
\* in the resume() this fiber's yield() goes back to.
Chain ==
    \A t \in Threads : on[t] # t =>
        /\ Landing(t, on[t]) # on[t]
        /\ at[Landing(t, on[t])] = "resumed" /\ self[Landing(t, on[t])] = on[t]
        /\ Landing(t, on[t]) # t => at[t] = "resumed" /\ self[t] = m_schedulerFiber

\* The code of a stack is in what that stack is for.
Places ==
    /\ \A s \in Pool : at[s] \in {"begin", "loop", "resume", "resumed", "exited"}
    /\ at[Root] \in {"begin", "client", "resume", "resumed", "exited"}
    /\ at[m_schedulerFiber] \in {"fresh", "loop", "resume", "resumed", "yield", "ended", "exited"}
    /\ \A f \in Fibers :
         /\ at[f] \in {"fresh", "body", "yield", "ended", "exited"}
         /\ Off(f) => at[f] \in {"fresh", "body", "ended"}

\* The mutex of a fiber is locked by the stack that is resuming it.
Held ==
    /\ m_state[m_schedulerFiber] = "READY" =>
         Off(m_schedulerFiber) /\ at[m_schedulerFiber] = "fresh"
    /\ \A f \in Fibers :
         IF m_mutex[f] = None THEN m_state[f] # "RUNNING" /\ Off(f)
         ELSE at[m_mutex[f]] \in {"resume", "resumed"} /\ self[m_mutex[f]] = f
    /\ \A s \in Stacks : at[s] \in {"resume", "resumed"} =>
         /\ self[s] \in Fibers => m_mutex[self[s]] = s
         /\ self[s] \notin Fibers => self[s] = m_schedulerFiber /\ s = Root

\* The state of the fiber whose stack a thread is on, or is about to switch to or has
\* switched from.
Doing ==
    \A t \in Threads :
        /\ at[on[t]] = "resume" =>
             /\ Off(self[on[t]]) /\ m_state[self[on[t]]] = "RUNNING"
             /\ _running_fiber[t] = self[on[t]]
             /\ at[self[on[t]]] \in {"fresh", "body", "ended"}
             /\ ComesBack(on[t], self[on[t]])
        /\ at[on[t]] = "resumed" => Off(self[on[t]]) /\ m_state[self[on[t]]] # "RUNNING"
        /\ at[on[t]] \in {"fresh", "body"} => m_state[on[t]] = "RUNNING"
        /\ at[on[t]] = "yield" => self[on[t]] = on[t] /\ m_state[on[t]] # "RUNNING"
        /\ at[on[t]] \notin {"begin", "resume"} => _running_fiber[t] = on[t]

Tidy == ~broken /\ Contexts /\ Chain /\ Places /\ Held /\ Doing

IndInv == TypeOK /\ Pointers /\ (~misused => Tidy)
=============================================================================
