----------------------------- MODULE Scheduler -----------------------------
(***************************************************************************)
(* sylar::Scheduler (src/src/scheduler) with the parts of sylar::Fiber and *)
(* sylar::Thread it drives: worker threads that serve the task queue in    *)
(* run(), the fibers they resume under Fiber::m_mutex, the idle fiber of   *)
(* each worker, and one client that constructs the scheduler on thread     *)
(* Root, calls start() and stop() once each and then destroys it.  Tasks   *)
(* are scheduled by the fibers and, at any time, by threads outside the    *)
(* pool.                                                                   *)
(*                                                                         *)
(* A callback task is represented by the fiber run() makes for it: a new   *)
(* fiber is READY and its m_mutex is free, so both branches of run() do    *)
(* the same to it.  tickle() does nothing in this class.                   *)
(***************************************************************************)
EXTENDS Naturals, SequencesExt, FiniteSets

CONSTANTS
    Pool,       \* the threads start() creates; m_threadCnt is their number
    Root,       \* the thread the scheduler is constructed on
    Fibers,     \* the fibers of the tasks
    NoFiber,    \* a null std::shared_ptr<Fiber>
    NoThread,   \* the owner of an unlocked Fiber::m_mutex
    AnyThread,  \* -1, the target of a task that any thread may run
    MaxCalls    \* bound on the number of scheduleLock() calls (see SchedulerTraffic.tla)

Threads == Pool \cup {Root}
Targets == Threads \cup {AnyThread}

ASSUME SchedulerAssumption ==
    /\ IsFiniteSet(Pool)
    /\ Root \notin Pool
    /\ AnyThread \notin Threads
    /\ NoFiber \notin Fibers
    /\ NoThread \notin Threads
    /\ MaxCalls \in Nat

VARIABLES
    \* the Scheduler object
    m_useCallerThread,
    m_stopping,
    m_tasks,            \* entries [id, thread, fiber]; id numbers the calls
    capacity,           \* capacity() of the m_tasks vector
    m_activeThreadCnt,
    m_idleThreadCnt,
    broken,             \* a Thread could not be created: null entries in m_pool
    \* the client on thread Root
    rootPc,
    \* the threads in run()
    pc,
    stale,              \* the threads whose local `it` points into a freed buffer
    task,               \* the local `task`
    idleState,          \* m_state of the thread's idle fiber
    \* the fibers of the tasks
    m_state,            \* Fiber::m_state
    owner,              \* the thread that holds Fiber::m_mutex
    \* history
    calls,              \* number of scheduleLock() calls so far
    retired,            \* ids of the tasks run() has finished with
    late,               \* a thread outside the pool scheduled after m_stopping was set
    aborted             \* why the process died; "no" while it lives

objVars == <<m_useCallerThread, m_stopping, broken>>
queueVars == <<m_tasks, capacity, stale, calls>>
counters == <<m_activeThreadCnt, m_idleThreadCnt>>
fiberVars == <<m_state, owner>>
vars == <<m_useCallerThread, m_stopping, m_tasks, capacity, m_activeThreadCnt,
          m_idleThreadCnt, broken, rootPc, pc, stale, task, idleState,
          m_state, owner, calls, retired, late, aborted>>

FiberStates == {"READY", "RUNNING", "TERM"}

\* ScheduleTask::reset(): what `task` holds when run() has nothing to do.
NoTask == [id |-> 0, thread |-> AnyThread, fiber |-> NoFiber]

\* The labels of run() between `m_activeThreadCnt++` and `m_activeThreadCnt--`,
\* those at which the thread is on the stack of the fiber in `task`, and those
\* between `m_idleThreadCnt++` and `m_idleThreadCnt--`.
ActiveLabels == {"lock", "body", "switch", "retire"}
StackLabels == {"body", "switch"}
IdleLabels == {"idling", "idled"}
Labels == {"off", "born", "begin", "scan", "idle", "exited"}
              \cup ActiveLabels \cup IdleLabels

Active == {t \in Threads : pc[t] \in ActiveLabels}
Idle == {t \in Threads : pc[t] \in IdleLabels}

Alive == aborted = "no"
Abort(why) == aborted' = why

At(t, label) == Alive /\ pc[t] = label
Goto(t, label) == pc' = [pc EXCEPT ![t] = label]

\* start() holds m_mutex from its first line to its last.
QueueLocked == rootPc \in {"spawn", "wait"}

\* Mutants of Stopping: tasks being run are forgotten; idle threads, of which the
\* caller is one, are waited for.
Stopping_ForgetsActive == m_stopping /\ m_tasks = <<>>
Stopping_AwaitsIdle == m_stopping /\ m_tasks = <<>> /\ m_idleThreadCnt = 0

\* bool Scheduler::stopping(), evaluated under m_mutex.
Stopping == m_stopping /\ m_tasks = <<>> /\ m_activeThreadCnt = 0
----------------------------------------------------------------------------
Init ==
    /\ m_useCallerThread \in (IF Pool = {} THEN {TRUE} ELSE BOOLEAN)
    /\ m_stopping = FALSE
    /\ m_tasks = <<>>
    /\ capacity = 0
    /\ m_activeThreadCnt = 0
    /\ m_idleThreadCnt = 0
    /\ broken = FALSE
    /\ rootPc = "new"
    /\ pc = [t \in Threads |-> "off"]
    /\ stale = {}
    /\ task = [t \in Threads |-> NoTask]
    /\ idleState = [t \in Threads |-> "READY"]
    /\ m_state = [f \in Fibers |-> "READY"]
    /\ owner = [f \in Fibers |-> NoThread]
    /\ calls = 0
    /\ retired = {}
    /\ late = FALSE
    /\ aborted = "no"
----------------------------------------------------------------------------
(* scheduleLock() *)

\* Mutant of PushBack: the queue is a stack.
PushBack_InFront(fiber, target) ==
    /\ m_tasks' = <<[id |-> calls + 1, thread |-> target, fiber |-> fiber]>> \o m_tasks
    /\ calls' = calls + 1
    /\ UNCHANGED <<capacity, stale>>

\* m_tasks.push_back(): a full vector moves to a buffer of twice the size,
\* and every iterator into the old buffer dangles.
PushBack(fiber, target) ==
    /\ m_tasks' = Append(m_tasks, [id |-> calls + 1, thread |-> target, fiber |-> fiber])
    /\ calls' = calls + 1
    /\ IF Len(m_tasks) < capacity
         THEN UNCHANGED <<capacity, stale>>
         ELSE /\ capacity' = IF capacity = 0 THEN 1 ELSE 2 * capacity
              /\ stale' = {t \in Threads : pc[t] = "scan"}

\* The whole of scheduleLock(): m_stopping is not looked at.
ScheduleLock(fiber, target) ==
    /\ Alive
    /\ ~QueueLocked
    /\ calls < MaxCalls
    /\ PushBack(fiber, target)
    /\ UNCHANGED <<objVars, counters, rootPc, pc, task, idleState, fiberVars,
                   retired, aborted>>

\* A thread that is not running a task of this scheduler.
OutsideSchedule(fiber, target) ==
    /\ rootPc # "destroyed"
    /\ ScheduleLock(fiber, target)
    /\ late' = (late \/ m_stopping)

\* A task schedules a fiber, possibly the one it runs in.
BodySchedule(t, fiber, target) ==
    /\ pc[t] = "body"
    /\ ScheduleLock(fiber, target)
    /\ UNCHANGED late
----------------------------------------------------------------------------
(* start(), stop() and ~Scheduler(), called by the client *)

StartLock ==
    /\ Alive /\ rootPc = "new"
    /\ rootPc' = "spawn"
    /\ UNCHANGED <<objVars, queueVars, counters, pc, task, idleState, fiberVars,
                   retired, late, aborted>>

\* pthread_create() succeeds and the Thread constructor waits on _semaphore.
Spawn(w) ==
    /\ At(w, "off") /\ rootPc = "spawn"
    /\ rootPc' = "wait"
    /\ Goto(w, "born")
    /\ UNCHANGED <<objVars, queueVars, counters, task, idleState, fiberVars,
                   retired, late, aborted>>

\* pthread_create() fails: the constructor throws out of start(), which leaves
\* the entries from this one on null.  The client goes on without the threads.
SpawnFails(w) ==
    /\ At(w, "off") /\ rootPc = "spawn"
    /\ broken' = TRUE
    /\ rootPc' = "up"
    /\ UNCHANGED <<m_useCallerThread, m_stopping, queueVars, counters, pc, task,
                   idleState, fiberVars, retired, late, aborted>>

\* Thread::run() signals _semaphore before it calls Scheduler::run().
ThreadRun(w) ==
    /\ At(w, "born")
    /\ Goto(w, "begin")
    /\ UNCHANGED <<objVars, queueVars, counters, rootPc, task, idleState, fiberVars,
                   retired, late, aborted>>

\* Mutant of SpawnReturn: the semaphore is signalled after the callback.
SpawnReturn_AfterRun ==
    /\ Alive /\ rootPc = "wait"
    /\ \A w \in Pool : pc[w] \in {"off", "exited"}
    /\ rootPc' = "spawn"
    /\ UNCHANGED <<objVars, queueVars, counters, pc, task, idleState, fiberVars,
                   retired, late, aborted>>

SpawnReturn ==
    /\ Alive /\ rootPc = "wait"
    /\ \A w \in Pool : pc[w] # "born"
    /\ rootPc' = "spawn"
    /\ UNCHANGED <<objVars, queueVars, counters, pc, task, idleState, fiberVars,
                   retired, late, aborted>>

StartReturn ==
    /\ Alive /\ rootPc = "spawn"
    /\ \A w \in Pool : pc[w] # "off"
    /\ rootPc' = "up"
    /\ UNCHANGED <<objVars, queueVars, counters, pc, task, idleState, fiberVars,
                   retired, late, aborted>>

\* stop() up to the resume of m_schedulerFiber.  With m_useCallerThread it is
\* called on Root, which enters run().
StopOnCaller ==
    /\ Alive /\ rootPc = "up" /\ m_useCallerThread
    /\ m_stopping' = TRUE
    /\ rootPc' = "resumed"
    /\ Goto(Root, "begin")
    /\ UNCHANGED <<m_useCallerThread, broken, queueVars, counters, task, idleState,
                   fiberVars, retired, late, aborted>>

\* Without it, the thread that calls stop() must not be one the scheduler is the
\* running one of, and the constructor made it that of Root all the same.
StopOnRoot ==
    /\ Alive /\ rootPc = "up" /\ ~m_useCallerThread
    /\ m_stopping' = TRUE
    /\ Abort("tls")
    /\ UNCHANGED <<m_useCallerThread, broken, queueVars, counters, rootPc, pc, task,
                   idleState, fiberVars, retired, late>>

StopOnOther ==
    /\ Alive /\ rootPc = "up" /\ ~m_useCallerThread
    /\ m_stopping' = TRUE
    /\ rootPc' = "join"
    /\ UNCHANGED <<m_useCallerThread, broken, queueVars, counters, pc, task, idleState,
                   fiberVars, retired, late, aborted>>

ResumeReturns ==
    /\ At(Root, "exited") /\ rootPc = "resumed"
    /\ rootPc' = "join"
    /\ UNCHANGED <<objVars, queueVars, counters, pc, task, idleState, fiberVars,
                   retired, late, aborted>>

\* Mutant of Join: the threads are detached.
Join_Detached ==
    /\ Alive /\ rootPc = "join"
    /\ rootPc' = "stopped"
    /\ UNCHANGED <<objVars, queueVars, counters, pc, task, idleState, fiberVars,
                   retired, late, aborted>>

\* The joins at the end of stop(): the null entries come after the threads.
Join ==
    /\ Alive /\ rootPc = "join"
    /\ \A w \in Pool : pc[w] \in {"off", "exited"}
    /\ IF broken THEN Abort("null") /\ UNCHANGED rootPc
                 ELSE rootPc' = "stopped" /\ UNCHANGED aborted
    /\ UNCHANGED <<objVars, queueVars, counters, pc, task, idleState, fiberVars,
                   retired, late>>

\* A second stop() resumes m_schedulerFiber, which is TERM by now, unless
\* stopping() says that there is nothing to stop.
StopAgain ==
    /\ Alive /\ rootPc = "stopped" /\ m_useCallerThread
    /\ ~Stopping
    /\ Abort("assert")
    /\ UNCHANGED <<objVars, queueVars, counters, rootPc, pc, task, idleState, fiberVars,
                   retired, late>>

Destroy ==
    /\ Alive /\ rootPc = "stopped"
    /\ IF Stopping THEN rootPc' = "destroyed" /\ UNCHANGED aborted
                   ELSE Abort("assert") /\ UNCHANGED rootPc
    /\ UNCHANGED <<objVars, queueVars, counters, pc, task, idleState, fiberVars,
                   retired, late>>
----------------------------------------------------------------------------
(* One round of the loop in run() *)

\* `it = m_tasks.begin()`, before m_mutex is taken.
ReadBegin(t) ==
    /\ At(t, "begin")
    /\ Goto(t, "scan")
    /\ UNCHANGED <<objVars, queueVars, counters, rootPc, task, idleState, fiberVars,
                   retired, late, aborted>>

MayRun(t, entry) == entry.thread \in {AnyThread, t}

\* Mutants of FirstFor: any entry will do; the scan gives up at the first entry.
FirstFor_AnyEntry(t, i) == MayRun(t, m_tasks[i])
FirstFor_HeadOnly(t, i) == i = 1 /\ MayRun(t, m_tasks[i])

\* The first entry that t may run is i.
FirstFor(t, i) ==
    /\ MayRun(t, m_tasks[i])
    /\ \A j \in 1..(i - 1) : ~MayRun(t, m_tasks[j])

\* Mutant of ScanTakes: the entry is copied and left in the queue.
ScanTakes_NoErase(t, i) ==
    /\ At(t, "scan") /\ ~QueueLocked
    /\ t \notin stale
    /\ FirstFor(t, i)
    /\ task' = [task EXCEPT ![t] = m_tasks[i]]
    /\ m_activeThreadCnt' = m_activeThreadCnt + 1
    /\ Goto(t, "lock")
    /\ UNCHANGED <<objVars, queueVars, m_idleThreadCnt, rootPc, idleState,
                   fiberVars, retired, late, aborted>>

\* Under m_mutex, with a good iterator: take the first entry this thread may run.
ScanTakes(t, i) ==
    /\ At(t, "scan") /\ ~QueueLocked
    /\ t \notin stale
    /\ FirstFor(t, i)
    /\ task' = [task EXCEPT ![t] = m_tasks[i]]
    /\ m_tasks' = RemoveAt(m_tasks, i)
    /\ m_activeThreadCnt' = m_activeThreadCnt + 1
    /\ Goto(t, "lock")
    /\ UNCHANGED <<objVars, capacity, stale, calls, m_idleThreadCnt, rootPc, idleState,
                   fiberVars, retired, late, aborted>>

\* No entry is for this thread, or the dangling iterator meets end() by chance.
ScanFindsNothing(t) ==
    /\ At(t, "scan") /\ ~QueueLocked
    /\ t \in stale \/ \A i \in DOMAIN m_tasks : ~MayRun(t, m_tasks[i])
    /\ stale' = stale \ {t}
    /\ Goto(t, "idle")
    /\ UNCHANGED <<objVars, m_tasks, capacity, calls, counters, rootPc, task, idleState,
                   fiberVars, retired, late, aborted>>

\* The other outcome of following a dangling iterator: a fault, or the assertion
\* on an entry that was moved from.
ScanFaults(t) ==
    /\ At(t, "scan") /\ ~QueueLocked
    /\ t \in stale
    /\ Abort("stale")
    /\ UNCHANGED <<objVars, queueVars, counters, rootPc, pc, task, idleState, fiberVars,
                   retired, late>>

\* Mutants of Resume: m_mutex is released before the fiber runs; TERM is not
\* looked for.
Resume_Unlocked(t) ==
    LET f == task[t].fiber IN
    /\ At(t, "lock")
    /\ owner[f] = NoThread
    /\ m_state[f] = "READY"
    /\ m_state' = [m_state EXCEPT ![f] = "RUNNING"]
    /\ Goto(t, "body")
    /\ UNCHANGED <<objVars, queueVars, counters, rootPc, task, idleState, owner,
                   retired, late, aborted>>

Resume_AnyState(t) ==
    LET f == task[t].fiber IN
    /\ At(t, "lock")
    /\ owner[f] = NoThread
    /\ IF m_state[f] = "READY"
         THEN /\ m_state' = [m_state EXCEPT ![f] = "RUNNING"]
              /\ owner' = [owner EXCEPT ![f] = t]
              /\ Goto(t, "body")
              /\ UNCHANGED aborted
         ELSE /\ Abort("assert")
              /\ UNCHANGED <<pc, fiberVars>>
    /\ UNCHANGED <<objVars, queueVars, counters, rootPc, task, idleState, retired, late>>

\* Fiber::m_mutex is locked and the fiber is not TERM: resume(), which asserts READY.
Resume(t) ==
    LET f == task[t].fiber IN
    /\ At(t, "lock")
    /\ owner[f] = NoThread
    /\ m_state[f] # "TERM"
    /\ IF m_state[f] = "READY"
         THEN /\ m_state' = [m_state EXCEPT ![f] = "RUNNING"]
              /\ owner' = [owner EXCEPT ![f] = t]
              /\ Goto(t, "body")
              /\ UNCHANGED aborted
         ELSE /\ Abort("assert")
              /\ UNCHANGED <<pc, fiberVars>>
    /\ UNCHANGED <<objVars, queueVars, counters, rootPc, task, idleState, retired, late>>

\* The fiber terminated since it was scheduled: nothing is run.
SkipDone(t) ==
    /\ At(t, "lock")
    /\ owner[task[t].fiber] = NoThread
    /\ m_state[task[t].fiber] = "TERM"
    /\ Goto(t, "retire")
    /\ UNCHANGED <<objVars, queueVars, counters, rootPc, task, idleState, fiberVars,
                   retired, late, aborted>>

\* The task calls yield(), or returns to MainFunc(), which ends in yield().  The
\* state is set first; the thread leaves the fiber's stack in SwapOut.
LeaveBody(t, state) ==
    /\ At(t, "body")
    /\ m_state' = [m_state EXCEPT ![task[t].fiber] = state]
    /\ Goto(t, "switch")
    /\ UNCHANGED <<objVars, queueVars, counters, rootPc, task, idleState, owner,
                   retired, late, aborted>>

Yield(t) == LeaveBody(t, "READY")
MainFuncEnds(t) == LeaveBody(t, "TERM")

\* Mutant of SwapOut: the unlock is forgotten.
SwapOut_KeepsLock(t) ==
    /\ At(t, "switch")
    /\ Goto(t, "retire")
    /\ UNCHANGED <<objVars, queueVars, counters, rootPc, task, idleState, fiberVars,
                   retired, late, aborted>>

\* swapcontext() back into run(), and the unlock of Fiber::m_mutex.
SwapOut(t) ==
    /\ At(t, "switch")
    /\ owner' = [owner EXCEPT ![task[t].fiber] = NoThread]
    /\ Goto(t, "retire")
    /\ UNCHANGED <<objVars, queueVars, counters, rootPc, task, idleState, m_state,
                   retired, late, aborted>>

\* Mutant of Retire: the decrement is forgotten.
Retire_NoDecrement(t) ==
    /\ At(t, "retire")
    /\ task' = [task EXCEPT ![t] = NoTask]
    /\ retired' = retired \cup {task[t].id}
    /\ Goto(t, "begin")
    /\ UNCHANGED <<objVars, queueVars, counters, rootPc, idleState, fiberVars,
                   late, aborted>>

Retire(t) ==
    /\ At(t, "retire")
    /\ m_activeThreadCnt' = m_activeThreadCnt - 1
    /\ task' = [task EXCEPT ![t] = NoTask]
    /\ retired' = retired \cup {task[t].id}
    /\ Goto(t, "begin")
    /\ UNCHANGED <<objVars, queueVars, m_idleThreadCnt, rootPc, idleState, fiberVars,
                   late, aborted>>

\* The idle fiber is resumed, unless it has returned.
IdleResume(t) ==
    /\ At(t, "idle") /\ idleState[t] # "TERM"
    /\ m_idleThreadCnt' = m_idleThreadCnt + 1
    /\ idleState' = [idleState EXCEPT ![t] = "RUNNING"]
    /\ Goto(t, "idling")
    /\ UNCHANGED <<objVars, queueVars, m_activeThreadCnt, rootPc, task, fiberVars,
                   retired, late, aborted>>

RunReturns(t) ==
    /\ At(t, "idle") /\ idleState[t] = "TERM"
    /\ Goto(t, "exited")
    /\ UNCHANGED <<objVars, queueVars, counters, rootPc, task, idleState, fiberVars,
                   retired, late, aborted>>

\* idle() asks stopping() under m_mutex: it returns for good, or sleeps and yields.
IdleStops(t) ==
    /\ At(t, "idling") /\ ~QueueLocked
    /\ Stopping
    /\ idleState' = [idleState EXCEPT ![t] = "TERM"]
    /\ Goto(t, "idled")
    /\ UNCHANGED <<objVars, queueVars, counters, rootPc, task, fiberVars,
                   retired, late, aborted>>

IdleSleeps(t) ==
    /\ At(t, "idling") /\ ~QueueLocked
    /\ ~Stopping
    /\ idleState' = [idleState EXCEPT ![t] = "READY"]
    /\ Goto(t, "idled")
    /\ UNCHANGED <<objVars, queueVars, counters, rootPc, task, fiberVars,
                   retired, late, aborted>>

\* Mutant of IdleReturns: the wrong counter is decremented.
IdleReturns_ActiveCnt(t) ==
    /\ At(t, "idled")
    /\ m_activeThreadCnt' = m_activeThreadCnt - 1
    /\ Goto(t, "begin")
    /\ UNCHANGED <<objVars, queueVars, m_idleThreadCnt, rootPc, task, idleState,
                   fiberVars, retired, late, aborted>>

IdleReturns(t) ==
    /\ At(t, "idled")
    /\ m_idleThreadCnt' = m_idleThreadCnt - 1
    /\ Goto(t, "begin")
    /\ UNCHANGED <<objVars, queueVars, m_activeThreadCnt, rootPc, task, idleState,
                   fiberVars, retired, late, aborted>>
----------------------------------------------------------------------------
\* The steps a thread in run() takes without a choice of the client's.
RunStep(t) ==
    \/ ReadBegin(t)
    \/ \E i \in DOMAIN m_tasks : ScanTakes(t, i)
    \/ ScanFindsNothing(t)
    \/ ScanFaults(t)
    \/ Resume(t)
    \/ SkipDone(t)
    \/ Yield(t)
    \/ MainFuncEnds(t)
    \/ SwapOut(t)
    \/ Retire(t)
    \/ IdleResume(t)
    \/ RunReturns(t)
    \/ IdleStops(t)
    \/ IdleSleeps(t)
    \/ IdleReturns(t)

Schedule ==
    \E f \in Fibers, target \in Targets :
        \/ OutsideSchedule(f, target)
        \/ \E t \in Threads : BodySchedule(t, f, target)

\* The steps of start() and stop() once they were called.
CallStep ==
    \/ \E w \in Pool : Spawn(w) \/ ThreadRun(w)
    \/ SpawnReturn
    \/ StartReturn
    \/ ResumeReturns
    \/ Join

Client ==
    \/ StartLock
    \/ \E w \in Pool : SpawnFails(w)
    \/ StopOnCaller
    \/ StopOnRoot
    \/ StopOnOther
    \/ StopAgain
    \/ Destroy

\* The process is gone, or the scheduler is.
Over ==
    /\ ~Alive \/ rootPc = "destroyed"
    /\ UNCHANGED vars

Next ==
    \/ \E t \in Threads : RunStep(t)
    \/ Schedule
    \/ CallStep
    \/ Client
    \/ Over

\* Every thread that can go on does so eventually: the operating system
\* schedules the threads, and tasks return or yield.  Nothing makes the client
\* call start() or stop(), or anybody schedule a task.
Fairness ==
    /\ \A t \in Threads : WF_vars(RunStep(t))
    /\ WF_vars(CallStep)

Spec == Init /\ [][Next]_vars
----------------------------------------------------------------------------
(* Safety *)

TaskEntries == [id : Nat \ {0}, thread : Targets, fiber : Fibers]

\* Every variable has its type, and the locals of run() fit the place the thread
\* is at: `task` is empty outside the active part, only a thread about to scan
\* can hold a dangling iterator, and a fiber's state fits what is done with it.
TypeOK ==
    /\ m_useCallerThread \in BOOLEAN
    /\ m_stopping \in BOOLEAN
    /\ broken \in BOOLEAN
    /\ late \in BOOLEAN
    /\ m_tasks \in Seq(TaskEntries)
    /\ capacity \in Nat
    /\ m_activeThreadCnt \in Nat
    /\ m_idleThreadCnt \in Nat
    /\ rootPc \in {"new", "spawn", "wait", "up", "resumed", "join", "stopped", "destroyed"}
    /\ pc \in [Threads -> Labels]
    /\ stale \subseteq Threads
    /\ task \in [Threads -> TaskEntries \cup {NoTask}]
    /\ idleState \in [Threads -> FiberStates]
    /\ m_state \in [Fibers -> FiberStates]
    /\ owner \in [Fibers -> Threads \cup {NoThread}]
    /\ calls \in 0..MaxCalls
    /\ retired \subseteq Nat \ {0}
    /\ aborted \in {"no", "stale", "assert", "tls", "null"}

\* m_activeThreadCnt and m_idleThreadCnt, which run() changes outside m_mutex and
\* with several steps between the two ends, count the threads that run a task
\* and those in their idle fiber: neither ever misses one or wraps below zero.
CountersExact ==
    /\ m_activeThreadCnt = Cardinality(Active)
    /\ m_idleThreadCnt = Cardinality(Idle)

OnStack(t) == IF pc[t] \in StackLabels THEN task[t].fiber ELSE NoFiber

\* Two threads are never on the stack of one fiber.  A fiber can be in the queue
\* several times, and yield() declares it READY before its thread has left the
\* stack, so that nothing but Fiber::m_mutex keeps a second thread off it.
FiberExclusive ==
    \A t, u \in Threads : OnStack(t) = OnStack(u) /\ OnStack(t) # NoFiber => t = u

QueuedIds == {m_tasks[i].id : i \in DOMAIN m_tasks}
IdsInHand == {task[t].id : t \in Threads} \ {0}

\* A task that was accepted is in the queue, in the hands of one thread, or was
\* given back by run(): it is in one of the three places, and there once.
ExactlyOnce ==
    /\ QueuedIds \cup IdsInHand \cup retired = 1..calls
    /\ QueuedIds \cap IdsInHand = {}
    /\ QueuedIds \cap retired = {}
    /\ IdsInHand \cap retired = {}
    /\ \A i, j \in DOMAIN m_tasks : m_tasks[i].id = m_tasks[j].id => i = j
    /\ \A t, u \in Threads : task[t].id = task[u].id /\ task[t].id # 0 => t = u

\* A worker's idle fiber returns, after which the worker serves the queue no
\* more, only when nothing is queued and no task is run that could schedule
\* another.  This stays so, unless an outside thread schedules after stop().
DrainedAtExit ==
    (\E t \in Threads : idleState[t] = "TERM") /\ ~late =>
        m_stopping /\ m_tasks = <<>> /\ m_activeThreadCnt = 0

\* When stop() has returned, every task accepted before it, and every task those
\* scheduled in turn, has been run.
StopLosesNothing ==
    rootPc \in {"stopped", "destroyed"} /\ ~late => retired = 1..calls

\* The assertions of Fiber::resume() and ~Scheduler() hold: no fiber is resumed
\* that is not READY, although the same fiber may be queued several times and
\* stop() may be called twice, as long as no outside thread schedules after stop().
AssertsHold == aborted = "assert" => late

\* The waits of start(), stop() and run() form no circle.  A held Fiber::m_mutex
\* belongs to a thread on that fiber's stack, which unlocks it when the task yields;
\* the one lock it can meet before that is m_mutex, for a scheduleLock(), and while
\* start() keeps m_mutex no thread has come past its first attempt to take it.
NoCircularWait ==
    /\ \A f \in Fibers : owner[f] # NoThread =>
           pc[owner[f]] \in StackLabels /\ task[owner[f]].fiber = f
    /\ QueueLocked => \A t \in Threads : pc[t] \in {"off", "born", "begin", "scan"}

\* A task is never taken while an earlier one is queued that the taker of the
\* later one could have taken as well: one for any thread, or for the same thread.
NoOvertaking ==
    [][\A i, j \in DOMAIN m_tasks :
          /\ i < j
          /\ m_tasks[i].thread \in {AnyThread, m_tasks[j].thread}
          /\ m_tasks[i].id \in QueuedIds'
          => m_tasks[j].id \in QueuedIds']_vars
----------------------------------------------------------------------------
(* The inductive invariant behind the safety properties (SchedulerProofs.tla) *)

\* run() holds a task exactly between the two ends of the active part, and
\* stop() is the first to enter it on Root.
TaskFits ==
    /\ \A t \in Threads : pc[t] \in ActiveLabels <=> task[t] # NoTask
    /\ rootPc \in {"new", "spawn", "wait", "up"} => pc[Root] = "off"

\* A thread on a fiber's stack owns the fiber's m_mutex, and a fiber that is
\* RUNNING has an owner that has not begun to leave it.
FibersFit ==
    /\ \A t \in Threads : pc[t] \in StackLabels => owner[task[t].fiber] = t
    /\ \A t \in Threads : pc[t] = "switch" => m_state[task[t].fiber] # "RUNNING"
    /\ \A f \in Fibers : m_state[f] = "RUNNING" => owner[f] # NoThread

\* The client's position tells which threads exist and which have left run(), and
\* an idle fiber's state fits its thread's position.
ClientFits ==
    /\ Pool = {} => m_useCallerThread
    /\ \A t \in Threads : pc[t] = "exited" => idleState[t] = "TERM"
    /\ \A t \in Threads : pc[t] = "idling" => idleState[t] = "RUNNING"
    /\ rootPc \in {"join", "stopped", "destroyed"} /\ m_useCallerThread =>
           pc[Root] = "exited"
    /\ rootPc = "new" => \A w \in Pool : pc[w] = "off"
    /\ rootPc \in {"up", "resumed", "join"} /\ ~broken =>
           \A w \in Pool : pc[w] # "off"
    /\ rootPc \in {"stopped", "destroyed"} => \A w \in Pool : pc[w] = "exited"

\* Together: each safety property above follows from this, and every step keeps it.
IndInv ==
    /\ TypeOK
    /\ TaskFits
    /\ CountersExact
    /\ FibersFit
    /\ ExactlyOnce
    /\ DrainedAtExit
    /\ ClientFits
    /\ AssertsHold
----------------------------------------------------------------------------
(* What documentation says and the code does not do *)

\* m_mutex protects the tasks: no thread follows an iterator that another
\* thread's push_back() has invalidated.
QueueProtected == aborted # "stale"

\* stop() prevents new tasks from being accepted: none is left when it returns.
NoneLeftBehind == rootPc = "stopped" => m_tasks = <<>>

\* Without use_caller the constructing thread only manages the scheduler: it can
\* call stop() like any other.
ManagerCanStop == aborted # "tls"
----------------------------------------------------------------------------
(* Liveness; what needs traffic that may not end is in SchedulerTraffic.tla *)

\* start() waits for every new thread's semaphore with m_mutex held, and the
\* threads need m_mutex to go on: they do not wait for each other.
StartReturns == rootPc = "spawn" ~> ~QueueLocked \/ ~Alive
----------------------------------------------------------------------------
(* The scheduler implements TaskPool *)

Pending ==
    [i \in DOMAIN m_tasks |-> [id |-> m_tasks[i].id, thread |-> m_tasks[i].thread]]
Running == [t \in Threads |-> task[t].id]
Drained == \E t \in Threads : idleState[t] = "TERM"
Left == {t \in Threads : pc[t] = "exited"}

TP == INSTANCE TaskPool WITH
    submitted <- calls, pending <- Pending, running <- Running, done <- retired,
    stopRequested <- m_stopping, drained <- Drained, left <- Left

\* Every step of the scheduler is a step of TaskPool or leaves it unchanged.
ImplementsTaskPool == TP!Spec
----------------------------------------------------------------------------
(* The scheduler keeps to ThreadLife *)

PoolStage(w) ==
    CASE pc[w] = "off" -> "none"
      [] pc[w] = "born" -> "starting"
      [] pc[w] = "exited" -> "ended"
      [] OTHER -> "running"

PoolHandle(w) ==
    IF pc[w] = "off" THEN "none"
    ELSE IF rootPc \in {"stopped", "destroyed"} THEN "joined" ELSE "owned"

PoolStages == [w \in Pool |-> PoolStage(w)]
PoolHandles == [w \in Pool |-> PoolHandle(w)]

TL == INSTANCE ThreadLife WITH
    Kids <- Pool, stage <- PoolStages, handle <- PoolHandles,
    constructing <- rootPc = "wait"

\* start() and stop() do with the threads of the pool no more than a Thread allows, and
\* expect no more of it than Thread.tla is shown to give: one construction at a time,
\* no return from it before the thread is up, a join of threads that have ended.
KeepsToThreadLife == TL!Spec
=============================================================================
