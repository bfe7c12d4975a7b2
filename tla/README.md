# coroutine_library in TLA+

Models of `coroutine_library` (namespace `sylar`): the fiber scheduler, the context
switch under it, its threads and semaphores, and the hooked system calls above it.
They are checked with TLC, and their invariants and refinements are proved with
TLAPS for every number of threads, fibers, descriptors and calls.

## The system

| Part | Source | State | Operations | Talks to |
|---|---|---|---|---|
| Scheduler | `scheduler/` | `m_tasks` under `m_mutex`, two atomic counters, `m_stopping`, `m_pool`, `m_schedulerFiber` | constructor, `start`, `scheduleLock`, `run`, `idle`, `stopping`, `stop`, destructor | creates Threads; resumes Fibers from `run()` |
| Fiber | `fiber/` | `m_state`, `m_mutex`, `m_ctx`, three thread-local pointers | `resume`, `yield`, `MainFunc`, `getRunningFiber`, `reset` | resumed by the scheduler under `m_mutex`; yields back to it |
| Thread | `thread/thread.*` | `_thread`, `_id`, `_callback`, `_name`, `_semaphore`; two thread-local variables of the child | constructor (waits for the thread to have begun), `run`, `join`, destructor, `setRunningThreadName` | runs `Scheduler::run()` |
| Semaphore | `thread/semaphore.*` | a count under a mutex with a condition variable | `wait`, `signal` | Thread |
| Socket hooks | `hook/hook.cpp:75-155, 219-347` | `timer_info`, a timer, a registered event for each waiting call | `do_io`, `connect_with_timeout`, `close` | IOManager, timers; yields the calling Fiber |
| Sleep hooks | `hook.cpp:166-205` | a timer | `sleep`, `usleep`, `nanosleep` | timers; `scheduleLock` |
| Descriptor hooks | `hook.cpp:207-217, 286-292, 334-491` | `FdCtx` flags and timeouts | `socket`, `accept`, `close`, `fcntl`, `ioctl`, `setsockopt` | FdManager, the kernel's flags |
| Timers | `timer/timer.h` (`timer.cpp` is empty) | declared only | `addTimer`, `addConditionTimer`, `cancel` | the hooks |
| IOManager, FdManager | included as `ioscheduler.h` and `fd_manager.h`, not in the repository | | `addEvent`, `cancelEvent`, `cancelAll`, `get`, `del` | the hooks |

`hook.cpp:494-830` is a second copy of lines 159-492, and lines 159-492 are what
the models follow.

What is hard here: worker threads scan one queue while fibers and outside threads
push to it; the counters on which shutdown depends change outside the mutex; a
fiber can be queued several times and is declared READY before its thread has left
its stack; `start()` sleeps with the mutex held; `stop()` must drain a queue that
running tasks still fill; and a socket call is woken by an event, by a timer's
callback or by `close()`, each on a thread of its own and possibly too late or too
early. `PROJECT.json` lists these hazards line by line.

Each part is correct if:

- Scheduler: every accepted task is run exactly once, in queue order among those a
  thread may run; a worker leaves only when the pool is drained; `start()` returns, and
  `stop()` once the tasks stop scheduling tasks; the counters are exact; no assertion fails.
- Fiber: at most one thread is on its stack, it is resumed only when READY, and a
  `yield()` goes on in the `resume()` it belongs to.
- Thread and Semaphore: the constructor returns when the thread runs and has let go
  of the object, a handle is joined or detached once, and no signal is lost.
- Socket hooks: a call is woken once for each time it yields, only by what concerns
  it, and not left asleep when its event or its timeout has come.
- Descriptor hooks: the program sees the mode it asked for last, and a hooked call never blocks
  its thread. Sleep hooks: a fiber is rescheduled once, after the time asked for.

## The modules

| Module | What it is |
|---|---|
| `TaskPool` | What the scheduler promises: submit, take, finish, drain, leave |
| `Scheduler` | Scheduler with the Fiber, Thread and Semaphore code it drives; implements `TaskPool` and keeps to `ThreadLife` |
| `SchedulerTraffic` | `Scheduler` with tasks that may schedule tasks for ever, and its liveness |
| `MCScheduler` | The symmetry set of the safety run |
| `SchedulerProofs` | Theorems about `Scheduler` |
| `FiberSwitch` | `resume()` and `yield()` with the saved contexts and the thread-local pointers |
| `FiberSwitchProofs` | Theorems about `FiberSwitch` |
| `CountingSemaphore` | What a semaphore promises: a count, `P` and `V` |
| `Semaphore` | `wait()` and `signal()` over a mutex and a condition variable; implements `CountingSemaphore` |
| `SemaphoreProofs` | Theorems about `Semaphore` |
| `ThreadLife` | What a Thread promises: start, come up, end, join or detach |
| `Thread` | Thread objects, the client that makes them and their children; uses `Semaphore` step by step; implements `ThreadLife` |
| `ThreadProofs` | Theorems about `Thread` |
| `BlockingCall` | The calls that block: what each may return, and for which reason |
| `IoWait` | `do_io()`, `connect_with_timeout()` and the sleeps with timers, events, `close()` and the peer; implements `BlockingCall` but for two steps |
| `IoWaitProofs` | Theorems about `IoWait` |
| `Descriptor` | A socket as the program sees it: it is opened and closed, and its mode is what was asked for |
| `FdTable` | The hooks that open, close and set the mode of sockets, and `do_io()` as it looks at the mode; implements `Descriptor` |
| `FdTableProofs` | Theorems about `FdTable` |

### Scheduler

A thread in `run()` is at one of a few labels (`pc`), and one action stands for the
code up to the next place where another thread can make a difference:

    begin --ReadBegin--> scan --ScanTakes--> lock --Resume--> body
    body --Yield | MainFuncEnds--> switch --SwapOut--> retire --Retire--> begin
    lock --SkipDone--> retire             (the fiber was TERM)
    scan --ScanFindsNothing--> idle --IdleResume--> idling
    idling --IdleStops | IdleSleeps--> idled --IdleReturns--> begin
    idle --RunReturns--> exited           (the idle fiber was TERM)

- `ReadBegin` is a step of its own because `m_tasks.begin()` is evaluated at line
  35 and the mutex is taken at line 36. `stale` is the set of threads whose
  iterator `push_back()` has invalidated; following it is undefined, and the model
  chooses between a fault (`ScanFaults`) and meeting `end()` (`ScanFindsNothing`).
- `Yield` sets `m_state` to READY and `SwapOut` leaves the stack and unlocks the
  fiber's mutex: `yield()` does them in that order (fiber.cpp:104 and 110).
- A callback task is the new fiber that `run()` makes for it; its mutex is free and
  it is READY, so the two branches of `run()` are one.
- `capacity` follows the growth of libstdc++'s `std::vector`, by doubling.
- The client is the thread `Root`, which constructs the scheduler, calls `start()`
  once and then `stop()`; with `use_caller` it becomes a worker inside `stop()`. A
  second `stop()` and the destructor follow. `stop()` before `start()` is left out.
- `start()` holds `m_mutex` throughout (`QueueLocked`), one `Spawn` and `SpawnReturn`
  for each Thread. `SpawnFails` is a `pthread_create()` that fails.
- `calls`, `retired` and `late` are history. `late` is set when a thread outside the
  pool schedules after `m_stopping` was set; `aborted` says why the process died.
- `sleep(1)` in `idle()` is a delay. With the hooks enabled it would be the hooked
  call, which asks the missing IOManager for a timer.

`scheduleLock()` has no bound. `Scheduler` numbers its calls and allows `MaxCalls` of
them, which is enough for safety, where what a further task could do wrong shows in the
first few, but not for liveness: it would make every task stop scheduling some day, and
`stop()` return, whatever the code does. `SchedulerTraffic` therefore adds a step,
`Forget`, that changes nothing the program has: when the bound is reached, a task that
`run()` is done with is forgotten and the later ones move up a number. `MaxCalls` then
bounds the tasks that are queued or run at one time, and a behaviour may have any number
of them. The tasks up to `Kept` are not forgotten, so that a property can speak of one.

### TaskPool and the refinement

`TaskPool` knows a queue of numbered tasks with a target, what each thread has in
its hands, what is done, and that a thread may leave only after a moment in which
`stop()` had been called and nothing was queued or running. `Scheduler` maps
`m_tasks`, `task`, `retired`, `m_stopping`, the idle fibers' TERM and `exited` to
these; `ImplementsTaskPool` is both a property of the safety run and a theorem.

### FiberSwitch

`Scheduler` takes the switch from one stack to another for granted; `FiberSwitch`
does not. Every thread and every fiber has a stack (`Stacks`), `on` says which stack
a thread is on, and `m_ctx` whose context a fiber keeps. `resume()` is `LockAndResume`
(or `ResumeScheduler`, for what `stop()` does), `SwapIn` and, once the context is
loaded again, `Resumed`; `yield()` is `yield` and `SwapOut`; `MainFuncEnds` and
`MainFuncReturns` are the end of a callback before and after its last switch.
`swapcontext(t, s, into, from)` saves stack `s` in `m_ctx[into]` and loads what is in
`m_ctx[from]`. `saved` is history: the fiber with the last context of a stack. A load
of any other context, or of a stack a thread is on, and a failed assertion set
`broken`, and nothing is said about the process after that.

The threads of the pool run `run()` on their own stack and Root in
`m_schedulerFiber`, as with `use_caller`. Any code may resume any fiber whose mutex
it can take: that `run()` resumes under `m_mutex` is the scheduler's rule, and the
model holds the client to it. A fiber may have either value of
`m_yieldToSchedulerFiber`; only that of `m_schedulerFiber` is known. A fiber that was
resumed from a stack it does not yield to, or was reset, sets `misused`, and the
properties are about what happens without: so `misused` is the rule, found with the
model and stated nowhere in the code, that makes `resume()` safe.

### Semaphore and Thread

Each thread is at a line of `wait()` or `signal()` (`at`), which gives who has the
mutex and who sleeps on the condition variable. `WakesUnasked` is a spurious
wake-up. `CountingSemaphore` knows only the count and what each thread has asked
for: `Takes` is its `P` and `Increments` its `V`.

`Thread` has places of memory (`Objects`) which Thread objects take one after the
other, and children (`Kids`) that may outlive their object. The client constructs
(`Thread`, `WaitForStart`, the steps of `wait()`, `Constructed`), joins (`join`,
`Joined`) and destroys (`Destroy`), one operation at a time. The child binds its
thread-locals, sets `_id`, swaps the callback out, signals (`BindLocals`, `SetId`,
`SwapCallback`, the steps of `signal()`), and runs its callback, which may call
`setRunningThreadName()` until it returns. The rename and a place that is used again
are what `orphans` is about: a child whose object was destroyed under it writes
through `cur_thread` to whatever is there.

`ThreadLife` knows of each thread only whether it is starting, runs or has ended and
who has its handle, and that a constructor does not return while a thread is starting.
`Thread` maps `pc`, `at` and `pthread` to these. `Scheduler`, in which the constructor
of a Thread is `Spawn`, the thread's `ThreadRun` and `SpawnReturn` and in which `stop()` joins all in one
step, maps its own `pc` and `rootPc`: `KeepsToThreadLife` says that these coarse steps
ask of a Thread nothing that `Thread` has not been shown to give.

### IoWait

Two fibers and one socket: `r` makes calls that wait for READ, `w` calls that wait
for WRITE and connects, so a fiber stands for its event too; both may sleep. A call goes

    out --Call--> attempt --AttemptIo | AttemptConnect--> arm --addConditionTimer-->
    register --addEvent--> yield --yield--> parked --Resumed--> woken
    woken --Woken--> attempt (do_io retries) | check (connect) | out (timed out)
    check --CheckSoError--> out
    attempt --addTimer--> yield, and woken --SleepEnds--> out          (a sleep)

and between any two of these a timer may expire, its callback may begin
(`CallbackBegins` sets `cancelled`) and, as a separate step, call `cancelEvent()`
(`CallbackCancels`); an event may fire; `close()` may call `cancelAll()` and then
close; the peer may send, answer or refuse. A callback remembers its fiber and the
number of its call, which plays the part of the `weak_ptr`: `winfo.lock()` succeeds
only while that call goes on. Timers of several rounds of one call share `tinfo`, as
in the code. The callback of a sleep has no such test: it calls `scheduleLock()`
whatever the fiber does (`CallbackSchedules`), also before the fiber has yielded.
`sleep`, `usleep` and `nanosleep` differ in how they count milliseconds and are one
kind of call here. The IOManager, the timer manager and the kernel are external and are
modelled by what the hooks need of them; `cancelEvent()` on a closed descriptor may
or may not find the event. Calls that never wait are `FdTable`'s. A descriptor number
is not used again after `close()`: that is `FdTable`'s too.

`BlockingCall` has calls, one socket and the time that runs out, and neither fibers nor
events, timers or callbacks. `IoWait` maps a call to "none" while its fiber is out, and
`timeout`, `expired`, `result` and the socket to themselves, so that whatever happens
between a call and its return must be a stutter, time running out or the world moving.
A call of `BlockingCall` returns ok only when the socket has served it, the peer has
granted the connection or the time of the sleep has passed, ETIMEDOUT only when its own
time has run out, and an error only because the descriptor is closed, the connection was
refused or the call is not one for this connection. The hooks keep to this but for two
steps, which `ImplementsBlockingCall` names: `Unwatched`, a read or write that returns an
error because its event could not be added (hook.cpp:138), and `Unestablished`, a connect
that reads SO_ERROR while the connection is still pending and returns 0 (hook.cpp:278),
which is what `iowait_connect` is about. That a call must return is not part of it; that
is left to the liveness properties.

### FdTable and Descriptor

A caller is a fiber, or a thread without hooks (`t_hook_enable`); each hook is a step
at the FdManager and a step at the kernel, and other callers' steps come between.
`socket` and `Created` open and make the FdCtx (`getCreate`), `accept` is a `do_io`
whose `Accepted` opens; `fcntl` and `ioctl` set `userNonblock` and then `fcntl_f` and
`ioctl_f` the kernel's flag; `close`, `del`, `close_f` take all of it apart. `do_io`
looks once at the FdCtx and tries again (`Retry`) without looking. `same` says that
the descriptor of a call has not been closed under it, `stale` names the FdCtxs that
a `close()` without hooks has left behind, and `cleared` the descriptors that
`ioctl(FIONBIO)` put in blocking mode. A hooked call may begin on a descriptor that another
caller is closing, before `del` or between it and `close_f`, where it finds no FdCtx and
goes to the kernel as it is (hook.cpp:80). The FdManager is external: `get()` and `del()`
are atomic, and the FdCtx of a socket sets `O_NONBLOCK` when it is made and keeps
`sysNonblock` from then on. A program does not close a socket while another caller
sets its mode; it may do so under a call that waits.

`Descriptor` is what the program sees. A call that sets the mode is a request (`asked`), of
a caller for a descriptor and a mode; it takes effect once, between its beginning and its
return, and does what it asked for; nothing else changes a mode until the descriptor is
closed. So `F_GETFL` tells the mode that the request to take effect last has asked for. `FdTable`
maps `usable`, `F_GETFL` and the calls in `fcntl` and `ioctl` to it (`View`, `Request`): a
request is done at once where there is an FdCtx and at the kernel's step where there is
none. Descriptors with a stale FdCtx in the way are left out (`Transparent`);
`NewIsBlocking`, below, is why.

## The runs

| Run | Instance | Result |
|---|---|---|
| `scheduler_safety` | 2 pool threads and Root, 2 fibers, 2 calls, symmetric; 516,558 states | types, counters, fiber exclusion, exactly-once, draining, assertions, no circle of waits, no overtaking, `TaskPool` |
| `scheduler_liveness` | 1 pool thread and Root, 1 fiber, 3 tasks at a time and no end of them, the first 2 kept, fair; 125,537 states | `start()` returns, `stop()` unless tasks schedule tasks for ever, no task for any thread starves in the queue |
| `scheduler_stale_iterator` | 1 pool thread, 1 fiber, 2 calls | **violated**: `begin()` before the lock |
| `scheduler_late_task` | same | **violated**: a task accepted after the workers left |
| `scheduler_manager_stop` | same | **violated**: `stop()` on the constructing thread without `use_caller` |
| `fiber` | 2 pool threads and Root, 2 fibers; 1,677,296 states | contexts are fresh, no stack run on twice, switches land, the running fiber is known |
| `thread` | 3 children, 2 places, 2 names, fair; 348,565 states | objects outlive `run()`, ids known, handles used once, no signal lost, the constructor returns, `CountingSemaphore`, `ThreadLife` |
| `iowait` | 2 calls in all, 2 messages, fair; 144,633 states | woken once, no lost wake-up, timeouts are the call's own, no timer left, sleeps end by their timer, `BlockingCall` but for two steps; a ready call returns, a call with a running timer wakes, a sleep returns |
| `iowait_lost_timeout` | 1 call, fair | **violated**: the timer runs out before the event is added |
| `iowait_connect` | 1 call | **violated**: `connect` returns 0 while the connection is pending |
| `fd` | 2 callers, 2 descriptors; 554,204 states | FdCtxs belong to their sockets, hooked calls do not block their thread, `Descriptor` |
| `fd_ioctl` | 1 caller, 1 descriptor | **violated**: `ioctl(FIONBIO)` against the system's setting |

Why the bounds are enough. Two pool threads and Root give every pair of workers,
and a third that watches; with two fibers and two calls the same fiber is queued
twice, two fibers run at once, a task schedules itself or another, and the vector
grows twice (0 to 1 to 2) under a scanning thread. Liveness needs a task behind one
for another thread and one more to arrive while `stop()` drains, which is three tasks at
a time, two of them known by their numbers (`Kept`) and the third ever a new one. In
`IoWait` two calls let a callback of one call run in the next call of the same fiber,
a sleep among them, or both fibers be in a call of their own; two messages let a call
retry. In `FiberSwitch` two pool threads and Root let a fiber move from thread to
thread and two fibers resume each other. In `Thread` three children and two places
let a place be used again while the child of its first object is still renaming and a
third thread starts. In `FdTable` two callers and two descriptors let one close a
socket and open another with its number under the other's call. The theorems hold for
every value of these constants. `MaxCalls` bounds the calls of
`scheduleLock()` (`Scheduler`; in `SchedulerTraffic` the tasks at one time) or the
hooked calls (`IoWait`), and `MaxPeer` the peer's messages; the other models have no
counter and no bound but their sets.

Deadlock is checked in the runs of `Scheduler` and `IoWait`: the only states without a
successor of their own are those in which the process is gone (`Over`) or every call
has returned or waits for a peer (`Finished`). `Thread`, `FiberSwitch` and `FdTable`
may really stop, and their cfgs say `CHECK_DEADLOCK FALSE`: the client has used up the
children and the places, every fiber has ended or the process is broken, or every
caller blocks in the kernel. That the constructor of a `Thread` does not stop half-way
is `ConstructorReturns`; of the other two only safety is claimed.

### Fairness

`Scheduler`: weak fairness of each thread in `run()` and of the steps inside
`start()` and `stop()`: the operating system runs every thread, and tasks return or
yield. Nothing makes the client call `stop()` or anyone schedule. A mutex is not
assumed to be fair, and nobody is assumed to stop scheduling. Both cost something, which
the properties say. A task that schedules another, or itself, before it ends, for ever,
keeps the queue and the active threads from being none at once, and `stop()` does not
return: `StopReturns` excepts `TasksKeepScheduling`. And a worker that has taken a fiber may
wait for ever for the fiber's `m_mutex` while another thread is given the same fiber
again and again: `TasksAreRun` shows that a task leaves the queue whatever is scheduled,
and that it is run only if scheduling comes to an end some day. TLC finds a counterexample to
either property without its exception. `IoWait`: weak fairness of each
fiber's call (the scheduler resumes what is scheduled, which is what
`TasksAreRun` shows of the other model), of the expiry of a timer, of its
callback's steps and of an event that is ready. The peer, `close()` and new calls
are not fair. `Thread`: weak fairness of the client inside an operation and of a child up to its
callback, which need not return. Nothing is assumed of the mutex but that whoever can go on does,
and so `ConstructorReturns` excepts a condition variable that wakes its sleeper for
no reason for ever. `FiberSwitch` and `FdTable` promise nothing that must happen and
state no fairness.

### What the violated runs show

1. `QueueProtected`: scheduler.h:68 calls `m_mutex` "a mutex to protect the tasks";
   `run()` takes its iterator before it locks (scheduler.cpp:35). Two threads
   suffice: one reads `begin()`, another's `scheduleLock()` reallocates.
2. `NoneLeftBehind`: scheduler.h:188 says `stop()` prevents "new tasks from being
   accepted"; `scheduleLock()` does not look at `m_stopping`. The properties
   `DrainedAtExit`, `StopLosesNothing` and `AssertsHold` are therefore about behaviours in which no
   outside thread schedules after `stop()` (`~late`); tasks may.
3. `ManagerCanStop`: scheduler.h:138 lets the constructing thread manage a
   scheduler without `use_caller`, and the assertion in `stop()` rejects it.
4. `TimedCallWakes`: the timer is started before the event is added (hook.cpp:117
   and 131); a callback in between cancels nothing and the call sleeps on without a
   timeout. The second way to the same end is a callback that sets `cancelled` after
   line 146 has read it: the next round's timer then returns at line 120. That is
   why `ArmedTimeoutWakes`, which holds, asks for `~cancelled`.
5. `ConnectedIfOk`: SO_ERROR is 0 while a connection is pending, so a `connect` that
   leaves its wait for any other reason than the event reports success.
6. `SystemDecides`: hook.cpp:365 and 388 say that the system's setting decides
   whether a descriptor blocks; `fcntl` keeps to it and `ioctl(FIONBIO, 0)` clears
   `O_NONBLOCK` in the kernel (hook.cpp:469). `HookedCallsNeverBlock` holds of the
   descriptors where that has not happened (`cleared`).

Four conditions of properties that hold (`stale`, `misused` twice, `orphans`) each stand for
something that does go wrong in the code. What the comments promise without the condition
is written down beside the property, and TLC refutes it within a few steps when it is
checked in place of the properties of `fd`, `fiber` or `thread`; these four have no run of
their own.

- `NewIsBlocking` (`FdTable`): hook.cpp:387 says that F_GETFL shows the user what he has set.
  A hooked `socket`, `fcntl` to non-blocking, a `close()` with the hooks disabled
  (hook.cpp:335), which leaves the FdCtx: the next socket with that number is reported in
  the mode of the last one.
- `YieldsToScheduler` (`FiberSwitch`): fiber.cpp:106 says that a yield switches "to the
  scheduler fiber if a scheduler fiber is set". `resume()` saves its caller in the scheduler
  fiber's `m_ctx` whoever that is (fiber.cpp:86): `run()` resumes one fiber, that resumes
  another, and the other's yield lands in the first.
- `ReusesItsStack` (`FiberSwitch`): fiber.h:37 says that `reset()` reuses the stack. Line 60
  of fiber.cpp takes the success of `getcontext()` for a failure and ends the thread before
  `makecontext()`; the fiber is READY and has no context of its stack.
- `NameSynchronized` (`Thread`): thread.h:50 says that the name "remains synchronized" with
  the thread's copy. A detached thread still has its `cur_thread`, and renames whatever
  Thread was constructed in that place since (thread.cpp:95).

More places where the comments and the code part, which need no run of their own.
semaphore.h:37 has the signal at the end of `Thread::run()`, and the code
signals before it calls the callback, as it must if constructors are to return.
semaphore.h:39 has `signal()` notify after it has released the lock, and the code
notifies with the lock held; `RunHasItsObject` depends on that, because a child that
notified without the lock could find its semaphore destroyed by a client that was
woken in between. thread.h:58 calls a second `join()` an error, and it does nothing.
scheduler.h:137 counts `threads + 1` workers with `use_caller` where the constructor
creates `threads - 1` besides the caller, and `hasIdleThreads()` (scheduler.cpp:120)
looks at the active threads.

## The proofs

`SchedulerProofs` assumes `SchedulerAssumption` (a finite pool, Root not in it, and
null values that are none of the real ones) and shows `Spec => []IndInv`. The safety
properties are not inductive by themselves:

- `CountersExact` needs `TypeOK`, and that a thread is in the active labels exactly
  when it holds a task (`TaskFits`), so that `Retire` never decrements a zero.
- `FiberExclusive` needs `FibersFit`: who is on a fiber's stack owns its mutex, which
  `Yield` does not give up although it has already made the fiber READY.
- `ExactlyOnce` needs that `RemoveAt` removes one entry and keeps the others, which
  `RemoveAtProperties` shows from the library's facts about sequences.
- `DrainedAtExit` rests on `CountersExact`: `m_activeThreadCnt = 0` means that no
  thread is in a task, so nobody is left who could schedule but an outside thread.
- `AssertsHold` needs `DrainedAtExit` and `ClientFits`, which ties the client's
  position to the threads that exist and those that have left.

`StopLosesNothing`, `NoOvertaking` and `Implementation` (the refinement of `TaskPool`)
follow from `IndInv`. `NoDeadlock` shows `NoCircularWait` beside it: who owns a fiber's
mutex is on that fiber's stack, and so has one lock at most to wait for before it
unlocks, `m_mutex`; and while `start()` sleeps with `m_mutex` held no thread owns a
fiber's mutex or has run anything. Of the waits for `m_mutex`, for a fiber's
mutex and for a new thread none can then close a circle; the joins of `stop()` are made
with no lock held. `IndInv` says only that
a thread on a fiber's stack owns its mutex; the converse, that nobody else ever does, is
what this adds.

`PoolKeepsToThreadLife` shows `KeepsToThreadLife`, with `ClientFits` for the threads that
`stop()` joins: all of them have left `run()`. With `ThreadHasItsLife` of `ThreadProofs`
it says that the two models fit together: the order in which a Thread is constructed, comes
up, ends and is joined is the same in both, and what `Scheduler` takes in one step,
`Thread` provides in several. `ThreadLife` says no more than that order.

`IoWaitProofs` shows `IndInv` of `IoWait` in three parts: types; wake-ups
(`WokenOnce` and `NoWakeupLost`, with `Triggered` for what `cancelEvent()`, `cancelAll()` and
an event have in common); and timers (`TimeoutIsOwn` and `NoTimerLeft`, with
`TimersFit`, which says that a callback naming the current call comes from a timer of that call).

`SleepsItsTime` needs `OneToCome`: a sleep has one wake-up to come, first its
timer, then the callback, then the scheduler's entry, and until then the fiber is in
its `yield()`.

`HookedCallsBlock` is the refinement of `BlockingCall`: every step maps to a step of it, to a
stutter, or is `Unwatched` or `Unestablished` (`Blocks`). `FiberStepBlocks` goes through the
ways out of a call: a timeout rests on `TimeoutIsOwn`, the end of a sleep on
`SleepsItsTime`, a success on what `AttemptIo` takes from the socket, and time that runs
out (`OthersBlock`) on `TimersFit`, that only a call with a timeout has a timer, and
`NoTimerLeft`, that no timer outlives its call. connect needs `ConnectFits`: nobody but `w` is in connect, a call asks for SO_ERROR only
there, and only with a connection that was begun; that it is kept needs `OneToCome`,
because a sleep must not come to `addEventFails`.

`FiberSwitchProofs` shows `IndInv` of `FiberSwitch` for any threads and fibers. It is in two
halves: `TypeOK` and `Pointers` hold whatever the program does, and `Tidy` while it
has not misused `resume()` or `reset()`. `Chain` is the heart of it: a thread that is
not on its own stack has left it, and Root that of `m_schedulerFiber` too, in the very
`resume()` which the current fiber's `yield()` goes back to. `Contexts` says that a
stack no thread is on has its context in its own fiber; `Held` and `Doing` tie
`m_state` and `m_mutex` to that. `SwapInLands` and `SwapOutLands` show where a switch
ends, and are what the proof of `SwitchesLand` cites. `SchedulerNeverBreaks` discharges
the condition for the scheduler itself: when `run()` alone resumes fibers that yield to
it, which is the constructor's default, and nobody calls `reset()` (`SchedulerUse`),
nothing is ever misused or broken. TLC finds the same on the instance of `fiber` with
those steps alone (78,528 states).

`SemaphoreProofs` shows, for any semaphores and threads, that `Semaphore` implements
`CountingSemaphore`, and for finitely many threads that nobody sleeps on a count
which those awake do not take. `LockedIsStable` is the invariant: what a
thread has read of the count under the mutex stays true.

`ThreadProofs` shows `IndInv` of `Thread`. `RunHasItsObject` needs `Handshake`: the
count of an object is one from the child's increment to the end of the constructor,
and the client takes it only with the mutex, hence after the child has let go of it.
`HandlesMatch` ties handles, objects and children. `SemaphoresDoCount` takes the
theorem about one use of `Semaphore` into `Thread`, where places are used again.
`ThreadHasItsLife` is the refinement of `ThreadLife`. A child is up, for the client, at
its increment in `signal()` (`Signalled`), where `Handshake` lets the constructor go on.
It needs `OneOperation`, that the client is in one operation at a time, so that one
constructor's return cannot be taken for another's; and a step that moves one thread and
one handle must leave all others where they are, which `LifeStep` collects from a lemma
for each kind of step.

`FdTableProofs` shows `IndInv` of `FdTable`. `HookedCallsNeverBlock` needs `CtxTellsMode`, that
an FdCtx implies the kernel's mode, and `CallKeepsCtx`, that a descriptor keeps its
FdCtx under a call until it is closed; `OwnCtx` needs `Exclusive`, that opening and
closing are one caller's business. `HooksAreTransparent` is the refinement, with one
lemma for each kind of step. `SetModeMaps` shows that a call that sets a mode begins a
request, done at once if there is an FdCtx, and `KernelModeMaps` that its kernel step
answers it; `AskedKept`, that every other step leaves the requests of others as they are,
needs that nobody gives a descriptor an FdCtx or takes it away while its mode is being set
(`Exclusive`).

The assumptions are those named in the modules: constants that stand for "none" are
none of the real values, Root and Client are not among the other threads, and, where a
cardinality is counted, the sets are finite.

No run has an `IndInv` of its own among its properties: each was checked by TLC on the
instance of its run before it was proved, and the runs check what follows from it. Nor
does one have `KeepsToThreadLife`, `OneOperation`, `ConnectFits` or `SchedulerUse`, which TLC
found to hold in the same way.

Only model-checked: the seven liveness properties (`StartReturns`, `StopReturns`,
`TasksAreRun`, `ConstructorReturns`, `ReadyCallReturns`, `ArmedTimeoutWakes`,
`SleepReturns`). TLAPS proves none of them, nor anything about ENABLED; `NoCircularWait`,
`NoSignalLost` and `NoWakeupLost` are the safety that they rest on, and are proved. No recursive definition is used.

## What is not modelled

- Time as a quantity: the conversions to milliseconds (hook.cpp:175, 187, 196, 486)
  with their widths, and how long a call waits that is woken again and again. A timer
  in `IoWait` may run out at any moment.
- `setsockopt()` and the timeouts it stores in the FdCtx, and the commands of `fcntl()`
  other than F_SETFL and F_GETFL: they change no state of the modelled parts, or none
  that is in the repository. A call in `IoWait` has a timeout or has none.
- `tickle()` and `hasIdleThreads()`: the first is empty and nobody calls the second.
- `hook_init()` with its `dlsym()` look-ups, which run once before `main()`, and the
  second copy of the hooks (hook.cpp:494-830), which repeats the first.
- The insides of TimerManager, of which the repository has an empty `timer.cpp`, and
  of the IOManager and the FdManager, of which it has nothing: they are external, as
  above. With them goes an `idle()` that waits for events, and the hooked `sleep(1)`
  in `Scheduler::idle()`.
- A Thread constructor that throws leaves null entries in `m_pool`: `Scheduler` reaches
  the state (`aborted`) and no property is about it, because nothing says what
  `start()` promises then.
- Fiber ids and the allocation of stacks; names but those of threads; debug output;
  exceptions thrown by tasks. `stop()` before `start()`.
