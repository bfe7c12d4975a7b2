------------------------------- MODULE IoWait -------------------------------
(***************************************************************************)
(* The hooked calls of src/src/hook/hook.cpp that wait: do_io(), behind    *)
(* read, write, accept and their kin, and connect_with_timeout() for a     *)
(* socket to become ready, and sleep, usleep and nanosleep for a time.     *)
(* Instead of blocking its thread the calling fiber registers with the     *)
(* IOManager or adds a timer, and yields; it is scheduled again by the     *)
(* event, by a timer's callback or by close().                             *)
(*                                                                         *)
(* One socket that is a stream, has an FdCtx and is not in the user's      *)
(* non-blocking mode, and two fibers that call on it: r waits for READ, w  *)
(* for WRITE, so that a fiber stands for its event as well.  Timers and    *)
(* events are served by other threads between any two steps of a call.     *)
(*                                                                         *)
(* External: the IOManager and its timers, of which the repository has     *)
(* only the interface, the fd table, and the kernel's socket.              *)
(***************************************************************************)
EXTENDS Naturals, FiniteSets

CONSTANTS
    r, w,       \* the fiber that reads and the one that writes or connects
    MaxCalls,   \* bound on the calls of both fibers together
    MaxPeer     \* bound on the number of times the peer makes an event ready

Fibers == {r, w}

ASSUME IoWaitAssumption ==
    /\ r # w
    /\ MaxCalls \in Nat
    /\ MaxPeer \in Nat

VARIABLES
    \* the calls
    pc,         \* where fiber f is in its call; "out" between calls
    kind,       \* "io" for do_io(), "connect" for connect_with_timeout(), "sleep"
    timeout,    \* the call has a timeout: `timeout` or `timeout_ms` is not -1; so has a sleep
    cancelled,  \* tinfo->cancelled = ETIMEDOUT
    result,     \* what the last call returned
    calls,      \* number of the current call; its tinfo dies with it
    \* the IOManager
    armed,      \* the timer of the fiber's call is in the timer manager
    expired,    \* history: a timer of the fiber's current call has run out
    callbacks,  \* expired timers whose callback has not begun: [fiber, call, sleep]
    cancelling, \* callbacks between setting tinfo->cancelled and cancelEvent()
    registered, \* the event has a fiber waiting for it
    scheduled,  \* how often the fiber is in the scheduler's queue
    \* the socket
    ready,      \* the kernel would serve the call at once
    conn,       \* the state of the connection
    fd,         \* how far close() has come
    peer        \* number of times the peer made an event ready

callVars == <<pc, kind, timeout, cancelled, result, calls>>
timerVars == <<armed, expired, callbacks, cancelling>>
eventVars == <<registered, scheduled>>
socketVars == <<ready, conn, fd, peer>>
vars == <<callVars, timerVars, eventVars, socketVars>>

Init ==
    /\ pc = [f \in Fibers |-> "out"]
    /\ kind = [f \in Fibers |-> "io"]
    /\ timeout = [f \in Fibers |-> FALSE]
    /\ cancelled = [f \in Fibers |-> FALSE]
    /\ result = [f \in Fibers |-> "none"]
    /\ calls = [f \in Fibers |-> 0]
    /\ armed = [f \in Fibers |-> FALSE]
    /\ expired = [f \in Fibers |-> FALSE]
    /\ callbacks = {}
    /\ cancelling = {}
    /\ registered = [f \in Fibers |-> FALSE]
    /\ scheduled = [f \in Fibers |-> 0]
    /\ ready = [f \in Fibers |-> FALSE]
    /\ conn \in {"none", "up"}
    /\ fd = "open"
    /\ peer = 0

Goto(f, label) == pc' = [pc EXCEPT ![f] = label]

Return(f, value) ==
    /\ Goto(f, "out")
    /\ result' = [result EXCEPT ![f] = value]
----------------------------------------------------------------------------
(* External: the event table and the timer manager of the IOManager *)

\* An event that fires, or is cancelled, forgets its fiber and schedules it.
Trigger(events) ==
    /\ registered' = [f \in Fibers |-> registered[f] /\ f \notin events]
    /\ scheduled' = [f \in Fibers |->
                        IF f \in events /\ registered[f] THEN scheduled[f] + 1
                                                         ELSE scheduled[f]]

cancelEvent(f) == Trigger({f})
cancelAll == Trigger(Fibers)

\* epoll reports the event, at once if the socket was ready before addEvent().
EventFires(f) ==
    /\ registered[f] /\ ready[f] /\ fd # "closed"
    /\ Trigger({f})
    /\ UNCHANGED <<callVars, timerVars, socketVars>>

\* Timer::cancel() has no effect on a timer that has expired.
CancelTimer(f) == armed' = [armed EXCEPT ![f] = FALSE]

\* The callback of the timer of f's current call.
Entry(f) == [fiber |-> f, call |-> calls[f], sleep |-> kind[f] = "sleep"]

TimerExpires(f) ==
    /\ armed[f]
    /\ CancelTimer(f)
    /\ expired' = [expired EXCEPT ![f] = TRUE]
    /\ callbacks' = callbacks \cup {Entry(f)}
    /\ UNCHANGED <<callVars, cancelling, eventVars, socketVars>>
----------------------------------------------------------------------------
(* The callback of a timer *)

\* winfo.lock() finds a tinfo only as long as the call that made it goes on.
Lives(cb) == pc[cb.fiber] # "out" /\ calls[cb.fiber] = cb.call

\* Mutant: `t` is not tested, the callback writes to a dead call's tinfo.
CallbackBegins_AnyCall(cb) ==
    /\ cb \in callbacks /\ ~cb.sleep
    /\ callbacks' = callbacks \ {cb}
    /\ IF ~cancelled[cb.fiber]
         THEN /\ cancelled' = [cancelled EXCEPT ![cb.fiber] = TRUE]
              /\ cancelling' = cancelling \cup {cb}
         ELSE UNCHANGED <<cancelled, cancelling>>
    /\ UNCHANGED <<pc, kind, timeout, result, calls, armed, expired, eventVars, socketVars>>

CallbackBegins(cb) ==
    /\ cb \in callbacks /\ ~cb.sleep
    /\ callbacks' = callbacks \ {cb}
    /\ IF Lives(cb) /\ ~cancelled[cb.fiber]
         THEN /\ cancelled' = [cancelled EXCEPT ![cb.fiber] = TRUE]
              /\ cancelling' = cancelling \cup {cb}
         ELSE UNCHANGED <<cancelled, cancelling>>
    /\ UNCHANGED <<pc, kind, timeout, result, calls, armed, expired, eventVars, socketVars>>

\* Mutant: the callback schedules the fiber and leaves the event in place.
CallbackCancels_Schedules(cb) ==
    /\ cb \in cancelling
    /\ cancelling' = cancelling \ {cb}
    /\ scheduled' = [scheduled EXCEPT ![cb.fiber] = scheduled[cb.fiber] + 1]
    /\ UNCHANGED <<callVars, armed, expired, callbacks, registered, socketVars>>

\* Mutant: the callback marks the call and forgets cancelEvent().
CallbackCancels_NoCancel(cb) ==
    /\ cb \in cancelling
    /\ cancelling' = cancelling \ {cb}
    /\ UNCHANGED <<callVars, armed, expired, callbacks, eventVars, socketVars>>

\* cancelEvent() on a descriptor that is gone may find nothing to cancel.
CallbackCancels(cb) ==
    /\ cb \in cancelling
    /\ cancelling' = cancelling \ {cb}
    /\ \/ cancelEvent(cb.fiber)
       \/ fd = "closed" /\ UNCHANGED eventVars
    /\ UNCHANGED <<callVars, armed, expired, callbacks, socketVars>>

\* Mutant: the timer of a sleep wakes the fiber's event.
CallbackSchedules_Cancels(cb) ==
    /\ cb \in callbacks /\ cb.sleep
    /\ callbacks' = callbacks \ {cb}
    /\ cancelEvent(cb.fiber)
    /\ UNCHANGED <<callVars, armed, expired, cancelling, socketVars>>

\* The callback of a sleep's timer calls scheduleLock() whatever the fiber does.
CallbackSchedules(cb) ==
    /\ cb \in callbacks /\ cb.sleep
    /\ callbacks' = callbacks \ {cb}
    /\ scheduled' = [scheduled EXCEPT ![cb.fiber] = scheduled[cb.fiber] + 1]
    /\ UNCHANGED <<callVars, armed, expired, cancelling, registered, socketVars>>
----------------------------------------------------------------------------
(* do_io(), connect_with_timeout() and the sleeps *)

Call(f, k) ==
    /\ pc[f] = "out" /\ calls[r] + calls[w] < MaxCalls
    /\ k = "connect" => f = w
    /\ k # "sleep" => fd \in {"open", "closing"}
    /\ Goto(f, "attempt")
    /\ kind' = [kind EXCEPT ![f] = k]
    /\ \E finite \in BOOLEAN :
          (k = "sleep" => finite) /\ timeout' = [timeout EXCEPT ![f] = finite]
    /\ cancelled' = [cancelled EXCEPT ![f] = FALSE]
    /\ calls' = [calls EXCEPT ![f] = calls[f] + 1]
    /\ result' = [result EXCEPT ![f] = "none"]
    /\ expired' = [expired EXCEPT ![f] = FALSE]
    /\ UNCHANGED <<armed, callbacks, cancelling, eventVars, socketVars>>

\* fun() until it is not interrupted.  What is not EAGAIN is returned.
AttemptIo(f) ==
    /\ pc[f] = "attempt" /\ kind[f] = "io"
    /\ IF fd = "closed" \/ conn \in {"none", "refused"}
         THEN Return(f, "error") /\ UNCHANGED ready
         ELSE IF ready[f]
         THEN Return(f, "ok") /\ ready' = [ready EXCEPT ![f] = FALSE]
         ELSE Goto(f, "arm") /\ UNCHANGED <<result, ready>>
    /\ UNCHANGED <<kind, timeout, cancelled, calls, timerVars, eventVars, conn, fd, peer>>

\* connect_f(): at once, refused at once, or EINPROGRESS.
AttemptConnect(f) ==
    /\ pc[f] = "attempt" /\ kind[f] = "connect"
    /\ IF fd = "closed" \/ conn # "none"
         THEN Return(f, "error") /\ UNCHANGED conn
         ELSE \/ Return(f, "ok") /\ conn' = "up"
              \/ Return(f, "error") /\ UNCHANGED conn
              \/ Goto(f, "arm") /\ conn' = "pending" /\ UNCHANGED result
    /\ UNCHANGED <<kind, timeout, cancelled, calls, timerVars, eventVars, ready, fd, peer>>

\* addTimer(): the fiber may be scheduled before it has yielded.
addTimer(f) ==
    /\ pc[f] = "attempt" /\ kind[f] = "sleep"
    /\ armed' = [armed EXCEPT ![f] = TRUE]
    /\ Goto(f, "yield")
    /\ UNCHANGED <<kind, timeout, cancelled, result, calls, expired, callbacks,
                   cancelling, eventVars, socketVars>>

addConditionTimer(f) ==
    /\ pc[f] = "arm"
    /\ armed' = [armed EXCEPT ![f] = timeout[f]]
    /\ Goto(f, "register")
    /\ UNCHANGED <<kind, timeout, cancelled, result, calls, expired, callbacks,
                   cancelling, eventVars, socketVars>>

addEvent(f) ==
    /\ pc[f] = "register" /\ fd # "closed"
    /\ registered' = [registered EXCEPT ![f] = TRUE]
    /\ Goto(f, "yield")
    /\ UNCHANGED <<kind, timeout, cancelled, result, calls, timerVars, scheduled,
                   socketVars>>

\* The event cannot be added: do_io() returns -1, connect goes on to SO_ERROR.
addEventFails(f) ==
    /\ pc[f] = "register"
    /\ CancelTimer(f)
    /\ IF kind[f] = "io" THEN Return(f, "error")
                         ELSE Goto(f, "check") /\ UNCHANGED result
    /\ UNCHANGED <<kind, timeout, cancelled, calls, expired, callbacks, cancelling,
                   eventVars, socketVars>>

yield(f) ==
    /\ pc[f] = "yield"
    /\ Goto(f, "parked")
    /\ UNCHANGED <<kind, timeout, cancelled, result, calls, timerVars, eventVars,
                   socketVars>>

\* The scheduler resumes the fiber, which waits for nothing but that.
Resumed(f) ==
    /\ pc[f] = "parked" /\ scheduled[f] > 0
    /\ scheduled' = [scheduled EXCEPT ![f] = scheduled[f] - 1]
    /\ Goto(f, "woken")
    /\ UNCHANGED <<kind, timeout, cancelled, result, calls, timerVars, registered,
                   socketVars>>

\* Mutant: the timer is not cancelled when the fiber is resumed.
Woken_TimerKept(f) ==
    /\ pc[f] = "woken" /\ kind[f] # "sleep"
    /\ \/ cancelled[f] /\ Return(f, "timeout")
       \/ /\ ~cancelled[f]
          /\ Goto(f, IF kind[f] = "io" THEN "attempt" ELSE "check")
          /\ UNCHANGED result
    /\ UNCHANGED <<kind, timeout, cancelled, calls, timerVars, eventVars, socketVars>>

\* Mutant: the label retry is put before yield() and the event not added again.
Woken_YieldsAgain(f) ==
    /\ pc[f] = "woken" /\ kind[f] # "sleep"
    /\ CancelTimer(f)
    /\ \/ cancelled[f] /\ Return(f, "timeout")
       \/ /\ ~cancelled[f]
          /\ Goto(f, IF kind[f] = "io" THEN "yield" ELSE "check")
          /\ UNCHANGED result
    /\ UNCHANGED <<kind, timeout, cancelled, calls, expired, callbacks, cancelling,
                   eventVars, socketVars>>

Woken(f) ==
    /\ pc[f] = "woken" /\ kind[f] # "sleep"
    /\ CancelTimer(f)
    /\ \/ cancelled[f] /\ Return(f, "timeout")
       \/ /\ ~cancelled[f]
          /\ Goto(f, IF kind[f] = "io" THEN "attempt" ELSE "check")
          /\ UNCHANGED result
    /\ UNCHANGED <<kind, timeout, cancelled, calls, expired, callbacks, cancelling,
                   eventVars, socketVars>>

SleepEnds(f) ==
    /\ pc[f] = "woken" /\ kind[f] = "sleep"
    /\ Return(f, "ok")
    /\ UNCHANGED <<kind, timeout, cancelled, calls, timerVars, eventVars, socketVars>>

\* getsockopt(SO_ERROR): an error that is pending, or none.
CheckSoError(f) ==
    /\ pc[f] = "check"
    /\ IF fd = "closed" \/ conn = "refused" THEN Return(f, "error") ELSE Return(f, "ok")
    /\ conn' = IF conn = "refused" /\ fd # "closed" THEN "none" ELSE conn
    /\ UNCHANGED <<kind, timeout, cancelled, calls, timerVars, eventVars, ready, fd, peer>>
----------------------------------------------------------------------------
(* close(), called by another fiber: cancelAll(), del() and close_f() *)

CloseCancels ==
    /\ fd = "open"
    /\ fd' = "closing"
    /\ cancelAll
    /\ UNCHANGED <<callVars, timerVars, ready, conn, peer>>

CloseEnds ==
    /\ fd = "closing"
    /\ fd' = "closed"
    /\ UNCHANGED <<callVars, timerVars, eventVars, ready, conn, peer>>
----------------------------------------------------------------------------
(* The peer *)

PeerSends(f) ==
    /\ conn = "up" /\ ~ready[f] /\ peer < MaxPeer
    /\ ready' = [ready EXCEPT ![f] = TRUE]
    /\ peer' = peer + 1
    /\ UNCHANGED <<callVars, timerVars, eventVars, conn, fd>>

\* An error on the socket makes every event ready.
PeerAnswers ==
    /\ conn = "pending" /\ fd # "closed"
    /\ \/ conn' = "up" /\ ready' = [ready EXCEPT ![w] = TRUE]
       \/ conn' = "refused" /\ ready' = [f \in Fibers |-> TRUE]
    /\ UNCHANGED <<callVars, timerVars, eventVars, fd, peer>>
----------------------------------------------------------------------------
FiberStep(f) ==
    \/ AttemptIo(f)
    \/ AttemptConnect(f)
    \/ addTimer(f)
    \/ addConditionTimer(f)
    \/ addEvent(f)
    \/ addEventFails(f)
    \/ yield(f)
    \/ Resumed(f)
    \/ Woken(f)
    \/ SleepEnds(f)
    \/ CheckSoError(f)

Entries == [fiber : Fibers, call : 1..MaxCalls, sleep : BOOLEAN]

Kinds == {"io", "connect", "sleep"}

Environment ==
    \/ \E f \in Fibers : PeerSends(f) \/ \E k \in Kinds : Call(f, k)
    \/ PeerAnswers
    \/ CloseCancels
    \/ CloseEnds

\* Every call may have returned for good.
Finished ==
    /\ \A f \in Fibers : pc[f] \in {"out", "parked"}
    /\ UNCHANGED vars

Next ==
    \/ \E f \in Fibers : FiberStep(f) \/ EventFires(f) \/ TimerExpires(f)
    \/ \E cb \in Entries : CallbackBegins(cb) \/ CallbackCancels(cb) \/ CallbackSchedules(cb)
    \/ Environment
    \/ Finished

\* A fiber that can go on does so, time passes, and the IOManager serves what
\* has expired and what is ready.  The peer, close() and new calls may not come.
Fairness ==
    /\ \A f \in Fibers :
          WF_vars(FiberStep(f)) /\ WF_vars(EventFires(f)) /\ WF_vars(TimerExpires(f))
    /\ \A cb \in Entries :
          /\ WF_vars(CallbackBegins(cb))
          /\ WF_vars(CallbackCancels(cb))
          /\ WF_vars(CallbackSchedules(cb))

Spec == Init /\ [][Next]_vars
FairSpec == Spec /\ Fairness
----------------------------------------------------------------------------
(* Properties *)

\* The type invariant of the calls, the IOManager and the socket.
TypeOK ==
    /\ pc \in [Fibers -> {"out", "attempt", "arm", "register", "yield", "parked",
                          "woken", "check"}]
    /\ kind \in [Fibers -> Kinds]
    /\ timeout \in [Fibers -> BOOLEAN]
    /\ cancelled \in [Fibers -> BOOLEAN]
    /\ result \in [Fibers -> {"none", "ok", "error", "timeout"}]
    /\ calls \in [Fibers -> 0..MaxCalls]
    /\ armed \in [Fibers -> BOOLEAN]
    /\ expired \in [Fibers -> BOOLEAN]
    /\ callbacks \subseteq Entries
    /\ cancelling \subseteq Entries
    /\ registered \in [Fibers -> BOOLEAN]
    /\ scheduled \in [Fibers -> 0..1]
    /\ ready \in [Fibers -> BOOLEAN]
    /\ conn \in {"none", "pending", "up", "refused"}
    /\ fd \in {"open", "closing", "closed"}
    /\ peer \in 0..MaxPeer

\* Event, timer and close() race to wake a fiber, and one of them alone does:
\* it is scheduled once for each yield(), and never while its call is elsewhere,
\* so that no resume() of this call ends another call's yield().
WokenOnce ==
    \A f \in Fibers :
        registered[f] \/ scheduled[f] > 0 =>
            /\ pc[f] \in {"yield", "parked"}
            /\ ~ (registered[f] /\ scheduled[f] > 0)
            /\ scheduled[f] <= 1

\* ETIMEDOUT is returned only by a call whose own timer ran out: the callback of
\* an earlier call's timer, which may run at any time after it, finds no tinfo.
TimeoutIsOwn ==
    \A f \in Fibers :
        cancelled[f] \/ result[f] = "timeout" => timeout[f] /\ expired[f]

\* A sleep ends by its own timer and by nothing an earlier call of the fiber has left
\* behind: it is scheduled, and goes on, only once that timer has run out.
SleepsItsTime ==
    \A f \in Fibers :
        kind[f] = "sleep" /\ (scheduled[f] > 0 \/ pc[f] = "woken" \/ result[f] = "ok")
            => expired[f]

\* No way out of a call leaves its timer with the timer manager, and a call that
\* retries has one timer at a time.
NoTimerLeft ==
    \A f \in Fibers : armed[f] => pc[f] \in {"register", "yield", "parked", "woken"}

\* The timer of a sleep, or its callback, is still to come.
Dozes(f) == kind[f] = "sleep" /\ (armed[f] \/ Entry(f) \in callbacks)

\* No wake-up is lost: a fiber that waits in yield() has an event or, in a sleep, a
\* timer to wake it or is scheduled already, in whatever order the event, the
\* callback and the yield() came.
NoWakeupLost ==
    \A f \in Fibers :
        pc[f] \in {"yield", "parked"} => registered[f] \/ scheduled[f] > 0 \/ Dozes(f)

\* A timer and its callbacks belong to a call that has a timeout, and a callback
\* that still names the fiber's current call means that a timer of it ran out.
TimersFit ==
    /\ \A f \in Fibers : pc[f] # "out" => calls[f] > 0
    /\ \A f \in Fibers : armed[f] => timeout[f]
    /\ \A cb \in callbacks :
          /\ cb.call <= calls[cb.fiber]
          /\ cb.call = calls[cb.fiber] =>
                /\ timeout[cb.fiber] /\ expired[cb.fiber]
                /\ cb.sleep <=> kind[cb.fiber] = "sleep"

\* A sleep has one wake-up to come: its timer, then the callback, then the scheduler's
\* entry, and it is in yield() until that.
OneToCome ==
    /\ \A f \in Fibers : kind[f] = "sleep" =>
          /\ timeout[f] /\ ~registered[f]
          /\ pc[f] \in {"attempt", "yield", "parked", "woken", "out"}
          /\ Dozes(f) => pc[f] \in {"yield", "parked"} /\ scheduled[f] = 0
          /\ armed[f] => Entry(f) \notin callbacks
    /\ \A cb \in callbacks : cb.sleep => cb = Entry(cb.fiber)

\* The inductive invariant behind the safety properties (IoWaitProofs.tla): every
\* step of a call, a callback, an event or close() keeps it.
IndInv ==
    /\ TypeOK
    /\ WokenOnce
    /\ TimeoutIsOwn
    /\ NoTimerLeft
    /\ NoWakeupLost
    /\ TimersFit
    /\ SleepsItsTime
    /\ OneToCome

\* Only w connects, it gets past connect_f() only with a connection under way, and
\* SO_ERROR is asked for at the end of a connect alone (kept apart from IndInv, of
\* which no other part needs it).
ConnectFits ==
    /\ kind[r] # "connect"
    /\ \A f \in Fibers : pc[f] = "check" => kind[f] = "connect"
    /\ kind[w] = "connect" /\ pc[w] \notin {"out", "attempt"} => conn # "none"

\* The call as its caller sees it; a connect has asked once connect_f() is behind it.
Open == [f \in Fibers |->
            IF pc[f] = "out" THEN "none"
            ELSE IF kind[f] = "connect" /\ pc[f] # "attempt" THEN "connecting"
            ELSE kind[f]]

BC == INSTANCE BlockingCall WITH
    Callers <- Fibers, Connector <- w, open <- Open, limited <- timeout, due <- expired

\* A read or write whose event cannot be added fails for that (hook.cpp:138).
Unwatched(f) == addEventFails(f) /\ kind[f] = "io"

\* SO_ERROR is 0 as well while the connection is being established, and connect then
\* returns 0 without one (hook.cpp:278; ConnectedIfOk is violated by this step).
Unestablished(f) == CheckSoError(f) /\ conn = "pending" /\ fd # "closed"

\* To its caller a hooked call is the call that blocks, but for the two steps named
\* above: it returns ok only when the socket has served it, the connection is there or
\* the sleep is over, ETIMEDOUT only when its own time has run out and an error only
\* for its reason, and takes nothing else from the socket, however its event, its
\* timer, their callbacks and close() race and whatever earlier calls have left behind.
ImplementsBlockingCall ==
    /\ BC!Init
    /\ [][BC!Next \/ \E f \in Fibers : Unwatched(f) \/ Unestablished(f)]_(BC!blockingVars)

\* A call whose socket becomes ready returns, if the socket is not closed.
ReadyCallReturns ==
    \A f \in Fibers :
        pc[f] # "out" /\ ready[f] /\ fd = "open" ~> pc[f] = "out" \/ fd # "open"

\* A fiber that sleeps while its timer runs is woken, whether or not the event
\* ever comes, if the socket is not closed and no callback has marked the call in
\* an earlier round: then the callback of this timer returns at hook.cpp:120.
ArmedTimeoutWakes ==
    \A f \in Fibers :
        pc[f] = "parked" /\ armed[f] /\ ~cancelled[f] /\ fd = "open"
            ~> pc[f] # "parked" \/ fd # "open"

\* A sleep ends, whatever the fiber's earlier calls have left behind.
SleepReturns == \A f \in Fibers : pc[f] # "out" /\ kind[f] = "sleep" ~> pc[f] = "out"

\* What hook.cpp:115 says of every call that has a timeout: its timer cancels the
\* operation.  The code breaks it when the timer runs out before addEvent().
TimedCallWakes ==
    \A f \in Fibers :
        pc[f] = "parked" /\ timeout[f] /\ fd = "open" ~> pc[f] # "parked" \/ fd # "open"

\* What hook.cpp:269 says the last step of connect checks: that the connection
\* is established.  SO_ERROR is 0 as well while it is being established.
ConnectedIfOk ==
    pc[w] = "out" /\ kind[w] = "connect" /\ result[w] = "ok" => conn = "up"
=============================================================================
