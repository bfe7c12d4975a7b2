---------------------------- MODULE IoWaitProofs ----------------------------
(***************************************************************************)
(* Proofs about IoWait.tla, for any bound on the calls and on the peer.    *)
(* The two fibers are all there are: IoWait models one socket's two        *)
(* events.  IndInv is shown for the types, for the wake-ups, for the timers *)
(* and for the sleeps in turn, and the safety properties follow from it.   *)
(***************************************************************************)
EXTENDS IoWait, TLAPS

\* The parts of IndInv about the wake-ups, the timers and the sleeps.
WakeUps == WokenOnce /\ NoWakeupLost
Timers == TimeoutIsOwn /\ NoTimerLeft /\ TimersFit
Sleeps == SleepsItsTime /\ OneToCome

\* The two events of the socket; a call is in flight on each of them at most.
LEMMA CallBound ==
    ASSUME TypeOK, NEW f \in Fibers, calls[r] + calls[w] < MaxCalls
    PROVE  calls[f] + 1 \in 1..MaxCalls
<1>1. calls[r] \in Nat /\ calls[w] \in Nat /\ MaxCalls \in Nat
  BY IoWaitAssumption DEF TypeOK, Fibers
<1> QED
  BY <1>1, IoWaitAssumption DEF Fibers

\* What the callback of a timer knows.
LEMMA EntryFields ==
    ASSUME NEW f \in Fibers
    PROVE  /\ Entry(f).fiber = f /\ Entry(f).call = calls[f]
           /\ Entry(f).sleep <=> kind[f] = "sleep"
  BY Zenon DEF Entry

\* No fiber is in a call, waits or has a timer at first.
LEMMA InitInv == Init => IndInv
<1> SUFFICES ASSUME Init PROVE IndInv
  OBVIOUS
<1>1. TypeOK
  BY IoWaitAssumption DEF Init, TypeOK, Kinds
<1>2. WokenOnce /\ NoWakeupLost
  BY DEF Init, WokenOnce, NoWakeupLost
<1>3. TimeoutIsOwn /\ NoTimerLeft /\ TimersFit
  BY DEF Init, TimeoutIsOwn, NoTimerLeft, TimersFit
<1>4. SleepsItsTime /\ OneToCome
  BY DEF Init, SleepsItsTime, OneToCome
<1> QED
  BY <1>1, <1>2, <1>3, <1>4 DEF IndInv

\* What an event that fires or is cancelled does to the wake-ups: a fiber that sleeps
\* goes from having an event to being scheduled, once, and the others are as before.
LEMMA Triggered ==
    ASSUME IndInv, NEW events \in SUBSET Fibers, Trigger(events), UNCHANGED <<pc, kind, calls, armed, callbacks>>
    PROVE  /\ registered' \in [Fibers -> BOOLEAN]
           /\ scheduled' \in [Fibers -> 0..1]
           /\ WakeUps'
<1>1. /\ registered \in [Fibers -> BOOLEAN]
      /\ scheduled \in [Fibers -> 0..1]
  BY DEF IndInv, TypeOK
<1>2. \A f \in Fibers :
         /\ registered'[f] = (registered[f] /\ f \notin events)
         /\ scheduled'[f] = IF f \in events /\ registered[f] THEN scheduled[f] + 1
                                                            ELSE scheduled[f]
  BY DEF Trigger
<1>3. registered' \in [Fibers -> BOOLEAN]
  BY <1>1 DEF Trigger
<1>4. \A f \in Fibers : registered[f] => scheduled[f] = 0
  BY <1>1 DEF IndInv, WokenOnce
<1>5. \A f \in Fibers : scheduled'[f] \in 0..1
  BY <1>1, <1>2, <1>4
<1>6. scheduled' \in [Fibers -> 0..1]
  <2>1. scheduled' = [f \in Fibers |-> scheduled'[f]]
    BY DEF Trigger
  <2> QED
    BY <1>5, <2>1
<1>7. WokenOnce'
  <2> SUFFICES ASSUME NEW f \in Fibers, registered'[f] \/ scheduled'[f] > 0
               PROVE  /\ pc'[f] \in {"yield", "parked"}
                      /\ ~ (registered'[f] /\ scheduled'[f] > 0)
                      /\ scheduled'[f] <= 1
    BY DEF WokenOnce
  <2>1. registered[f] \/ scheduled[f] > 0
    BY <1>1, <1>2
  <2>2. pc[f] \in {"yield", "parked"}
    BY <2>1 DEF IndInv, WokenOnce
  <2>3. scheduled'[f] <= 1
    BY <1>5
  <2>4. ~ (registered'[f] /\ scheduled'[f] > 0)
    <3>1. CASE f \in events
      BY <1>2, <3>1
    <3>2. CASE f \notin events
      <4>1. registered'[f] => registered[f]
        BY <1>2
      <4>2. scheduled'[f] = scheduled[f]
        BY <1>2, <3>2
      <4>3. registered[f] => ~ (scheduled[f] > 0)
        BY <1>4
      <4> QED
        BY <4>1, <4>2, <4>3
    <3> QED
      BY <3>1, <3>2
  <2> QED
    BY <2>2, <2>3, <2>4
<1>8. NoWakeupLost'
  <2> SUFFICES ASSUME NEW f \in Fibers, pc'[f] \in {"yield", "parked"}
               PROVE  registered'[f] \/ scheduled'[f] > 0 \/ Dozes(f)'
    BY DEF NoWakeupLost
  <2>1. registered[f] \/ scheduled[f] > 0 \/ Dozes(f)
    BY DEF IndInv, NoWakeupLost
  <2>2. Dozes(f)' <=> Dozes(f)
    BY DEF Dozes, Entry
  <2> QED
    BY <1>1, <1>2, <2>1, <2>2
<1> QED
  BY <1>3, <1>6, <1>7, <1>8 DEF WakeUps

\* Every step keeps the types; calls stays within its bound by the guard of Call.
LEMMA TypedStep ==
    ASSUME IndInv, [Next]_vars PROVE TypeOK'
<1> USE DEF IndInv
<1>1. ASSUME NEW f \in Fibers, AttemptIo(f) PROVE TypeOK'
  BY <1>1 DEF AttemptIo, Goto, Return, timerVars, eventVars, TypeOK
<1>2. ASSUME NEW f \in Fibers, AttemptConnect(f) PROVE TypeOK'
  BY <1>2 DEF AttemptConnect, Goto, Return, timerVars, eventVars, TypeOK
<1>3. ASSUME NEW f \in Fibers, addConditionTimer(f) PROVE TypeOK'
  BY <1>3 DEF addConditionTimer, Goto, eventVars, socketVars, TypeOK
<1>4. ASSUME NEW f \in Fibers, addEvent(f) PROVE TypeOK'
  BY <1>4 DEF addEvent, Goto, timerVars, socketVars, TypeOK
<1>5. ASSUME NEW f \in Fibers, addEventFails(f) PROVE TypeOK'
  BY <1>5 DEF addEventFails, Goto, Return, CancelTimer, eventVars, socketVars,
     TypeOK
<1>6. ASSUME NEW f \in Fibers, yield(f) PROVE TypeOK'
  BY <1>6 DEF yield, Goto, timerVars, eventVars, socketVars, TypeOK
<1>7. ASSUME NEW f \in Fibers, Resumed(f) PROVE TypeOK'
  BY <1>7 DEF Resumed, Goto, timerVars, socketVars, TypeOK
<1>8. ASSUME NEW f \in Fibers, Woken(f) PROVE TypeOK'
  BY <1>8 DEF Woken, Goto, Return, CancelTimer, eventVars, socketVars, TypeOK
<1>9. ASSUME NEW f \in Fibers, CheckSoError(f) PROVE TypeOK'
  BY <1>9 DEF CheckSoError, Return, Goto, timerVars, eventVars, TypeOK
<1>10. ASSUME NEW f \in Fibers, EventFires(f) PROVE TypeOK'
  <2>1. /\ registered' \in [Fibers -> BOOLEAN]
        /\ scheduled' \in [Fibers -> 0..1]
    BY <1>10, Triggered DEF EventFires, callVars, timerVars
  <2> QED
    BY <1>10, <2>1 DEF EventFires, callVars, timerVars, socketVars, TypeOK
<1>11. ASSUME NEW f \in Fibers, TimerExpires(f) PROVE TypeOK'
  <2>1. calls[f] \in 1..MaxCalls
    BY <1>11, IoWaitAssumption DEF TimerExpires, TypeOK, NoTimerLeft, TimersFit
  <2>2. Entry(f) \in Entries
    BY <2>1 DEF Entries, Entry
  <2> QED
    BY <1>11, <2>2 DEF TimerExpires, callVars, eventVars, socketVars, TypeOK, CancelTimer
<1>12. ASSUME NEW cb \in Entries, CallbackBegins(cb) PROVE TypeOK'
  <2>1. callbacks' \subseteq Entries /\ cancelling' \subseteq Entries
    BY <1>12 DEF CallbackBegins, TypeOK
  <2>2. cancelled' \in [Fibers -> BOOLEAN]
    BY <1>12 DEF CallbackBegins, TypeOK
  <2> QED
    BY <1>12, <2>1, <2>2 DEF CallbackBegins, eventVars, socketVars, TypeOK
<1>13. ASSUME NEW cb \in Entries, CallbackCancels(cb) PROVE TypeOK'
  <2>1. /\ registered' \in [Fibers -> BOOLEAN]
        /\ scheduled' \in [Fibers -> 0..1]
    <3>1. CASE cancelEvent(cb.fiber)
      BY <1>13, <3>1, Triggered DEF CallbackCancels, cancelEvent, callVars, Entries
    <3>2. CASE UNCHANGED eventVars
      BY <3>2 DEF eventVars, TypeOK
    <3> QED
      BY <1>13, <3>1, <3>2 DEF CallbackCancels
  <2> QED
    BY <1>13, <2>1 DEF CallbackCancels, callVars, socketVars, TypeOK
<1>14. ASSUME NEW f \in Fibers, NEW k \in Kinds, Call(f, k) PROVE TypeOK'
  <2>1. calls[f] + 1 \in 0..MaxCalls
    BY <1>14, CallBound DEF Call
  <2> QED
    BY <1>14, <2>1 DEF Call, eventVars, socketVars, TypeOK, Goto
<1>15. ASSUME NEW f \in Fibers, PeerSends(f) PROVE TypeOK'
  BY <1>15, IoWaitAssumption DEF PeerSends, callVars, timerVars, eventVars, TypeOK
<1>16. CASE PeerAnswers
  BY <1>16 DEF PeerAnswers, callVars, timerVars, eventVars, TypeOK
<1>17. CASE CloseCancels
  <2>1. /\ registered' \in [Fibers -> BOOLEAN]
        /\ scheduled' \in [Fibers -> 0..1]
    BY <1>17, Triggered DEF CloseCancels, cancelAll, callVars, timerVars
  <2> QED
    BY <1>17, <2>1 DEF CloseCancels, callVars, timerVars, TypeOK
<1>18. CASE CloseEnds
  BY <1>18 DEF CloseEnds, callVars, timerVars, eventVars, TypeOK
<1>19. CASE UNCHANGED vars
  BY <1>19 DEF callVars, timerVars, eventVars, socketVars, vars, TypeOK
<1>20. ASSUME NEW f \in Fibers, addTimer(f) PROVE TypeOK'
  BY <1>20 DEF addTimer, Goto, eventVars, socketVars, TypeOK
<1>21. ASSUME NEW f \in Fibers, SleepEnds(f) PROVE TypeOK'
  BY <1>21 DEF SleepEnds, Goto, Return, timerVars, eventVars, socketVars, TypeOK
<1>22. ASSUME NEW cb \in Entries, CallbackSchedules(cb) PROVE TypeOK'
  <2>1. cb.fiber \in Fibers /\ cb = Entry(cb.fiber) /\ kind[cb.fiber] = "sleep"
    BY <1>22 DEF CallbackSchedules, OneToCome, Entry, Entries
  <2>2. scheduled[cb.fiber] = 0 /\ pc[cb.fiber] \in {"yield", "parked"}
    BY <1>22, <2>1 DEF CallbackSchedules, OneToCome, Dozes
  <2> QED
    BY <1>22, <2>1, <2>2 DEF CallbackSchedules, callVars, socketVars, TypeOK
<1> QED
  BY <1>1, <1>2, <1>3, <1>4, <1>5, <1>6, <1>7, <1>8, <1>9, <1>10,
     <1>11, <1>12, <1>13, <1>14, <1>15, <1>16, <1>17, <1>18, <1>19, <1>20, <1>21, <1>22
  DEF Next, FiberStep, Environment, Finished

\* Whichever of event, callback and close() comes first takes the event and schedules
\* the fiber, and the others find nothing to take.
LEMMA WakeUpStep ==
    ASSUME IndInv, [Next]_vars PROVE WakeUps'
<1> USE DEF IndInv
<1>1. ASSUME NEW f \in Fibers, AttemptIo(f) PROVE WakeUps'
  BY <1>1 DEF AttemptIo, Goto, Return, timerVars, eventVars, TypeOK, WakeUps,
     WokenOnce, NoWakeupLost, Dozes, Entry
<1>2. ASSUME NEW f \in Fibers, AttemptConnect(f) PROVE WakeUps'
  BY <1>2 DEF AttemptConnect, Goto, Return, timerVars, eventVars, TypeOK, WakeUps,
     WokenOnce, NoWakeupLost, Dozes, Entry
<1>3. ASSUME NEW f \in Fibers, addConditionTimer(f) PROVE WakeUps'
  BY <1>3 DEF addConditionTimer, Goto, eventVars, socketVars, TypeOK, WakeUps,
     WokenOnce, NoWakeupLost, Dozes, Entry
<1>4. ASSUME NEW f \in Fibers, addEvent(f) PROVE WakeUps'
  BY <1>4 DEF addEvent, Goto, timerVars, socketVars, TypeOK, WakeUps, WokenOnce,
     NoWakeupLost, Dozes, Entry
<1>5. ASSUME NEW f \in Fibers, addEventFails(f) PROVE WakeUps'
  BY <1>5 DEF addEventFails, Goto, Return, CancelTimer, eventVars, socketVars,
     TypeOK, WakeUps, WokenOnce, NoWakeupLost, Dozes, Entry
<1>6. ASSUME NEW f \in Fibers, yield(f) PROVE WakeUps'
  BY <1>6 DEF yield, Goto, timerVars, eventVars, socketVars, TypeOK, WakeUps,
     WokenOnce, NoWakeupLost, Dozes, Entry
<1>7. ASSUME NEW f \in Fibers, Resumed(f) PROVE WakeUps'
  BY <1>7 DEF Resumed, Goto, timerVars, socketVars, TypeOK, WakeUps, WokenOnce,
     NoWakeupLost, Dozes, Entry
<1>8. ASSUME NEW f \in Fibers, Woken(f) PROVE WakeUps'
  BY <1>8 DEF Woken, Goto, Return, CancelTimer, eventVars, socketVars, TypeOK,
     WakeUps, WokenOnce, NoWakeupLost, Dozes, Entry
<1>9. ASSUME NEW f \in Fibers, CheckSoError(f) PROVE WakeUps'
  BY <1>9 DEF CheckSoError, Return, Goto, timerVars, eventVars, TypeOK, WakeUps,
     WokenOnce, NoWakeupLost, Dozes, Entry
<1>10. ASSUME NEW f \in Fibers, EventFires(f) PROVE WakeUps'
  BY <1>10, Triggered DEF EventFires, callVars, timerVars
<1>11. ASSUME NEW f \in Fibers, TimerExpires(f) PROVE WakeUps'
  BY <1>11 DEF TimerExpires, CancelTimer, callVars, eventVars, socketVars, TypeOK,
     WakeUps, WokenOnce, NoWakeupLost, Dozes, Entry
<1>12. ASSUME NEW cb \in Entries, CallbackBegins(cb) PROVE WakeUps'
  <2>1. \A g \in Fibers : Dozes(g) => Dozes(g)'
    <3>1. \A g \in Fibers : Entry(g)' = Entry(g) /\ (kind[g] = "sleep" => Entry(g) # cb)
      BY <1>12, EntryFields DEF CallbackBegins, Entry
    <3> QED
      BY <1>12, <3>1 DEF CallbackBegins, Dozes
  <2> QED
    BY <1>12, <2>1 DEF CallbackBegins, eventVars, WakeUps, WokenOnce, NoWakeupLost
<1>13. ASSUME NEW cb \in Entries, CallbackCancels(cb) PROVE WakeUps'
  <2>1. CASE cancelEvent(cb.fiber)
    BY <1>13, <2>1, Triggered DEF CallbackCancels, cancelEvent, callVars, Entries
  <2>2. CASE UNCHANGED eventVars
    BY <1>13, <2>2 DEF CallbackCancels, callVars, eventVars, WakeUps, WokenOnce, NoWakeupLost, Dozes, Entry
  <2> QED
    BY <1>13, <2>1, <2>2 DEF CallbackCancels
<1>14. ASSUME NEW f \in Fibers, NEW k \in Kinds, Call(f, k) PROVE WakeUps'
  BY <1>14 DEF Call, Goto, eventVars, socketVars, TypeOK, WakeUps, WokenOnce,
     NoWakeupLost, Dozes, Entry
<1>15. ASSUME NEW f \in Fibers, PeerSends(f) PROVE WakeUps'
  BY <1>15 DEF PeerSends, callVars, timerVars, eventVars, TypeOK, WakeUps,
     WokenOnce, NoWakeupLost, Dozes, Entry
<1>16. CASE PeerAnswers
  BY <1>16 DEF PeerAnswers, callVars, timerVars, eventVars, TypeOK, WakeUps,
     WokenOnce, NoWakeupLost, Dozes, Entry
<1>17. CASE CloseCancels
  BY <1>17, Triggered DEF CloseCancels, cancelAll, callVars, timerVars
<1>18. CASE CloseEnds
  BY <1>18 DEF CloseEnds, callVars, timerVars, eventVars, TypeOK, WakeUps,
     WokenOnce, NoWakeupLost, Dozes, Entry
<1>19. CASE UNCHANGED vars
  BY <1>19 DEF callVars, timerVars, eventVars, socketVars, vars, TypeOK, WakeUps,
     WokenOnce, NoWakeupLost, Dozes, Entry
<1>20. ASSUME NEW f \in Fibers, addTimer(f) PROVE WakeUps'
  BY <1>20 DEF addTimer, Goto, eventVars, socketVars, TypeOK, WakeUps,
     WokenOnce, NoWakeupLost, Dozes, Entry
<1>21. ASSUME NEW f \in Fibers, SleepEnds(f) PROVE WakeUps'
  BY <1>21 DEF SleepEnds, Goto, Return, timerVars, eventVars, socketVars, TypeOK, WakeUps,
     WokenOnce, NoWakeupLost, Dozes, Entry
<1>22. ASSUME NEW cb \in Entries, CallbackSchedules(cb) PROVE WakeUps'
  <2>1. cb.fiber \in Fibers /\ cb = Entry(cb.fiber) /\ kind[cb.fiber] = "sleep"
    BY <1>22 DEF CallbackSchedules, OneToCome, Entry, Entries
  <2>2. scheduled[cb.fiber] = 0 /\ pc[cb.fiber] \in {"yield", "parked"}
    BY <1>22, <2>1 DEF CallbackSchedules, OneToCome, Dozes
  <2>3. ~registered[cb.fiber]
    BY <2>1 DEF OneToCome
  <2>4. \A g \in Fibers \ {cb.fiber} : Dozes(g) => Dozes(g)'
    BY <1>22, <2>1 DEF CallbackSchedules, Dozes, Entry, callVars
  <2> QED
    BY <1>22, <2>1, <2>2, <2>3, <2>4
    DEF CallbackSchedules, callVars, socketVars, TypeOK, WakeUps, WokenOnce, NoWakeupLost, Dozes, Entry
<1> QED
  BY <1>1, <1>2, <1>3, <1>4, <1>5, <1>6, <1>7, <1>8, <1>9, <1>10,
     <1>11, <1>12, <1>13, <1>14, <1>15, <1>16, <1>17, <1>18, <1>19, <1>20, <1>21, <1>22
  DEF Next, FiberStep, Environment, Finished

\* A timer is cancelled on every way out of a wait, and its callback knows its call.
LEMMA TimerStep ==
    ASSUME IndInv, [Next]_vars PROVE Timers'
<1> USE DEF IndInv
<1>1. ASSUME NEW f \in Fibers, AttemptIo(f) PROVE Timers'
  BY <1>1 DEF AttemptIo, Goto, Return, timerVars, eventVars, TypeOK, Timers,
     TimeoutIsOwn, NoTimerLeft, TimersFit
<1>2. ASSUME NEW f \in Fibers, AttemptConnect(f) PROVE Timers'
  BY <1>2 DEF AttemptConnect, Goto, Return, timerVars, eventVars, TypeOK, Timers,
     TimeoutIsOwn, NoTimerLeft, TimersFit
<1>3. ASSUME NEW f \in Fibers, addConditionTimer(f) PROVE Timers'
  BY <1>3 DEF addConditionTimer, Goto, eventVars, socketVars, TypeOK, Timers,
     TimeoutIsOwn, NoTimerLeft, TimersFit
<1>4. ASSUME NEW f \in Fibers, addEvent(f) PROVE Timers'
  BY <1>4 DEF addEvent, Goto, timerVars, socketVars, TypeOK, Timers, TimeoutIsOwn,
     NoTimerLeft, TimersFit
<1>5. ASSUME NEW f \in Fibers, addEventFails(f) PROVE Timers'
  BY <1>5 DEF addEventFails, Goto, Return, CancelTimer, eventVars, socketVars,
     TypeOK, Timers, TimeoutIsOwn, NoTimerLeft, TimersFit
<1>6. ASSUME NEW f \in Fibers, yield(f) PROVE Timers'
  BY <1>6 DEF yield, Goto, timerVars, eventVars, socketVars, TypeOK, Timers,
     TimeoutIsOwn, NoTimerLeft, TimersFit
<1>7. ASSUME NEW f \in Fibers, Resumed(f) PROVE Timers'
  BY <1>7 DEF Resumed, Goto, timerVars, socketVars, TypeOK, Timers, TimeoutIsOwn,
     NoTimerLeft, TimersFit
<1>8. ASSUME NEW f \in Fibers, Woken(f) PROVE Timers'
  BY <1>8 DEF Woken, Goto, Return, CancelTimer, eventVars, socketVars, TypeOK,
     Timers, TimeoutIsOwn, NoTimerLeft, TimersFit
<1>9. ASSUME NEW f \in Fibers, CheckSoError(f) PROVE Timers'
  BY <1>9 DEF CheckSoError, Return, Goto, timerVars, eventVars, TypeOK, Timers,
     TimeoutIsOwn, NoTimerLeft, TimersFit
<1>10. ASSUME NEW f \in Fibers, EventFires(f) PROVE Timers'
  BY <1>10 DEF EventFires, Trigger, callVars, timerVars, socketVars, TypeOK, Timers,
     TimeoutIsOwn, NoTimerLeft, TimersFit
<1>11. ASSUME NEW f \in Fibers, TimerExpires(f) PROVE Timers'
  <2>1. timeout[f] /\ pc[f] # "out" /\ calls[f] \in Nat
    BY <1>11, IoWaitAssumption DEF TimerExpires, NoTimerLeft, TimersFit, TypeOK
  <2>2. /\ armed' = [armed EXCEPT ![f] = FALSE]
        /\ expired' = [expired EXCEPT ![f] = TRUE]
        /\ callbacks' = callbacks \cup {Entry(f)}
        /\ UNCHANGED <<pc, kind, timeout, cancelled, result, calls>>
    BY <1>11 DEF TimerExpires, CancelTimer, callVars
  <2>3. TimeoutIsOwn' /\ NoTimerLeft'
    BY <2>2 DEF TimeoutIsOwn, NoTimerLeft, TypeOK
  <2>4. ASSUME NEW cb \in callbacks'
        PROVE  /\ cb.call <= calls'[cb.fiber]
               /\ cb.call = calls'[cb.fiber] =>
                     /\ timeout'[cb.fiber] /\ expired'[cb.fiber]
                     /\ cb.sleep <=> kind'[cb.fiber] = "sleep"
    <3>1. CASE cb \in callbacks
      BY <2>2, <3>1 DEF TimersFit, TypeOK
    <3>2. CASE cb = Entry(f)
      BY <2>1, <2>2, <3>2, EntryFields DEF TypeOK
    <3> QED
      BY <2>2, <3>1, <3>2
  <2> QED
    BY <2>2, <2>3, <2>4 DEF Timers, TimersFit, TypeOK
<1>12. ASSUME NEW cb \in Entries, CallbackBegins(cb) PROVE Timers'
  BY <1>12 DEF CallbackBegins, Lives, eventVars, socketVars, TypeOK, Timers,
     TimeoutIsOwn, NoTimerLeft, TimersFit
<1>13. ASSUME NEW cb \in Entries, CallbackCancels(cb) PROVE Timers'
  BY <1>13 DEF CallbackCancels, cancelEvent, Trigger, callVars, eventVars,
     socketVars, TypeOK, Timers, TimeoutIsOwn, NoTimerLeft, TimersFit
<1>14. ASSUME NEW f \in Fibers, NEW k \in Kinds, Call(f, k) PROVE Timers'
  <2>1. calls' = [calls EXCEPT ![f] = calls[f] + 1] /\ calls \in [Fibers -> 0..MaxCalls]
    BY <1>14 DEF Call, TypeOK
  <2>2. ~armed[f]
    BY <1>14 DEF Call, NoTimerLeft
  <2>3. TimeoutIsOwn'
    BY <1>14 DEF Call, TypeOK, TimeoutIsOwn
  <2>4. NoTimerLeft'
    BY <1>14, <2>2 DEF Call, TypeOK, NoTimerLeft, Goto
  <2>5. \A g \in Fibers : pc'[g] # "out" => calls'[g] > 0
    BY <1>14, <2>1, IoWaitAssumption DEF Call, TypeOK, TimersFit, Goto
  <2>6. \A g \in Fibers : armed'[g] => timeout'[g]
    BY <1>14, <2>2 DEF Call, TypeOK, TimersFit
  <2>7. ASSUME NEW cb \in callbacks'
        PROVE  /\ cb.call <= calls'[cb.fiber]
               /\ cb.call = calls'[cb.fiber] =>
                     /\ timeout'[cb.fiber] /\ expired'[cb.fiber]
                     /\ cb.sleep <=> kind'[cb.fiber] = "sleep"
    <3>1. cb \in callbacks /\ cb \in Entries
      BY <1>14 DEF Call, TypeOK
    <3>2. cb.fiber \in Fibers /\ cb.call \in Nat /\ calls[cb.fiber] \in Nat
      BY <2>1, <3>1, IoWaitAssumption DEF Entries
    <3>3. cb.call <= calls[cb.fiber]
      BY <3>1 DEF TimersFit
    <3>4. CASE cb.fiber = f
      BY <2>1, <3>2, <3>3, <3>4
    <3>5. CASE cb.fiber # f
      BY <1>14, <2>1, <3>1, <3>2, <3>5 DEF Call, TypeOK, TimersFit
    <3> QED
      BY <3>4, <3>5
  <2> QED
    BY <2>3, <2>4, <2>5, <2>6, <2>7 DEF Timers, TimersFit
<1>15. ASSUME NEW f \in Fibers, PeerSends(f) PROVE Timers'
  BY <1>15 DEF PeerSends, callVars, timerVars, eventVars, TypeOK, Timers,
     TimeoutIsOwn, NoTimerLeft, TimersFit
<1>16. CASE PeerAnswers
  BY <1>16 DEF PeerAnswers, callVars, timerVars, eventVars, TypeOK, Timers,
     TimeoutIsOwn, NoTimerLeft, TimersFit
<1>17. CASE CloseCancels
  BY <1>17 DEF CloseCancels, cancelAll, Trigger, callVars, timerVars, TypeOK,
     Timers, TimeoutIsOwn, NoTimerLeft, TimersFit
<1>18. CASE CloseEnds
  BY <1>18 DEF CloseEnds, callVars, timerVars, eventVars, TypeOK, Timers,
     TimeoutIsOwn, NoTimerLeft, TimersFit
<1>19. CASE UNCHANGED vars
  BY <1>19 DEF callVars, timerVars, eventVars, socketVars, vars, TypeOK, Timers,
     TimeoutIsOwn, NoTimerLeft, TimersFit
<1>20. ASSUME NEW f \in Fibers, addTimer(f) PROVE Timers'
  BY <1>20 DEF addTimer, Goto, eventVars, socketVars, TypeOK, Timers,
     TimeoutIsOwn, NoTimerLeft, TimersFit, OneToCome
<1>21. ASSUME NEW f \in Fibers, SleepEnds(f) PROVE Timers'
  BY <1>21 DEF SleepEnds, Goto, Return, timerVars, eventVars, socketVars, TypeOK, Timers,
     TimeoutIsOwn, NoTimerLeft, TimersFit, OneToCome, Dozes
<1>22. ASSUME NEW cb \in Entries, CallbackSchedules(cb) PROVE Timers'
  BY <1>22 DEF CallbackSchedules, callVars, socketVars, TypeOK, Timers, TimeoutIsOwn,
     NoTimerLeft, TimersFit
<1> QED
  BY <1>1, <1>2, <1>3, <1>4, <1>5, <1>6, <1>7, <1>8, <1>9, <1>10,
     <1>11, <1>12, <1>13, <1>14, <1>15, <1>16, <1>17, <1>18, <1>19, <1>20, <1>21, <1>22
  DEF Next, FiberStep, Environment, Finished

\* A sleep has its timer, then the callback of that, then its entry in the queue, and
\* nothing else wakes it: callbacks of earlier calls find no event of the fiber.
LEMMA SleepStep ==
    ASSUME IndInv, [Next]_vars PROVE Sleeps'
<1> USE DEF IndInv
<1>1. ASSUME NEW f \in Fibers, AttemptIo(f) PROVE Sleeps'
  BY <1>1
  DEF AttemptIo, Goto, Return, timerVars, eventVars,
      TypeOK, Kinds, Sleeps, SleepsItsTime, OneToCome, Dozes, Entry
<1>2. ASSUME NEW f \in Fibers, AttemptConnect(f) PROVE Sleeps'
  BY <1>2
  DEF AttemptConnect, Goto, Return, timerVars, eventVars,
      TypeOK, Kinds, Sleeps, SleepsItsTime, OneToCome, Dozes, Entry
<1>3. ASSUME NEW f \in Fibers, addConditionTimer(f) PROVE Sleeps'
  BY <1>3
  DEF addConditionTimer, Goto, eventVars, socketVars,
      TypeOK, Kinds, Sleeps, SleepsItsTime, OneToCome, Dozes, Entry
<1>4. ASSUME NEW f \in Fibers, addEvent(f) PROVE Sleeps'
  BY <1>4
  DEF addEvent, Goto, timerVars, socketVars,
      TypeOK, Kinds, Sleeps, SleepsItsTime, OneToCome, Dozes, Entry
<1>5. ASSUME NEW f \in Fibers, addEventFails(f) PROVE Sleeps'
  BY <1>5
  DEF addEventFails, Goto, Return, CancelTimer, eventVars, socketVars,
      TypeOK, Kinds, Sleeps, SleepsItsTime, OneToCome, Dozes, Entry
<1>6. ASSUME NEW f \in Fibers, yield(f) PROVE Sleeps'
  BY <1>6
  DEF yield, Goto, timerVars, eventVars, socketVars,
      TypeOK, Kinds, Sleeps, SleepsItsTime, OneToCome, Dozes, Entry
<1>7. ASSUME NEW f \in Fibers, Resumed(f) PROVE Sleeps'
  BY <1>7
  DEF Resumed, Goto, timerVars, socketVars,
      TypeOK, Kinds, Sleeps, SleepsItsTime, OneToCome, Dozes, Entry
<1>8. ASSUME NEW f \in Fibers, Woken(f) PROVE Sleeps'
  BY <1>8
  DEF Woken, Goto, Return, CancelTimer, eventVars, socketVars,
      TypeOK, Kinds, Sleeps, SleepsItsTime, OneToCome, Dozes, Entry
<1>9. ASSUME NEW f \in Fibers, CheckSoError(f) PROVE Sleeps'
  <2>1. kind[f] # "sleep"
    BY <1>9 DEF CheckSoError, OneToCome
  <2> QED
    BY <1>9, <2>1
    DEF CheckSoError, Return, Goto, timerVars, eventVars,
        TypeOK, Sleeps, SleepsItsTime, OneToCome, Dozes, Entry
<1>10. ASSUME NEW f \in Fibers, EventFires(f) PROVE Sleeps'
  BY <1>10
  DEF EventFires, Trigger, callVars, timerVars, socketVars,
      TypeOK, Kinds, Sleeps, SleepsItsTime, OneToCome, Dozes, Entry
<1>11. ASSUME NEW f \in Fibers, TimerExpires(f) PROVE Sleeps'
  BY <1>11
  DEF TimerExpires, CancelTimer, callVars, eventVars, socketVars,
      TypeOK, Kinds, Sleeps, SleepsItsTime, OneToCome, Dozes, Entry
<1>12. ASSUME NEW cb \in Entries, CallbackBegins(cb) PROVE Sleeps'
  BY <1>12
  DEF CallbackBegins, Lives, eventVars, socketVars,
      TypeOK, Kinds, Sleeps, SleepsItsTime, OneToCome, Dozes, Entry
<1>13. ASSUME NEW cb \in Entries, CallbackCancels(cb) PROVE Sleeps'
  <2>1. \A g \in Fibers : kind[g] = "sleep" =>
           registered'[g] = registered[g] /\ scheduled'[g] = scheduled[g]
    BY <1>13 DEF CallbackCancels, cancelEvent, Trigger, eventVars, OneToCome, TypeOK
  <2> QED
    BY <1>13, <2>1
    DEF CallbackCancels, callVars, Sleeps, SleepsItsTime, OneToCome, Dozes, Entry
<1>14. ASSUME NEW f \in Fibers, NEW k \in Kinds, Call(f, k) PROVE Sleeps'
  <2>1. /\ pc' = [pc EXCEPT ![f] = "attempt"] /\ kind' = [kind EXCEPT ![f] = k]
        /\ calls' = [calls EXCEPT ![f] = calls[f] + 1]
        /\ result' = [result EXCEPT ![f] = "none"]
        /\ expired' = [expired EXCEPT ![f] = FALSE]
        /\ k = "sleep" => timeout'[f]
        /\ \A g \in Fibers \ {f} : timeout'[g] = timeout[g]
        /\ UNCHANGED <<armed, callbacks, registered, scheduled>>
    BY <1>14 DEF Call, Goto, eventVars, TypeOK
  <2>2. ~registered[f] /\ scheduled[f] = 0 /\ ~armed[f] /\ ~Dozes(f)
    <3>1. pc[f] = "out"
      BY <1>14 DEF Call
    <3>2. ~Dozes(f)
      BY <3>1 DEF OneToCome, Dozes
    <3> QED
      BY <3>1, <3>2 DEF WokenOnce, NoTimerLeft, TypeOK
  <2>3. ASSUME NEW cb \in callbacks, cb.fiber = f
        PROVE  ~cb.sleep /\ cb.call # calls[f] + 1
    <3>1. cb.call \in Nat /\ calls[f] \in Nat /\ cb.call <= calls[f]
      BY <2>3, IoWaitAssumption DEF TypeOK, Entries, TimersFit
    <3>2. cb.sleep => kind[f] = "sleep" /\ Entry(f) \in callbacks
      BY <2>3, EntryFields DEF OneToCome
    <3> QED
      BY <2>2, <3>1, <3>2 DEF Dozes
  <2>4. SleepsItsTime'
    BY <2>1, <2>2 DEF SleepsItsTime, TypeOK
  <2>5. ASSUME NEW cb \in callbacks', cb.sleep PROVE cb = Entry(cb.fiber)'
    BY <2>1, <2>3, <2>5 DEF OneToCome, Entry, TypeOK, Entries
  <2>6. Entry(f)' \notin callbacks'
    BY <2>1, <2>3 DEF Entry, TypeOK
  <2>7. \A g \in Fibers \ {f} : Entry(g)' = Entry(g)
    BY <2>1 DEF Entry, TypeOK
  <2> QED
    BY <2>1, <2>2, <2>4, <2>5, <2>6, <2>7 DEF Sleeps, OneToCome, Dozes, TypeOK
<1>15. ASSUME NEW f \in Fibers, PeerSends(f) PROVE Sleeps'
  BY <1>15
  DEF PeerSends, callVars, timerVars, eventVars,
      TypeOK, Kinds, Sleeps, SleepsItsTime, OneToCome, Dozes, Entry
<1>16. CASE PeerAnswers
  BY <1>16
  DEF PeerAnswers, callVars, timerVars, eventVars,
      TypeOK, Kinds, Sleeps, SleepsItsTime, OneToCome, Dozes, Entry
<1>17. CASE CloseCancels
  BY <1>17
  DEF CloseCancels, cancelAll, Trigger, callVars, timerVars,
      TypeOK, Kinds, Sleeps, SleepsItsTime, OneToCome, Dozes, Entry
<1>18. CASE CloseEnds
  BY <1>18
  DEF CloseEnds, callVars, timerVars, eventVars,
      TypeOK, Kinds, Sleeps, SleepsItsTime, OneToCome, Dozes, Entry
<1>19. CASE UNCHANGED vars
  BY <1>19
  DEF callVars, timerVars, eventVars, socketVars, vars,
      TypeOK, Kinds, Sleeps, SleepsItsTime, OneToCome, Dozes, Entry
<1>20. ASSUME NEW f \in Fibers, addTimer(f) PROVE Sleeps'
  <2>1. scheduled[f] = 0 /\ Entry(f) \notin callbacks
    BY <1>20 DEF addTimer, WokenOnce, OneToCome, Dozes, TypeOK
  <2> QED
    BY <1>20, <2>1 DEF addTimer, Goto, eventVars, socketVars, TypeOK, Kinds, Sleeps,
       SleepsItsTime, OneToCome, Dozes, Entry
<1>21. ASSUME NEW f \in Fibers, SleepEnds(f) PROVE Sleeps'
  BY <1>21
  DEF SleepEnds, Goto, Return, timerVars, eventVars, socketVars,
      TypeOK, Kinds, Sleeps, SleepsItsTime, OneToCome, Dozes, Entry
<1>22. ASSUME NEW cb \in Entries, CallbackSchedules(cb) PROVE Sleeps'
  <2>1. /\ cb.fiber \in Fibers /\ cb = Entry(cb.fiber) /\ kind[cb.fiber] = "sleep"
        /\ ~armed[cb.fiber] /\ expired[cb.fiber]
    BY <1>22 DEF CallbackSchedules, OneToCome, Entry, Entries, TimersFit
  <2>2. /\ callbacks' = callbacks \ {Entry(cb.fiber)}
        /\ scheduled' = [scheduled EXCEPT ![cb.fiber] = scheduled[cb.fiber] + 1]
        /\ UNCHANGED <<pc, kind, timeout, calls, result, armed, expired, registered>>
    BY <1>22, <2>1 DEF CallbackSchedules, callVars
  <2>3. SleepsItsTime'
    BY <2>1, <2>2 DEF SleepsItsTime, TypeOK
  <2>4. ~Dozes(cb.fiber)'
    BY <2>1, <2>2 DEF Dozes, Entry
  <2> QED
    BY <2>1, <2>2, <2>3, <2>4 DEF Sleeps, OneToCome, Dozes, Entry, TypeOK
<1> QED
  BY <1>1, <1>2, <1>3, <1>4, <1>5, <1>6, <1>7, <1>8, <1>9, <1>10,
     <1>11, <1>12, <1>13, <1>14, <1>15, <1>16, <1>17, <1>18, <1>19, <1>20, <1>21, <1>22
  DEF Next, FiberStep, Environment, Finished

\* The inductive invariant holds in every reachable state.
THEOREM Inductive == Spec => []IndInv
<1>1. IndInv /\ [Next]_vars => IndInv'
  BY TypedStep, WakeUpStep, TimerStep, SleepStep DEF IndInv, WakeUps, Timers, Sleeps
<1> QED
  BY InitInv, <1>1, PTL DEF Spec

\* Every variable has its type; no fiber is ever scheduled twice.
THEOREM TypeCorrect == Spec => []TypeOK
<1>1. IndInv => TypeOK
  BY DEF IndInv
<1> QED
  BY Inductive, <1>1, PTL

\* A fiber is scheduled once for each yield() of a call, and only then.
THEOREM WokenOnceHolds == Spec => []WokenOnce
<1>1. IndInv => WokenOnce
  BY DEF IndInv
<1> QED
  BY Inductive, <1>1, PTL

\* A fiber that sleeps has an event to wake it or is scheduled already.
THEOREM NoWakeupLostHolds == Spec => []NoWakeupLost
<1>1. IndInv => NoWakeupLost
  BY DEF IndInv
<1> QED
  BY Inductive, <1>1, PTL

\* Only a call whose own timer ran out returns ETIMEDOUT.
THEOREM TimeoutIsOwnHolds == Spec => []TimeoutIsOwn
<1>1. IndInv => TimeoutIsOwn
  BY DEF IndInv
<1> QED
  BY Inductive, <1>1, PTL

\* A sleep ends by its own timer and nothing else.
THEOREM SleepsItsTimeHolds == Spec => []SleepsItsTime
<1>1. IndInv => SleepsItsTime
  BY DEF IndInv
<1> QED
  BY Inductive, <1>1, PTL

\* No call returns with its timer left in the timer manager.
THEOREM NoTimerLeftHolds == Spec => []NoTimerLeft
<1>1. IndInv => NoTimerLeft
  BY DEF IndInv
<1> QED
  BY Inductive, <1>1, PTL
----------------------------------------------------------------------------
(* The implementation of BlockingCall *)

\* A connect's steps keep to w and to a connection that was begun; a sleep, which
\* adds no event, does not come to SO_ERROR.
LEMMA ConnectStep ==
    ASSUME TypeOK, OneToCome, ConnectFits, [Next]_vars
    PROVE  ConnectFits'
<1> USE IoWaitAssumption
    DEF TypeOK, ConnectFits, Fibers, Kinds, Goto, Return, callVars, socketVars
<1>1. ASSUME NEW f \in Fibers, NEW k \in Kinds, Call(f, k) PROVE ConnectFits'
  BY <1>1 DEF Call
<1>2. ASSUME NEW f \in Fibers, AttemptIo(f) PROVE ConnectFits'
  BY <1>2 DEF AttemptIo
<1>3. ASSUME NEW f \in Fibers, AttemptConnect(f) PROVE ConnectFits'
  BY <1>3 DEF AttemptConnect
<1>4. ASSUME NEW f \in Fibers, addTimer(f) \/ addConditionTimer(f) \/ addEvent(f)
      PROVE  ConnectFits'
  BY <1>4 DEF addTimer, addConditionTimer, addEvent
<1>5. ASSUME NEW f \in Fibers, addEventFails(f) PROVE ConnectFits'
  BY <1>5 DEF addEventFails, OneToCome
<1>6. ASSUME NEW f \in Fibers, yield(f) \/ Resumed(f) \/ Woken(f) \/ SleepEnds(f)
      PROVE  ConnectFits'
  BY <1>6 DEF yield, Resumed, Woken, SleepEnds
<1>7. ASSUME NEW f \in Fibers, CheckSoError(f) PROVE ConnectFits'
  BY <1>7 DEF CheckSoError
<1>8. CASE PeerAnswers
  BY <1>8 DEF PeerAnswers
<1>9. CASE UNCHANGED <<pc, kind, conn>>
  BY <1>9
<1> QED
  BY <1>1, <1>2, <1>3, <1>4, <1>5, <1>6, <1>7, <1>8, <1>9
     DEF Next, FiberStep, Environment, Finished, vars, EventFires, TimerExpires,
         CallbackBegins, CallbackCancels, CallbackSchedules, PeerSends, CloseCancels,
         CloseEnds

\* The inductive invariant with what the refinement needs of connect.
LEMMA ConnectsFit == Spec => [](IndInv /\ ConnectFits)
<1>1. Init => ConnectFits
  BY DEF Init, ConnectFits, Fibers
<1>2. IndInv => TypeOK /\ OneToCome
  BY DEF IndInv
<1> QED
  BY Inductive, <1>1, <1>2, ConnectStep, PTL DEF Spec

\* Inside a call a fiber may move as it likes, but for the step of a connect that asks.
LEMMA InsideCall ==
    ASSUME \A f \in Fibers : pc'[f] = "out" <=> pc[f] = "out",
           \A f \in Fibers : pc'[f] = "attempt" /\ pc[f] # "attempt" => kind[f] # "connect",
           \A f \in Fibers : pc[f] = "attempt" /\ pc'[f] # "attempt" => kind[f] # "connect",
           UNCHANGED <<kind, timeout, expired, result, ready, conn, fd>>
    PROVE  UNCHANGED BC!blockingVars
<1>1. Open' = Open
  BY DEF Open
<1> QED
  BY <1>1 DEF BC!blockingVars, BC!socketVars

\* A return from a call closes it.
LEMMA CallReturns ==
    ASSUME TypeOK, NEW f \in Fibers, NEW value, Return(f, value), pc[f] # "out",
           UNCHANGED <<kind, timeout, expired>>
    PROVE  /\ kind[f] # "connect" \/ pc[f] = "attempt" => Open[f] = kind[f]
           /\ kind[f] = "connect" /\ pc[f] # "attempt" => Open[f] = "connecting"
           /\ BC!Returns(f, value)
<1>1. /\ kind[f] # "connect" \/ pc[f] = "attempt" => Open[f] = kind[f]
      /\ kind[f] = "connect" /\ pc[f] # "attempt" => Open[f] = "connecting"
  BY DEF Open
<1>2. Open' = [Open EXCEPT ![f] = "none"]
  BY DEF Open, Return, Goto, TypeOK
<1> QED
  BY <1>1, <1>2 DEF BC!Returns, Return

\* The call begins.
LEMMA BeginsCall ==
    ASSUME IndInv, NEW f \in Fibers, NEW k \in Kinds, Call(f, k)
    PROVE  BC!Next
<1>1. PICK finite \in BOOLEAN :
          (k = "sleep" => finite) /\ timeout' = [timeout EXCEPT ![f] = finite]
  BY DEF Call
<1>2. Open[f] = "none" /\ Open' = [Open EXCEPT ![f] = k]
  BY DEF Open, Call, Goto, IndInv, TypeOK
<1>3. /\ expired' = [expired EXCEPT ![f] = FALSE]
      /\ result' = [result EXCEPT ![f] = "none"]
      /\ UNCHANGED <<ready, conn, fd>>
      /\ k = "connect" => f = w
      /\ k # "sleep" => fd # "closed"
  BY DEF Call, socketVars
<1>4. BC!Begins(f, k, finite)
  BY <1>1, <1>2, <1>3 DEF BC!Begins, BC!socketVars
<1> QED
  BY <1>4 DEF BC!Next, Kinds

\* What a step of the socket, of the IOManager or of a call comes to.
Blocks ==
    \/ BC!Next
    \/ \E f \in Fibers : Unwatched(f) \/ Unestablished(f)
    \/ UNCHANGED BC!blockingVars

\* What the fiber does in its call: it returns as a blocking call would, asks the peer
\* for a connection, does what its caller does not see, or takes one of the two steps
\* that no blocking call takes.
LEMMA FiberStepBlocks ==
    ASSUME IndInv, ConnectFits, NEW f \in Fibers, FiberStep(f)
    PROVE  Blocks
<1> USE DEF Blocks
<1>0. TypeOK
  BY DEF IndInv
<1>1. CASE AttemptIo(f)
  <2>1. /\ pc[f] = "attempt" /\ kind[f] = "io"
        /\ UNCHANGED <<kind, timeout, expired, conn, fd>>
    BY <1>1 DEF AttemptIo, timerVars
  <2>2. CASE fd = "closed" \/ conn \in {"none", "refused"}
    <3>1. Return(f, "error") /\ UNCHANGED ready
      BY <1>1, <2>2 DEF AttemptIo
    <3>2. BC!Fails(f)
      BY <1>0, <2>1, <2>2, <3>1, CallReturns DEF BC!Fails, BC!socketVars
    <3> QED
      BY <3>2 DEF BC!Next
  <2>3. CASE ~(fd = "closed" \/ conn \in {"none", "refused"}) /\ ready[f]
    <3>1. Return(f, "ok") /\ ready' = [ready EXCEPT ![f] = FALSE]
      BY <1>1, <2>3 DEF AttemptIo
    <3>2. BC!IsServed(f)
      BY <1>0, <2>1, <2>3, <3>1, CallReturns DEF BC!IsServed
    <3> QED
      BY <3>2 DEF BC!Next
  <2>4. CASE ~(fd = "closed" \/ conn \in {"none", "refused"}) /\ ~ready[f]
    <3>1. UNCHANGED <<result, ready>> /\ \A g \in Fibers : pc'[g] = "out" <=> pc[g] = "out"
      BY <1>0, <1>1, <2>1, <2>4 DEF AttemptIo, Goto, TypeOK
    <3>2. \A g \in Fibers :
             /\ pc'[g] = "attempt" /\ pc[g] # "attempt" => kind[g] # "connect"
             /\ pc[g] = "attempt" /\ pc'[g] # "attempt" => kind[g] # "connect"
      BY <1>0, <1>1, <2>1, <2>4 DEF AttemptIo, Goto, TypeOK
    <3> QED
      BY <2>1, <3>1, <3>2, InsideCall
  <2> QED
    BY <2>2, <2>3, <2>4
<1>2. CASE AttemptConnect(f)
  <2>1. /\ pc[f] = "attempt" /\ kind[f] = "connect"
        /\ UNCHANGED <<kind, timeout, expired, ready, fd>>
    BY <1>2 DEF AttemptConnect, timerVars
  <2>2. CASE Return(f, "error") /\ UNCHANGED conn
    <3>1. Open[f] = "connect" /\ BC!Returns(f, "error")
      BY <1>0, <2>1, <2>2, CallReturns
    <3>2. CASE fd = "closed" \/ conn # "none"
      BY <2>1, <2>2, <3>1, <3>2 DEF BC!Fails, BC!socketVars, BC!Next
    <3>3. CASE fd # "closed" /\ conn = "none"
      BY <2>1, <2>2, <3>1, <3>3 DEF BC!Asks, BC!Next
    <3> QED
      BY <3>2, <3>3
  <2>3. CASE conn = "none" /\ fd # "closed" /\ Return(f, "ok") /\ conn' = "up"
    <3>1. BC!Asks(f)
      BY <1>0, <2>1, <2>3, CallReturns DEF BC!Asks
    <3> QED
      BY <3>1 DEF BC!Next
  <2>4. CASE /\ conn = "none" /\ fd # "closed"
             /\ Goto(f, "arm") /\ conn' = "pending" /\ UNCHANGED result
    <3>1. Open[f] = "connect" /\ Open' = [Open EXCEPT ![f] = "connecting"]
      BY <1>0, <2>1, <2>4 DEF Open, Goto, TypeOK
    <3>2. BC!Asks(f)
      BY <2>1, <2>4, <3>1 DEF BC!Asks
    <3> QED
      BY <3>2 DEF BC!Next
  <2> QED
    BY <1>2, <2>2, <2>3, <2>4 DEF AttemptConnect
<1>3. CASE addEventFails(f) /\ kind[f] = "io"
  BY <1>3 DEF Unwatched
<1>4. CASE Woken(f) /\ cancelled[f]
  <2>1. /\ pc[f] = "woken" /\ kind[f] \in {"io", "connect"} /\ Return(f, "timeout")
        /\ UNCHANGED <<kind, timeout, expired, ready, conn, fd>>
    BY <1>0, <1>4 DEF Woken, socketVars, TypeOK, Kinds
  <2>2. timeout[f] /\ expired[f]
    BY <1>4 DEF IndInv, TimeoutIsOwn
  <2>3. BC!TimesOut(f)
    BY <1>0, <2>1, <2>2, CallReturns DEF BC!TimesOut, BC!socketVars
  <2> QED
    BY <2>3 DEF BC!Next
<1>5. CASE SleepEnds(f)
  <2>1. /\ pc[f] = "woken" /\ kind[f] = "sleep" /\ Return(f, "ok")
        /\ UNCHANGED <<kind, timeout, expired, ready, conn, fd>>
    BY <1>5 DEF SleepEnds, socketVars, timerVars
  <2>2. expired[f]
    BY <2>1 DEF IndInv, SleepsItsTime
  <2>3. BC!Sleeps(f)
    BY <1>0, <2>1, <2>2, CallReturns DEF BC!Sleeps, BC!socketVars
  <2> QED
    BY <2>3 DEF BC!Next
<1>6. CASE CheckSoError(f)
  <2>1. /\ pc[f] = "check" /\ kind[f] = "connect" /\ conn \in {"pending", "up", "refused"}
        /\ UNCHANGED <<kind, timeout, expired, ready, fd>>
    BY <1>0, <1>6, IoWaitAssumption
       DEF CheckSoError, ConnectFits, Fibers, TypeOK, timerVars
  <2>2. CASE fd = "closed"
    <3>1. Return(f, "error") /\ UNCHANGED conn
      BY <1>6, <2>2 DEF CheckSoError
    <3>2. BC!Fails(f)
      BY <1>0, <2>1, <2>2, <3>1, CallReturns DEF BC!Fails, BC!socketVars
    <3> QED
      BY <3>2 DEF BC!Next
  <2>3. CASE fd # "closed" /\ conn = "refused"
    <3>1. Return(f, "error") /\ conn' = "none"
      BY <1>6, <2>3 DEF CheckSoError
    <3>2. BC!IsRefused(f)
      BY <1>0, <2>1, <2>3, <3>1, CallReturns DEF BC!IsRefused
    <3> QED
      BY <3>2 DEF BC!Next
  <2>4. CASE fd # "closed" /\ conn = "up"
    <3>1. Return(f, "ok") /\ UNCHANGED conn
      BY <1>6, <2>4 DEF CheckSoError
    <3>2. BC!Connects(f)
      BY <1>0, <2>1, <2>4, <3>1, CallReturns DEF BC!Connects, BC!socketVars
    <3> QED
      BY <3>2 DEF BC!Next
  <2>5. CASE fd # "closed" /\ conn = "pending"
    BY <1>6, <2>5 DEF Unestablished
  <2> QED
    BY <2>1, <2>2, <2>3, <2>4, <2>5
<1>7. CASE \/ addTimer(f) \/ addConditionTimer(f) \/ addEvent(f) \/ yield(f) \/ Resumed(f)
           \/ addEventFails(f) /\ kind[f] # "io"
           \/ Woken(f) /\ ~cancelled[f]
  <2>1. \A g \in Fibers : pc'[g] = "out" <=> pc[g] = "out"
    BY <1>0, <1>7
       DEF addTimer, addConditionTimer, addEvent, yield, Resumed, addEventFails, Woken,
           Goto, TypeOK
  <2>2. UNCHANGED <<kind, timeout, expired, result, ready, conn, fd>>
    BY <1>7
       DEF addTimer, addConditionTimer, addEvent, yield, Resumed, addEventFails, Woken,
           timerVars, socketVars
  <2>3. \A g \in Fibers :
           /\ pc'[g] = "attempt" /\ pc[g] # "attempt" => kind[g] # "connect"
           /\ pc[g] = "attempt" /\ pc'[g] # "attempt" => kind[g] # "connect"
    BY <1>0, <1>7
       DEF addTimer, addConditionTimer, addEvent, yield, Resumed, addEventFails, Woken,
           Goto, TypeOK
  <2> QED
    BY <2>1, <2>2, <2>3, InsideCall
<1> QED
  BY <1>1, <1>2, <1>3, <1>4, <1>5, <1>6, <1>7 DEF FiberStep

\* The IOManager shows only by the time that runs out, the rest of the world as it is.
LEMMA OthersBlock ==
    ASSUME IndInv, NEW f \in Fibers,
           \/ EventFires(f) \/ TimerExpires(f) \/ PeerSends(f)
           \/ PeerAnswers \/ CloseCancels \/ CloseEnds
           \/ \E cb \in Entries :
                 CallbackBegins(cb) \/ CallbackCancels(cb) \/ CallbackSchedules(cb)
    PROVE  Blocks
<1> USE DEF Blocks
<1>0. pc' = pc /\ kind' = kind /\ timeout' = timeout /\ result' = result
  BY DEF EventFires, TimerExpires, PeerSends, PeerAnswers, CloseCancels, CloseEnds,
         CallbackBegins, CallbackCancels, CallbackSchedules, callVars
<1>1. Open' = Open
  BY <1>0 DEF Open
<1>2. CASE TimerExpires(f)
  <2>1. timeout[f] /\ Open[f] # "none"
    BY <1>2 DEF TimerExpires, IndInv, TypeOK, Kinds, TimersFit, NoTimerLeft, Open
  <2>2. BC!RunsOut(f)
    BY <1>0, <1>1, <1>2, <2>1 DEF TimerExpires, socketVars, BC!RunsOut, BC!socketVars
  <2> QED
    BY <2>2 DEF BC!Next
<1>3. CASE PeerSends(f)
  <2>1. BC!PeerSends(f)
    BY <1>0, <1>1, <1>3 DEF PeerSends, timerVars, BC!PeerSends
  <2> QED
    BY <2>1 DEF BC!Next
<1>4. CASE PeerAnswers
  <2>1. BC!PeerAnswers
    BY <1>0, <1>1, <1>4 DEF PeerAnswers, timerVars, BC!PeerAnswers
  <2> QED
    BY <2>1 DEF BC!Next
<1>5. CASE CloseCancels \/ CloseEnds
  <2>1. BC!Closes
    BY <1>0, <1>1, <1>5 DEF CloseCancels, CloseEnds, timerVars, BC!Closes
  <2> QED
    BY <2>1 DEF BC!Next
<1>6. ASSUME UNCHANGED <<expired, socketVars>> PROVE UNCHANGED BC!blockingVars
  BY <1>0, <1>1, <1>6 DEF socketVars, BC!blockingVars, BC!socketVars
<1>7. CASE EventFires(f)
  BY <1>6, <1>7 DEF EventFires, timerVars
<1>8. ASSUME NEW cb \in Entries,
             CallbackBegins(cb) \/ CallbackCancels(cb) \/ CallbackSchedules(cb)
      PROVE  UNCHANGED BC!blockingVars
  BY <1>6, <1>8 DEF CallbackBegins, CallbackCancels, CallbackSchedules
<1> QED
  BY <1>2, <1>3, <1>4, <1>5, <1>7, <1>8

\* A hooked call returns what the call that blocks would, for its reason and no other,
\* and takes no more from the socket, however its event, its timer, their callbacks and
\* close() race and whatever earlier calls have left behind, but for two named steps: a
\* read or write whose event cannot be added, and the connect that finds SO_ERROR 0
\* before it is connected.
THEOREM HookedCallsBlock == Spec => ImplementsBlockingCall
<1>1. Init => BC!Init
  BY DEF Init, BC!Init, Open
<1>2. ASSUME IndInv, ConnectFits, [Next]_vars
      PROVE  [BC!Next \/ \E f \in Fibers : Unwatched(f) \/ Unestablished(f)]_(BC!blockingVars)
  <2>1. CASE UNCHANGED vars
    BY <2>1, InsideCall DEF vars, callVars, timerVars, socketVars
  <2>2. CASE ~UNCHANGED vars
    <3>1. Blocks
      BY <1>2, <2>2, BeginsCall, FiberStepBlocks, OthersBlock
         DEF Blocks, Next, Environment, Finished, Fibers
    <3> QED
      BY <3>1 DEF Blocks
  <2> QED
    BY <2>1, <2>2
<1> QED
  BY <1>1, <1>2, ConnectsFit, PTL DEF Spec, ImplementsBlockingCall
=============================================================================
