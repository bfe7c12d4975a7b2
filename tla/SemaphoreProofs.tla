-------------------------- MODULE SemaphoreProofs --------------------------
(***************************************************************************)
(* Proofs about Semaphore.tla, for any threads and any semaphores: the     *)
(* mutex makes what wait() reads stable, the semaphore implements          *)
(* CountingSemaphore, and no signal is lost.  The last is a matter of      *)
(* counting and needs that the threads are finitely many.                  *)
(***************************************************************************)
EXTENDS Semaphore, FiniteSetTheorems, TLAPS

\* What the mutex protects, and the types.
Safe == TypeOK /\ LockedIsStable

AllLabels == {"out"} \cup WaitLabels \cup SignalLabels

\* Goto moves one thread of one semaphore and no other.
LEMMA Moves ==
    ASSUME TypeOK, NEW s \in Semaphores, NEW p \in Procs, NEW from, NEW to \in AllLabels,
           Goto(s, p, from, to)
    PROVE  /\ at[s][p] = from
           /\ at' \in [Semaphores -> [Procs -> AllLabels]]
           /\ \A u \in Semaphores, q \in Procs :
                 at'[u][q] = IF u = s /\ q = p THEN to ELSE at[u][q]
BY DEF TypeOK, Goto, AllLabels

\* notify_one() moves the thread that signals and the one it picks.
LEMMA Picks ==
    ASSUME TypeOK, NEW s \in Semaphores, NEW p \in Procs, NEW q \in Procs, Wakes(s, p, q)
    PROVE  /\ q # p /\ at[s][p] = "notify" /\ at[s][q] = "asleep"
           /\ at' \in [Semaphores -> [Procs -> AllLabels]]
           /\ \A u \in Semaphores, t \in Procs :
                 at'[u][t] = IF u = s /\ t = p THEN "unlock"
                             ELSE IF u = s /\ t = q THEN "waitLock" ELSE at[u][t]
<1>1. q # p /\ at[s][p] = "notify" /\ at[s][q] = "asleep"
  BY DEF Wakes
<1>2. at' \in [Semaphores -> [Procs -> AllLabels]]
  BY DEF Wakes, TypeOK, AllLabels, WaitLabels, SignalLabels
<1>3. \A u \in Semaphores, t \in Procs :
         at'[u][t] = IF u = s /\ t = p THEN "unlock"
                     ELSE IF u = s /\ t = q THEN "waitLock" ELSE at[u][t]
  BY <1>1 DEF Wakes, TypeOK
<1> QED
  BY <1>1, <1>2, <1>3

\* Nobody is in a call at first.
LEMMA SafeInit == Init => Safe
BY DEF Init, Safe, TypeOK, LockedIsStable, Locked, WaitLabels, SignalLabels

\* Each line of wait() and signal() keeps the mutex's promise: only the thread that
\* holds it looks at the count or changes it.
LEMMA SafeStep == Safe /\ [Next]_semVars => Safe'
<1> SUFFICES ASSUME Safe, [Next]_semVars PROVE Safe'
  OBVIOUS
<1> USE DEF Safe, LockedIsStable, Locked
<1>1. CASE UNCHANGED semVars
  BY <1>1 DEF semVars, TypeOK
<1>2. ASSUME NEW s \in Semaphores, Construct(s) PROVE Safe'
  BY <1>2 DEF Construct, TypeOK
<1>3. ASSUME NEW s \in Semaphores, NEW p \in Procs, wait(s, p) PROVE Safe'
  <2>1. /\ at' \in [Semaphores -> [Procs -> AllLabels]]
        /\ \A u \in Semaphores, q \in Procs :
              at'[u][q] = IF u = s /\ q = p THEN "waitLock" ELSE at[u][q]
    BY <1>3, Moves DEF wait, AllLabels, WaitLabels
  <2> QED
    BY <1>3, <2>1 DEF wait, TypeOK, AllLabels
<1>4. ASSUME NEW s \in Semaphores, NEW p \in Procs, WaitLocks(s, p) PROVE Safe'
  BY <1>4, Moves DEF WaitLocks, Unlocked, TypeOK, AllLabels, WaitLabels
<1>5. ASSUME NEW s \in Semaphores, NEW p \in Procs, Tests(s, p) PROVE Safe'
  <2> DEFINE to == IF count[s] = 0 THEN "block" ELSE "take"
  <2>1. to \in AllLabels
    BY DEF AllLabels, WaitLabels
  <2>2. Goto(s, p, "test", to) /\ UNCHANGED count
    BY <1>5 DEF Tests
  <2>3. count[s] \in Nat
    BY DEF TypeOK
  <2> QED
    BY <2>1, <2>2, <2>3, Moves DEF TypeOK, AllLabels
<1>6. ASSUME NEW s \in Semaphores, NEW p \in Procs, Blocks(s, p) PROVE Safe'
  BY <1>6, Moves DEF Blocks, TypeOK, AllLabels, WaitLabels
<1>7. ASSUME NEW s \in Semaphores, NEW p \in Procs, WakesUnasked(s, p) PROVE Safe'
  <2>1. /\ at' \in [Semaphores -> [Procs -> AllLabels]]
        /\ \A u \in Semaphores, q \in Procs :
              at'[u][q] = IF u = s /\ q = p THEN "waitLock" ELSE at[u][q]
    BY <1>7, Moves DEF WakesUnasked, AllLabels, WaitLabels
  <2> QED
    BY <1>7, <2>1 DEF WakesUnasked, TypeOK, AllLabels
<1>8. ASSUME NEW s \in Semaphores, NEW p \in Procs, Takes(s, p) PROVE Safe'
  <2>1. count[s] > 0 /\ count \in [Semaphores -> Nat]
    BY <1>8 DEF Takes, Goto, TypeOK
  <2>2. count' \in [Semaphores -> Nat]
    BY <1>8, <2>1 DEF Takes
  <2> QED
    BY <1>8, <2>1, <2>2, Moves DEF Takes, TypeOK, AllLabels
<1>9. ASSUME NEW s \in Semaphores, NEW p \in Procs, signal(s, p) PROVE Safe'
  BY <1>9, Moves DEF signal, TypeOK, AllLabels, SignalLabels
<1>10. ASSUME NEW s \in Semaphores, NEW p \in Procs, SignalLocks(s, p) PROVE Safe'
  BY <1>10, Moves DEF SignalLocks, Unlocked, TypeOK, AllLabels, SignalLabels
<1>11. ASSUME NEW s \in Semaphores, NEW p \in Procs, Increments(s, p) PROVE Safe'
  BY <1>11, Moves DEF Increments, TypeOK, AllLabels, SignalLabels
<1>12. ASSUME NEW s \in Semaphores, NEW p \in Procs, Notifies(s, p) PROVE Safe'
  <2>1. CASE Goto(s, p, "notify", "unlock")
    BY <1>12, <2>1, Moves DEF Notifies, TypeOK, AllLabels, SignalLabels
  <2>2. ASSUME NEW q \in Procs, Wakes(s, p, q) PROVE Safe'
    BY <1>12, <2>2, Picks DEF Notifies, TypeOK, AllLabels
  <2> QED
    BY <1>12, <2>1, <2>2 DEF Notifies
<1>13. ASSUME NEW s \in Semaphores, NEW p \in Procs, Unlocks(s, p) PROVE Safe'
  BY <1>13, Moves DEF Unlocks, TypeOK, AllLabels
<1> QED
  BY <1>1, <1>2, <1>3, <1>4, <1>5, <1>6, <1>7, <1>8, <1>9, <1>10, <1>11, <1>12, <1>13
     DEF Next, WaitStep, SignalStep

\* A count is never negative, and what a thread reads under _mutex stays true.
THEOREM SemaphoreSafe == Spec => [](TypeOK /\ LockedIsStable)
BY SafeInit, SafeStep, PTL DEF Spec, Safe
----------------------------------------------------------------------------
(* Semaphore implements CountingSemaphore *)

\* What the move of one thread does to the requests.
LEMMA Maps ==
    ASSUME TypeOK, NEW s \in Semaphores, NEW p \in Procs, NEW from, NEW to \in AllLabels,
           Goto(s, p, from, to)
    PROVE  /\ Requests[s][p] = Asked(from)
           /\ Requests' = [Requests EXCEPT ![s][p] = Asked(to)]
           /\ Asked(to) = Asked(from) => Requests' = Requests
<1>1. Requests[s][p] = Asked(from)
  BY DEF Requests, Goto
<1>2. Requests' = [u \in Semaphores |-> [t \in Procs |->
                      IF u = s /\ t = p THEN Asked(to) ELSE Asked(at[u][t])]]
  BY Moves DEF Requests
<1>3. [Requests EXCEPT ![s][p] = Asked(to)]
          = [u \in Semaphores |-> [t \in Procs |->
                IF u = s /\ t = p THEN Asked(to) ELSE Asked(at[u][t])]]
  BY DEF Requests
<1>4. Asked(to) = Asked(from) =>
          [u \in Semaphores |-> [t \in Procs |->
              IF u = s /\ t = p THEN Asked(to) ELSE Asked(at[u][t])]] = Requests
  BY DEF Requests, Goto
<1> QED
  BY <1>1, <1>2, <1>3, <1>4

\* A step that stays inside wait(), or inside signal() on either side of the
\* increment, is a stutter.
LEMMA InsideStutters ==
    ASSUME TypeOK, NEW s \in Semaphores, NEW p \in Procs,
           \/ WaitStep(s, p) \/ WakesUnasked(s, p) \/ SignalLocks(s, p)
           \/ Notifies(s, p) \/ Unlocks(s, p)
    PROVE  UNCHANGED Counting!semVars
<1>1. UNCHANGED count
  BY DEF WaitStep, WaitLocks, Tests, Blocks, WakesUnasked, SignalLocks, Notifies, Unlocks
<1> SUFFICES Requests' = Requests
  BY <1>1 DEF Counting!semVars
<1> DEFINE P == {"waitLock", "test", "block", "asleep", "take"}
<1>2. /\ \A l \in P : l \in AllLabels /\ Asked(l) = "P"
      /\ Asked("signalLock") = "V" /\ Asked("increment") = "V"
      /\ Asked("notify") = "none" /\ Asked("unlock") = "none" /\ Asked("out") = "none"
      /\ {"increment", "unlock", "out"} \subseteq AllLabels
  BY DEF Asked, WaitLabels, SignalLabels, AllLabels
<1>3. ASSUME NEW from \in P, NEW to \in P, Goto(s, p, from, to) PROVE Requests' = Requests
  BY <1>2, <1>3, Maps
<1>4. CASE WaitLocks(s, p)
  BY <1>3, <1>4 DEF WaitLocks
<1>5. CASE Tests(s, p)
  BY <1>3, <1>5 DEF Tests
<1>6. CASE Blocks(s, p)
  BY <1>3, <1>6 DEF Blocks
<1>7. CASE WakesUnasked(s, p)
  BY <1>3, <1>7 DEF WakesUnasked
<1>8. CASE SignalLocks(s, p)
  BY <1>2, <1>8, Maps DEF SignalLocks
<1>9. CASE Notifies(s, p)
  <2>1. CASE Goto(s, p, "notify", "unlock")
    BY <1>2, <2>1, Maps
  <2>2. ASSUME NEW q \in Procs, Wakes(s, p, q) PROVE Requests' = Requests
    <3>1. \A u \in Semaphores, t \in Procs : Asked(at'[u][t]) = Asked(at[u][t])
      BY <1>2, <2>2, Picks
    <3> QED
      BY <3>1 DEF Requests
  <2> QED
    BY <1>9, <2>1, <2>2 DEF Notifies
<1>10. CASE Unlocks(s, p)
  BY <1>2, <1>10, Maps DEF Unlocks
<1> QED
  BY <1>4, <1>5, <1>6, <1>7, <1>8, <1>9, <1>10 DEF WaitStep

\* wait() asks, takes as P() does; signal() asks, increments as V() does.
LEMMA StepCounts == Safe /\ [Next]_semVars => [Counting!Next]_Counting!semVars
<1> SUFFICES ASSUME Safe, [Next]_semVars PROVE [Counting!Next]_Counting!semVars
  OBVIOUS
<1>1. TypeOK /\ LockedIsStable
  BY DEF Safe
<1>2. /\ Asked("out") = "none" /\ Asked("waitLock") = "P" /\ Asked("take") = "P"
      /\ Asked("signalLock") = "V" /\ Asked("increment") = "V" /\ Asked("notify") = "none"
      /\ {"out", "waitLock", "signalLock", "notify"} \subseteq AllLabels
  BY DEF Asked, AllLabels, WaitLabels, SignalLabels
<1>3. CASE UNCHANGED semVars
  BY <1>3 DEF semVars, Counting!semVars, Requests
<1>4. ASSUME NEW s \in Semaphores, Construct(s) PROVE Counting!Renew(s)
  <2>1. \A p \in Procs : Requests[s][p] = "none"
    BY <1>2, <1>4 DEF Construct, Requests
  <2>2. Requests' = Requests
    BY <1>4 DEF Construct, Requests
  <2> QED
    BY <1>4, <2>1, <2>2 DEF Construct, Counting!Renew
<1>5. ASSUME NEW s \in Semaphores, NEW p \in Procs, wait(s, p)
      PROVE  Counting!Ask(s, p, "P")
  <2>1. Requests' = [Requests EXCEPT ![s][p] = "P"] /\ Requests[s][p] = "none"
    BY <1>1, <1>2, <1>5, Maps DEF wait
  <2> QED
    BY <1>5, <2>1 DEF wait, Counting!Ask
<1>6. ASSUME NEW s \in Semaphores, NEW p \in Procs, Takes(s, p) PROVE Counting!P(s, p)
  <2>1. Requests' = [Requests EXCEPT ![s][p] = "none"] /\ Requests[s][p] = "P"
    BY <1>1, <1>2, <1>6, Maps DEF Takes
  <2>2. count[s] > 0 /\ count' = [count EXCEPT ![s] = count[s] - 1]
    BY <1>1, <1>6 DEF Takes, Goto, LockedIsStable
  <2> QED
    BY <2>1, <2>2 DEF Counting!P
<1>7. ASSUME NEW s \in Semaphores, NEW p \in Procs, signal(s, p)
      PROVE  Counting!Ask(s, p, "V")
  <2>1. Requests' = [Requests EXCEPT ![s][p] = "V"] /\ Requests[s][p] = "none"
    BY <1>1, <1>2, <1>7, Maps DEF signal
  <2> QED
    BY <1>7, <2>1 DEF signal, Counting!Ask
<1>8. ASSUME NEW s \in Semaphores, NEW p \in Procs, Increments(s, p)
      PROVE  Counting!V(s, p)
  <2>1. Requests' = [Requests EXCEPT ![s][p] = "none"] /\ Requests[s][p] = "V"
    BY <1>1, <1>2, <1>8, Maps DEF Increments
  <2> QED
    BY <1>8, <2>1 DEF Increments, Counting!V
<1>9. ASSUME Next PROVE Counting!Next \/ UNCHANGED Counting!semVars
  BY <1>1, <1>4, <1>5, <1>6, <1>7, <1>8, <1>9, InsideStutters
     DEF Next, SignalStep, Counting!Next
<1> QED
  BY <1>3, <1>9

\* A semaphore made of a mutex and a condition variable is a counting semaphore.
THEOREM ImplementsCounting == Spec => Counting!Spec
<1>1. Init => Counting!Init
  BY DEF Init, Counting!Init, Requests, Asked, WaitLabels
<1> QED
  BY <1>1, SafeInit, SafeStep, StepCounts, PTL DEF Spec, Counting!Spec
----------------------------------------------------------------------------
(* No signal is lost *)

Heard(s) == Asleep(s) = {} \/ count[s] <= Cardinality(Awake(s))

\* A semaphore the step does not touch is as before.
LEMMA Untouched ==
    ASSUME NEW s, Heard(s), at'[s] = at[s], count'[s] = count[s]
    PROVE  Heard(s)'
<1>1. Asleep(s)' = Asleep(s) /\ Awake(s)' = Awake(s)
  BY DEF Asleep, Awake
<1> QED
  BY <1>1 DEF Heard

\* A step that adds nothing to the count, puts nobody to sleep and lets nobody who
\* was awake go.
LEMMA NoneLeaves ==
    ASSUME IsFiniteSet(Procs), NEW s, Heard(s), count'[s] = count[s], count[s] \in Nat,
           Asleep(s)' \subseteq Asleep(s), Awake(s) \subseteq Awake(s)'
    PROVE  Heard(s)'
<1>1. IsFiniteSet(Awake(s)') /\ IsFiniteSet(Awake(s))
  BY FS_Subset DEF Awake
<1>2. Cardinality(Awake(s)) <= Cardinality(Awake(s)')
  BY <1>1, FS_Subset
<1>3. Cardinality(Awake(s)) \in Nat /\ Cardinality(Awake(s)') \in Nat
  BY <1>1, FS_CardinalityType
<1>4. Cardinality(Awake(s)') = Cardinality(Awake(s))'
  OBVIOUS
<1> QED
  BY <1>2, <1>3, <1>4 DEF Heard

\* There is nothing to hear when the count is zero.
LEMMA NothingToHear ==
    ASSUME IsFiniteSet(Procs), NEW s, count'[s] = 0
    PROVE  Heard(s)'
<1>1. IsFiniteSet(Awake(s)')
  BY FS_Subset DEF Awake
<1>2. Cardinality(Awake(s)') \in Nat
  BY <1>1, FS_CardinalityType
<1> QED
  BY <1>2 DEF Heard

LEMMA HeardStep ==
    ASSUME IsFiniteSet(Procs)
    PROVE  Safe /\ NoSignalLost /\ [Next]_semVars => NoSignalLost'
<1> SUFFICES ASSUME Safe, NoSignalLost, [Next]_semVars PROVE NoSignalLost'
  OBVIOUS
<1>1. /\ TypeOK /\ LockedIsStable
      /\ \A s \in Semaphores : Heard(s) /\ count[s] \in Nat
  BY DEF Safe, NoSignalLost, Heard, TypeOK
<1> SUFFICES ASSUME NEW u \in Semaphores PROVE Heard(u)'
  BY DEF NoSignalLost, Heard
<1>2. CASE UNCHANGED semVars
  BY <1>1, <1>2, Untouched DEF semVars
<1>3. ASSUME NEW s \in Semaphores, Construct(s) PROVE Heard(u)'
  <2>1. CASE u = s
    BY <1>1, <1>3, <2>1, NothingToHear DEF Construct, TypeOK
  <2>2. CASE u # s
    BY <1>1, <1>3, <2>2, Untouched DEF Construct, TypeOK
  <2> QED
    BY <2>1, <2>2
<1>4. ASSUME NEW s \in Semaphores, NEW p \in Procs, NEW from, NEW to \in AllLabels,
             Goto(s, p, from, to), UNCHANGED count, u = s, to # "asleep",
             from \in {"waitLock", "test", "take", "notify"} =>
                 to \in {"waitLock", "test", "take", "notify"}
      PROVE  Heard(u)'
  <2>1. /\ at[s][p] = from
        /\ \A q \in Procs : at'[s][q] = IF q = p THEN to ELSE at[s][q]
    BY <1>1, <1>4, Moves
  <2>2. Asleep(s)' \subseteq Asleep(s)
    BY <1>4, <2>1 DEF Asleep
  <2>3. Awake(s) \subseteq Awake(s)'
    BY <1>4, <2>1 DEF Awake
  <2> QED
    BY <1>1, <1>4, <2>2, <2>3, NoneLeaves
<1>5. ASSUME NEW s \in Semaphores, NEW p \in Procs, u = s,
             wait(s, p) \/ WaitLocks(s, p) \/ WakesUnasked(s, p) \/ signal(s, p)
                 \/ SignalLocks(s, p) \/ Unlocks(s, p)
      PROVE  Heard(u)'
  <2>1. {"waitLock", "test", "signalLock", "increment", "out"} \subseteq AllLabels
    BY DEF AllLabels, WaitLabels, SignalLabels
  <2> QED
    BY <1>4, <1>5, <2>1
       DEF wait, WaitLocks, WakesUnasked, signal, SignalLocks, Unlocks
<1>6. ASSUME NEW s \in Semaphores, NEW p \in Procs, u = s, Tests(s, p) PROVE Heard(u)'
  <2>1. CASE count[s] = 0
    BY <1>6, <2>1, NothingToHear DEF Tests
  <2>2. CASE count[s] # 0
    <3>1. "take" \in AllLabels
      BY DEF AllLabels, WaitLabels
    <3> QED
      BY <1>4, <1>6, <2>2, <3>1 DEF Tests
  <2> QED
    BY <2>1, <2>2
<1>7. ASSUME NEW s \in Semaphores, NEW p \in Procs, u = s, Blocks(s, p) PROVE Heard(u)'
  <2>1. count[s] = 0
    BY <1>1, <1>7 DEF Blocks, Goto, LockedIsStable
  <2> QED
    BY <1>7, <2>1, NothingToHear DEF Blocks
<1>8. ASSUME NEW s \in Semaphores, NEW p \in Procs, u = s, Takes(s, p) PROVE Heard(u)'
  <2>1. /\ at[s][p] = "take"
        /\ \A q \in Procs : at'[s][q] = IF q = p THEN "out" ELSE at[s][q]
    BY <1>1, <1>8, Moves DEF Takes, AllLabels
  <2>2. Awake(s)' = Awake(s) \ {p} /\ p \in Awake(s)
    BY <2>1 DEF Awake
  <2>3. Asleep(s)' = Asleep(s)
    BY <2>1 DEF Asleep
  <2>4. IsFiniteSet(Awake(s))
    BY FS_Subset DEF Awake
  <2>5. Cardinality(Awake(s) \ {p}) = Cardinality(Awake(s)) - 1
    BY <2>2, <2>4, FS_RemoveElement
  <2>6. Cardinality(Awake(s)) \in Nat
    BY <2>4, FS_CardinalityType
  <2>7. count'[s] = count[s] - 1
    BY <1>1, <1>8 DEF Takes, TypeOK
  <2>8. Cardinality(Awake(s))' = Cardinality(Awake(s)) - 1
    BY <2>2, <2>5
  <2> QED
    BY <1>1, <1>8, <2>3, <2>6, <2>7, <2>8 DEF Heard
<1>9. ASSUME NEW s \in Semaphores, NEW p \in Procs, u = s, Increments(s, p)
      PROVE  Heard(u)'
  <2>1. /\ at[s][p] = "increment"
        /\ \A q \in Procs : at'[s][q] = IF q = p THEN "notify" ELSE at[s][q]
    BY <1>1, <1>9, Moves DEF Increments, AllLabels, SignalLabels
  <2>2. Awake(s)' = Awake(s) \cup {p} /\ p \notin Awake(s)
    BY <2>1 DEF Awake
  <2>3. Asleep(s)' = Asleep(s)
    BY <2>1 DEF Asleep
  <2>4. IsFiniteSet(Awake(s))
    BY FS_Subset DEF Awake
  <2>5. Cardinality(Awake(s) \cup {p}) = Cardinality(Awake(s)) + 1
    BY <2>2, <2>4, FS_AddElement
  <2>6. Cardinality(Awake(s)) \in Nat
    BY <2>4, FS_CardinalityType
  <2>7. count'[s] = count[s] + 1
    BY <1>1, <1>9 DEF Increments, TypeOK
  <2>8. Cardinality(Awake(s))' = Cardinality(Awake(s)) + 1
    BY <2>2, <2>5
  <2> QED
    BY <1>1, <1>9, <2>3, <2>6, <2>7, <2>8 DEF Heard
<1>10. ASSUME NEW s \in Semaphores, NEW p \in Procs, u = s, Notifies(s, p)
       PROVE  Heard(u)'
  <2>1. CASE Asleep(s) = {} /\ Goto(s, p, "notify", "unlock")
    <3>1. \A q \in Procs : at'[s][q] = IF q = p THEN "unlock" ELSE at[s][q]
      BY <1>1, <2>1, Moves DEF AllLabels, SignalLabels
    <3>2. Asleep(s)' = {}
      BY <2>1, <3>1 DEF Asleep
    <3> QED
      BY <1>10, <3>2 DEF Heard
  <2>2. ASSUME NEW q \in Procs, Wakes(s, p, q) PROVE Heard(u)'
    <3>1. /\ q # p /\ at[s][p] = "notify" /\ at[s][q] = "asleep"
          /\ \A t \in Procs : at'[s][t] = IF t = p THEN "unlock"
                                       ELSE IF t = q THEN "waitLock" ELSE at[s][t]
      BY <1>1, <2>2, Picks
    <3>2. Awake(s)' = (Awake(s) \ {p}) \cup {q} /\ p \in Awake(s) /\ q \notin Awake(s)
      BY <3>1 DEF Awake
    <3>3. Asleep(s) # {}
      BY <3>1 DEF Asleep
    <3>4. IsFiniteSet(Awake(s)) /\ IsFiniteSet(Awake(s) \ {p})
      <4>1. IsFiniteSet(Awake(s))
        BY FS_Subset DEF Awake
      <4> QED
        BY <4>1, FS_RemoveElement
    <3>5. Cardinality(Awake(s) \ {p}) = Cardinality(Awake(s)) - 1
      BY <3>2, <3>4, FS_RemoveElement
    <3>6. Cardinality((Awake(s) \ {p}) \cup {q}) = Cardinality(Awake(s) \ {p}) + 1
      BY <3>2, <3>4, FS_AddElement
    <3>7. Cardinality(Awake(s)) \in Nat
      BY <3>4, FS_CardinalityType
    <3>8. Cardinality(Awake(s))' = Cardinality(Awake(s))
      <4>1. Cardinality(Awake(s))' = Cardinality((Awake(s) \ {p}) \cup {q})
        BY <3>2
      <4> QED
        BY <4>1, <3>5, <3>6, <3>7
    <3>9. count'[s] = count[s]
      BY <1>10 DEF Notifies
    <3> QED
      BY <1>1, <1>10, <3>3, <3>8, <3>9 DEF Heard
  <2> QED
    BY <1>10, <2>1, <2>2 DEF Notifies
<1>11. ASSUME NEW s \in Semaphores, NEW p \in Procs, u # s,
              wait(s, p) \/ WaitStep(s, p) \/ WakesUnasked(s, p) \/ Takes(s, p)
                 \/ signal(s, p) \/ SignalStep(s, p) \/ Unlocks(s, p)
       PROVE  Heard(u)'
  <2>1. at'[u] = at[u]
    BY <1>1, <1>11 DEF wait, WaitStep, WaitLocks, Tests, Blocks, WakesUnasked, Takes, signal,
       SignalStep, SignalLocks, Increments, Notifies, Wakes, Unlocks, Goto, TypeOK
  <2>2. count'[u] = count[u]
    BY <1>1, <1>11 DEF wait, WaitStep, WaitLocks, Tests, Blocks, WakesUnasked, Takes, signal,
       SignalStep, SignalLocks, Increments, Notifies, Unlocks, TypeOK
  <2> QED
    BY <1>1, <2>1, <2>2, Untouched
<1> QED
  BY <1>2, <1>3, <1>5, <1>6, <1>7, <1>8, <1>9, <1>10, <1>11 DEF Next, WaitStep, SignalStep

\* Of finitely many threads none sleeps on a semaphore that counts more than the
\* threads that are awake will take.
THEOREM NoSignalIsLost ==
    ASSUME IsFiniteSet(Procs)
    PROVE  Spec => []NoSignalLost
<1>1. Init => NoSignalLost
  BY DEF Init, NoSignalLost, Asleep
<1> QED
  BY <1>1, SafeInit, SafeStep, HeardStep, PTL DEF Spec
=============================================================================
