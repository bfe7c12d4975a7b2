-------------------------- MODULE SchedulerProofs --------------------------
(***************************************************************************)
(* Proofs about Scheduler.tla, for any number of threads, fibers and calls. *)
(* IndInv is built up conjunct by conjunct: types and counters first, on   *)
(* which everything rests, then the fibers, the tasks, the draining of the *)
(* pool and the assertions.  From it follow the safety properties and the  *)
(* implementation of TaskPool.                                             *)
(***************************************************************************)
EXTENDS Scheduler, FiniteSetTheorems, SequenceTheorems, TLAPS

\* RemoveAt, the m_tasks.erase(it) of run(), shortens a sequence by one and moves up
\* the elements behind the place.
LEMMA RemoveAtProperties ==
    ASSUME NEW S, NEW s \in Seq(S), NEW i \in 1..Len(s)
    PROVE  /\ RemoveAt(s, i) \in Seq(S)
           /\ Len(RemoveAt(s, i)) = Len(s) - 1
           /\ \A j \in 1..(i - 1) : RemoveAt(s, i)[j] = s[j]
           /\ \A j \in i..(Len(s) - 1) : RemoveAt(s, i)[j] = s[j + 1]
<1> DEFINE front == SubSeq(s, 1, i - 1)
           back == SubSeq(s, i + 1, Len(s))
<1>1. /\ front \in Seq(S)
      /\ Len(front) = i - 1
      /\ \A j \in 1..(i - 1) : front[j] = s[j]
  BY SubSeqProperties, Z3
<1>2. /\ back \in Seq(S)
      /\ Len(back) = Len(s) - i
      /\ \A j \in 1..(Len(s) - i) : back[j] = s[i + j]
  BY SubSeqProperties, Z3
<1>3. RemoveAt(s, i) = front \o back
  BY DEF RemoveAt
<1> HIDE DEF front, back
<1>4. /\ front \o back \in Seq(S)
      /\ Len(front \o back) = Len(s) - 1
      /\ \A j \in 1..(Len(s) - 1) :
            (front \o back)[j] = IF j <= i - 1 THEN front[j] ELSE back[j - (i - 1)]
  BY <1>1, <1>2, ConcatProperties
<1>5. \A j \in 1..(i - 1) : (front \o back)[j] = s[j]
  BY <1>1, <1>4
<1>6. \A j \in i..(Len(s) - 1) : (front \o back)[j] = s[j + 1]
  <2> SUFFICES ASSUME NEW j \in i..(Len(s) - 1)
               PROVE  (front \o back)[j] = s[j + 1]
    OBVIOUS
  <2>1. j - (i - 1) \in 1..(Len(s) - i) /\ i + (j - (i - 1)) = j + 1
    OBVIOUS
  <2>2. (front \o back)[j] = back[j - (i - 1)]
    BY <1>4
  <2> QED
    BY <1>2, <2>1, <2>2
<1> QED
  BY <1>3, <1>4, <1>5, <1>6

\* The constructor leaves every variable with its type and no task in hand.
LEMMA InitTyped == Init => TypeOK /\ TaskFits
<1> SUFFICES ASSUME Init PROVE TypeOK /\ TaskFits
  OBVIOUS
<1> USE SchedulerAssumption
<1>1. m_tasks \in Seq(TaskEntries)
  BY EmptySeq DEF Init
<1>2. m_useCallerThread \in BOOLEAN
  BY DEF Init
<1>3. /\ pc \in [Threads -> Labels]
      /\ task \in [Threads -> TaskEntries \cup {NoTask}]
      /\ idleState \in [Threads -> FiberStates]
      /\ m_state \in [Fibers -> FiberStates]
      /\ owner \in [Fibers -> Threads \cup {NoThread}]
  BY DEF Init, Labels, FiberStates
<1>4. TaskFits
  BY DEF Init, TaskFits, ActiveLabels, Threads
<1>5. calls \in 0..MaxCalls /\ capacity \in Nat
      /\ m_activeThreadCnt \in Nat /\ m_idleThreadCnt \in Nat
  BY DEF Init
<1>6. /\ m_stopping \in BOOLEAN /\ broken \in BOOLEAN /\ late \in BOOLEAN
      /\ rootPc = "new" /\ stale = {} /\ retired = {} /\ aborted = "no"
  BY DEF Init
<1> QED
  BY <1>1, <1>2, <1>3, <1>4, <1>5, <1>6 DEF TypeOK

\* There are finitely many threads, so the two sets that are counted are finite.
LEMMA FiniteParts ==
    /\ IsFiniteSet(Active) /\ Cardinality(Active) \in Nat
    /\ IsFiniteSet(Idle) /\ Cardinality(Idle) \in Nat
<1>1. IsFiniteSet(Threads)
  BY SchedulerAssumption, FS_AddElement DEF Threads
<1>2. Active \in SUBSET Threads /\ Idle \in SUBSET Threads
  BY DEF Active, Idle
<1> QED
  BY <1>1, <1>2, FS_Subset, FS_CardinalityType

\* A counter is not zero while there is somebody it counts.
LEMMA CountersPositive ==
    ASSUME CountersExact
    PROVE  /\ Active # {} => m_activeThreadCnt > 0
           /\ Idle # {} => m_idleThreadCnt > 0
  BY FiniteParts, FS_EmptySet DEF CountersExact

\* scheduleLock() keeps the types.
LEMMA ScheduleTyped ==
    ASSUME TypeOK, TaskFits,
           NEW f \in Fibers, NEW target \in Targets,
           ScheduleLock(f, target), late' \in BOOLEAN
    PROVE  TypeOK' /\ TaskFits'
<1> USE SchedulerAssumption
<1>1. m_tasks' \in Seq(TaskEntries)
  BY AppendProperties DEF ScheduleLock, PushBack, TypeOK, TaskEntries
<1>2. capacity' \in Nat /\ stale' \subseteq Threads /\ calls' \in 0..MaxCalls
  BY DEF ScheduleLock, PushBack, TypeOK
<1>3. UNCHANGED <<objVars, counters, rootPc, pc, task, idleState, fiberVars,
                   retired, aborted>>
  BY DEF ScheduleLock
<1> QED
  BY <1>1, <1>2, <1>3 DEF TypeOK, TaskFits, objVars, counters, fiberVars

\* A step of run() keeps the types.  The decrements stay in Nat because the counters
\* are exact.
LEMMA RunTyped ==
    ASSUME TypeOK, TaskFits, CountersExact, NEW t \in Threads, RunStep(t)
    PROVE  TypeOK' /\ TaskFits'
<1>0. Root \in Threads
  BY DEF Threads
<1> USE SchedulerAssumption, <1>0
    DEF TypeOK, TaskFits, At, Alive, Goto, Abort, objVars, queueVars, counters,
        fiberVars, Labels, ActiveLabels, IdleLabels, FiberStates
<1>1. CASE ReadBegin(t)
  BY <1>1 DEF ReadBegin
<1>2. ASSUME NEW i \in DOMAIN m_tasks, ScanTakes(t, i)
      PROVE  TypeOK' /\ TaskFits'
  <2>1. i \in 1..Len(m_tasks) /\ m_tasks[i] \in TaskEntries
    BY LenProperties, ElementOfSeq
  <2>2. RemoveAt(m_tasks, i) \in Seq(TaskEntries)
    BY <2>1, RemoveAtProperties
  <2>3. m_tasks[i] # NoTask
    BY <2>1 DEF TaskEntries, NoTask
  <2> QED
    BY <1>2, <2>1, <2>2, <2>3 DEF ScanTakes
<1>3. CASE ScanFindsNothing(t)
  BY <1>3 DEF ScanFindsNothing
<1>4. CASE ScanFaults(t)
  BY <1>4 DEF ScanFaults
<1>5. CASE Resume(t)
  BY <1>5 DEF Resume
<1>6. CASE SkipDone(t)
  BY <1>6 DEF SkipDone
<1>7. CASE Yield(t)
  BY <1>7 DEF Yield, LeaveBody
<1>8. CASE MainFuncEnds(t)
  BY <1>8 DEF MainFuncEnds, LeaveBody
<1>9. CASE SwapOut(t)
  BY <1>9 DEF SwapOut
<1>10. CASE Retire(t)
  <2>1. t \in Active
    BY <1>10 DEF Retire, Active
  <2>2. m_activeThreadCnt - 1 \in Nat
    BY <2>1, CountersPositive
  <2> QED
    BY <1>10, <2>2 DEF Retire, NoTask, TaskEntries
<1>11. CASE IdleResume(t)
  BY <1>11 DEF IdleResume
<1>12. CASE RunReturns(t)
  BY <1>12 DEF RunReturns
<1>13. CASE IdleStops(t)
  BY <1>13 DEF IdleStops
<1>14. CASE IdleSleeps(t)
  BY <1>14 DEF IdleSleeps
<1>15. CASE IdleReturns(t)
  <2>1. t \in Idle
    BY <1>15 DEF IdleReturns, Idle
  <2>2. m_idleThreadCnt - 1 \in Nat
    BY <2>1, CountersPositive
  <2> QED
    BY <1>15, <2>2 DEF IdleReturns, NoTask, TaskEntries
<1> QED
  BY <1>1, <1>2, <1>3, <1>4, <1>5, <1>6, <1>7, <1>8, <1>9, <1>10, <1>11, <1>12, <1>13, <1>14, <1>15 DEF RunStep

\* A step of the client, of start() or of stop() keeps the types.
LEMMA CallTyped ==
    ASSUME TypeOK, TaskFits, CallStep \/ Client
    PROVE  TypeOK' /\ TaskFits'
<1> USE SchedulerAssumption
    DEF TypeOK, TaskFits, At, Alive, Goto, Abort, objVars, queueVars, counters,
        fiberVars, Threads, Labels, ActiveLabels, IdleLabels, FiberStates
<1>1. ASSUME NEW w \in Pool, Spawn(w) PROVE TypeOK' /\ TaskFits'
  BY <1>1 DEF Spawn
<1>2. ASSUME NEW w \in Pool, ThreadRun(w) PROVE TypeOK' /\ TaskFits'
  BY <1>2 DEF ThreadRun
<1>3. ASSUME NEW w \in Pool, SpawnFails(w) PROVE TypeOK' /\ TaskFits'
  BY <1>3 DEF SpawnFails
<1>4. CASE SpawnReturn
  BY <1>4 DEF SpawnReturn
<1>5. CASE StartReturn
  BY <1>5 DEF StartReturn
<1>6. CASE ResumeReturns
  BY <1>6 DEF ResumeReturns
<1>7. CASE Join
  BY <1>7 DEF Join
<1>8. CASE StartLock
  BY <1>8 DEF StartLock
<1>9. CASE StopOnCaller
  BY <1>9 DEF StopOnCaller
<1>10. CASE StopOnRoot
  BY <1>10 DEF StopOnRoot
<1>11. CASE StopOnOther
  BY <1>11 DEF StopOnOther
<1>12. CASE StopAgain
  BY <1>12 DEF StopAgain
<1>13. CASE Destroy
  BY <1>13 DEF Destroy
<1> QED
  BY <1>1, <1>2, <1>3, <1>4, <1>5, <1>6, <1>7, <1>8, <1>9, <1>10, <1>11, <1>12, <1>13 DEF CallStep, Client

\* Every step keeps the types.
LEMMA TypedStep ==
    ASSUME TypeOK, TaskFits, CountersExact, [Next]_vars
    PROVE  TypeOK' /\ TaskFits'
<1>1. CASE \E t \in Threads : RunStep(t)
  BY <1>1, RunTyped
<1>2. CASE Schedule
  <2>1. PICK f \in Fibers, target \in Targets :
            ScheduleLock(f, target) /\ late' \in BOOLEAN
    BY <1>2 DEF Schedule, OutsideSchedule, BodySchedule, TypeOK
  <2> QED
    BY <2>1, ScheduleTyped
<1>3. CASE CallStep \/ Client
  BY <1>3, CallTyped
<1>4. CASE UNCHANGED vars
  BY <1>4 DEF vars, TypeOK, TaskFits
<1> QED
  BY <1>1, <1>2, <1>3, <1>4 DEF Next, Over
----------------------------------------------------------------------------
(* The counters *)

\* What a thread that goes to another label does to the two numbers.
Counted(t, labels) == IF pc[t] \in labels THEN 1 ELSE 0

\* The effect of a thread's move on the number of active and of idle threads.
LEMMA GotoCounts ==
    ASSUME TypeOK, NEW t \in Threads, NEW label, Goto(t, label)
    PROVE  /\ Cardinality(Active') = Cardinality(Active) - Counted(t, ActiveLabels)
                  + (IF label \in ActiveLabels THEN 1 ELSE 0)
           /\ Cardinality(Idle') = Cardinality(Idle) - Counted(t, IdleLabels)
                  + (IF label \in IdleLabels THEN 1 ELSE 0)
<1>1. /\ Active' = IF label \in ActiveLabels THEN Active \cup {t} ELSE Active \ {t}
      /\ Idle' = IF label \in IdleLabels THEN Idle \cup {t} ELSE Idle \ {t}
  BY DEF TypeOK, Goto, Active, Idle
<1>2. /\ t \in Active <=> pc[t] \in ActiveLabels
      /\ t \in Idle <=> pc[t] \in IdleLabels
  BY DEF Active, Idle
<1>3. /\ Cardinality(Active \cup {t}) =
             IF t \in Active THEN Cardinality(Active) ELSE Cardinality(Active) + 1
      /\ Cardinality(Active \ {t}) =
             IF t \in Active THEN Cardinality(Active) - 1 ELSE Cardinality(Active)
      /\ Cardinality(Idle \cup {t}) =
             IF t \in Idle THEN Cardinality(Idle) ELSE Cardinality(Idle) + 1
      /\ Cardinality(Idle \ {t}) =
             IF t \in Idle THEN Cardinality(Idle) - 1 ELSE Cardinality(Idle)
  BY FiniteParts, FS_AddElement, FS_RemoveElement
<1>4. Cardinality(Active) \in Nat /\ Cardinality(Idle) \in Nat
  BY FiniteParts
<1> QED
  BY <1>1, <1>2, <1>3, <1>4 DEF Counted

\* Nobody moves between the parts.
LEMMA SameParts ==
    ASSUME UNCHANGED pc
    PROVE  Active' = Active /\ Idle' = Idle
  BY DEF Active, Idle

\* A step of run() changes each counter by as much as it changes its set.
LEMMA RunCounted ==
    ASSUME TypeOK, CountersExact, NEW t \in Threads, RunStep(t)
    PROVE  CountersExact'
<1> USE FiniteParts, GotoCounts, SameParts
    DEF CountersExact, At, Counted, counters, ActiveLabels, IdleLabels
<1>1. CASE ReadBegin(t)
  BY <1>1 DEF ReadBegin
<1>2. ASSUME NEW i \in DOMAIN m_tasks, ScanTakes(t, i) PROVE CountersExact'
  BY <1>2 DEF ScanTakes
<1>3. CASE ScanFindsNothing(t)
  BY <1>3 DEF ScanFindsNothing
<1>4. CASE ScanFaults(t)
  BY <1>4 DEF ScanFaults
<1>5. CASE Resume(t)
  BY <1>5 DEF Resume
<1>6. CASE SkipDone(t)
  BY <1>6 DEF SkipDone
<1>7. CASE Yield(t)
  BY <1>7 DEF Yield, LeaveBody
<1>8. CASE MainFuncEnds(t)
  BY <1>8 DEF MainFuncEnds, LeaveBody
<1>9. CASE SwapOut(t)
  BY <1>9 DEF SwapOut
<1>10. CASE Retire(t)
  BY <1>10 DEF Retire
<1>11. CASE IdleResume(t)
  BY <1>11 DEF IdleResume
<1>12. CASE RunReturns(t)
  BY <1>12 DEF RunReturns
<1>13. CASE IdleStops(t)
  BY <1>13 DEF IdleStops
<1>14. CASE IdleSleeps(t)
  BY <1>14 DEF IdleSleeps
<1>15. CASE IdleReturns(t)
  BY <1>15 DEF IdleReturns
<1> QED
  BY <1>1, <1>2, <1>3, <1>4, <1>5, <1>6, <1>7, <1>8, <1>9, <1>10, <1>11, <1>12, <1>13, <1>14, <1>15 DEF RunStep

\* No step of the client touches the counters or the sets they count.
LEMMA CallCounted ==
    ASSUME TypeOK, TaskFits, CountersExact, CallStep \/ Client
    PROVE  CountersExact'
<1> USE FiniteParts, GotoCounts, SameParts
    DEF CountersExact, At, Counted, counters, ActiveLabels, IdleLabels, Threads
<1>1. ASSUME NEW w \in Pool, Spawn(w) PROVE CountersExact'
  BY <1>1 DEF Spawn
<1>2. ASSUME NEW w \in Pool, ThreadRun(w) PROVE CountersExact'
  BY <1>2 DEF ThreadRun
<1>3. CASE StopOnCaller
  <2>1. pc[Root] = "off"
    BY <1>3 DEF StopOnCaller, TaskFits
  <2> QED
    BY <1>3, <2>1 DEF StopOnCaller
<1>4. CASE UNCHANGED <<pc, counters>>
  BY <1>4
<1> QED
  BY <1>1, <1>2, <1>3, <1>4
     DEF CallStep, Client, SpawnReturn, StartReturn, ResumeReturns, Join, StartLock,
         SpawnFails, StopOnRoot, StopOnOther, StopAgain, Destroy

\* Every step keeps the counters exact.
LEMMA CountersStep ==
    ASSUME TypeOK, TaskFits, CountersExact, [Next]_vars
    PROVE  CountersExact'
<1>1. CASE \E t \in Threads : RunStep(t)
  BY <1>1, RunCounted
<1>2. CASE CallStep \/ Client
  BY <1>2, CallCounted
<1>3. CASE UNCHANGED <<pc, counters>>
  BY <1>3, SameParts DEF CountersExact, counters
<1> QED
  BY <1>1, <1>2, <1>3
     DEF Next, Over, Schedule, OutsideSchedule, BodySchedule, ScheduleLock, vars, counters

\* At first nobody is counted.
LEMMA InitCounters == Init => CountersExact
<1> SUFFICES ASSUME Init PROVE CountersExact
  OBVIOUS
<1>1. Active = {} /\ Idle = {}
  BY DEF Init, Active, Idle, ActiveLabels, IdleLabels
<1> QED
  BY <1>1, FS_EmptySet DEF Init, CountersExact

\* The first part of the inductive invariant.
LEMMA Typed == Spec => [](TypeOK /\ TaskFits /\ CountersExact)
<1> DEFINE Inv == TypeOK /\ TaskFits /\ CountersExact
<1>1. Init => Inv
  BY InitTyped, InitCounters
<1>2. Inv /\ [Next]_vars => Inv'
  BY TypedStep, CountersStep
<1> QED
  BY <1>1, <1>2, PTL DEF Spec

\* Type correctness.  The counters are natural numbers because they count
\* threads; this is why the proof carries CountersExact along.
THEOREM TypeCorrect == Spec => []TypeOK
  BY Typed, PTL

\* m_activeThreadCnt and m_idleThreadCnt never drift, whatever the number of
\* threads, although run() changes them outside m_mutex.
THEOREM CountersCorrect == Spec => []CountersExact
  BY Typed, PTL
----------------------------------------------------------------------------
(* Fiber::m_mutex keeps a second thread off a fiber's stack *)

\* Every step keeps a fiber's m_mutex with the thread on its stack.
LEMMA FibersStep ==
    ASSUME TypeOK, TaskFits, FibersFit, [Next]_vars
    PROVE  FibersFit'
<1> USE SchedulerAssumption
    DEF TypeOK, TaskFits, FibersFit, At, Goto, StackLabels, ActiveLabels,
        objVars, queueVars, counters, fiberVars, FiberStates
<1>0. \A t \in Threads : pc[t] \in ActiveLabels => task[t].fiber \in Fibers
  BY DEF TaskEntries
<1>1. ASSUME NEW t \in Threads, Resume(t) PROVE FibersFit'
  BY <1>0, <1>1 DEF Resume
<1>2. ASSUME NEW t \in Threads, NEW state \in {"READY", "TERM"}, LeaveBody(t, state)
      PROVE  FibersFit'
  BY <1>0, <1>2 DEF LeaveBody
<1>3. ASSUME NEW t \in Threads, SwapOut(t) PROVE FibersFit'
  BY <1>0, <1>3 DEF SwapOut
<1>4. ASSUME NEW t \in Threads, NEW i \in DOMAIN m_tasks, ScanTakes(t, i)
      PROVE  FibersFit'
  BY <1>4 DEF ScanTakes
<1>5. ASSUME NEW t \in Threads, Retire(t) PROVE FibersFit'
  BY <1>5 DEF Retire
<1>6. ASSUME NEW t \in Threads,
             \/ ReadBegin(t) \/ ScanFindsNothing(t) \/ ScanFaults(t) \/ SkipDone(t)
             \/ IdleResume(t) \/ RunReturns(t) \/ IdleStops(t) \/ IdleSleeps(t)
             \/ IdleReturns(t)
      PROVE  FibersFit'
  BY <1>6 DEF ReadBegin, ScanFindsNothing, ScanFaults, SkipDone, IdleResume,
              RunReturns, IdleStops, IdleSleeps, IdleReturns
<1>7. CASE CallStep \/ Client
  BY <1>7 DEF CallStep, Client, Spawn, ThreadRun, SpawnReturn, StartReturn,
              ResumeReturns, Join, StartLock, SpawnFails, StopOnCaller, StopOnRoot,
              StopOnOther, StopAgain, Destroy, Threads
<1>8. CASE UNCHANGED <<pc, task, fiberVars>>
  BY <1>8
<1> QED
  BY <1>1, <1>2, <1>3, <1>4, <1>5, <1>6, <1>7, <1>8
     DEF Next, RunStep, Yield, MainFuncEnds, Over, Schedule, OutsideSchedule,
         BodySchedule, ScheduleLock, vars

\* m_mutex has one owner, so the stack has one user.
LEMMA Exclusive ==
    ASSUME TypeOK, TaskFits, FibersFit
    PROVE  FiberExclusive
<1> SUFFICES ASSUME NEW t \in Threads, NEW u \in Threads,
                    OnStack(t) = OnStack(u), OnStack(t) # NoFiber
             PROVE  t = u
  BY DEF FiberExclusive
<1>1. /\ pc[t] \in StackLabels /\ OnStack(t) = task[t].fiber
      /\ pc[u] \in StackLabels /\ OnStack(u) = task[u].fiber
  BY DEF OnStack
<1> QED
  BY <1>1 DEF FibersFit

\* The second part of the inductive invariant.
LEMMA FibersTyped == Spec => [](TypeOK /\ TaskFits /\ FibersFit)
<1>1. Init => FibersFit
  BY DEF Init, FibersFit, StackLabels
<1>2. TypeOK /\ TaskFits /\ FibersFit /\ [Next]_vars => FibersFit'
  BY FibersStep
<1> QED
  BY Typed, <1>1, <1>2, PTL DEF Spec

\* No two threads are ever on one fiber's stack: not while it runs, and not
\* between the moment yield() declares it READY and the end of its swapcontext(),
\* when another thread may already have taken it from the queue.
THEOREM FiberExclusiveHolds == Spec => []FiberExclusive
  BY FibersTyped, Exclusive, PTL
----------------------------------------------------------------------------
(* Every accepted task is in one place *)

\* Queued, in hand and retired after a step that moves nothing.
LEMMA SamePlaces ==
    ASSUME ExactlyOnce, UNCHANGED <<m_tasks, task, retired, calls>>
    PROVE  ExactlyOnce'
  BY DEF ExactlyOnce, QueuedIds, IdsInHand

\* scheduleLock() adds one new task, to the queue.
LEMMA PushBackOnce ==
    ASSUME TypeOK, ExactlyOnce,
           NEW f \in Fibers, NEW target \in Targets, PushBack(f, target),
           UNCHANGED <<task, retired>>
    PROVE  ExactlyOnce'
<1> DEFINE entry == [id |-> calls + 1, thread |-> target, fiber |-> f]
           n == Len(m_tasks)
<1>1. /\ m_tasks \in Seq(TaskEntries) /\ calls \in Nat /\ n \in Nat
      /\ entry \in TaskEntries /\ m_tasks' = Append(m_tasks, entry)
      /\ calls' = calls + 1
  BY LenProperties, SchedulerAssumption DEF TypeOK, PushBack, TaskEntries
<1>2. /\ DOMAIN m_tasks = 1..n /\ DOMAIN m_tasks' = 1..(n + 1)
      /\ \A i \in 1..n : m_tasks'[i] = m_tasks[i]
      /\ m_tasks'[n + 1] = entry
  <2>1. /\ m_tasks' \in Seq(TaskEntries) /\ Len(m_tasks') = n + 1
        /\ \A i \in 1..n : m_tasks'[i] = m_tasks[i]
        /\ m_tasks'[n + 1] = entry
    BY <1>1, AppendProperties
  <2> QED
    BY <1>1, <2>1, LenProperties
<1> HIDE DEF n
<1>3. QueuedIds' = QueuedIds \cup {calls + 1}
  <2>1. QueuedIds' = {m_tasks'[i].id : i \in 1..(n + 1)}
    BY <1>2 DEF QueuedIds
  <2>2. QueuedIds = {m_tasks[i].id : i \in 1..n}
    BY <1>2 DEF QueuedIds
  <2>3. \A i \in 1..(n + 1) : i \in 1..n \/ i = n + 1
    BY <1>1
  <2>4. \A i \in 1..n : i \in 1..(n + 1)
    BY <1>1
  <2>5. n + 1 \in 1..(n + 1) /\ m_tasks'[n + 1].id = calls + 1
    BY <1>1, <1>2
  <2> QED
    BY <1>2, <2>1, <2>2, <2>3, <2>4, <2>5
<1>4. IdsInHand' = IdsInHand
  BY DEF IdsInHand
<1>5. calls + 1 \notin QueuedIds \cup IdsInHand \cup retired
  BY <1>1 DEF ExactlyOnce
<1>6. \A i \in 1..n : m_tasks[i].id \in QueuedIds
  BY <1>2 DEF QueuedIds
<1>7. \A i, j \in DOMAIN m_tasks' : m_tasks'[i].id = m_tasks'[j].id => i = j
  <2> SUFFICES ASSUME NEW i \in 1..(n + 1), NEW j \in 1..(n + 1),
                      m_tasks'[i].id = m_tasks'[j].id
               PROVE  i = j
    BY <1>2
  <2>1. CASE i \in 1..n /\ j \in 1..n
    BY <1>2, <2>1 DEF ExactlyOnce
  <2>2. CASE i = n + 1 /\ j \in 1..n
    BY <1>2, <1>5, <1>6, <2>2
  <2>3. CASE i \in 1..n /\ j = n + 1
    BY <1>2, <1>5, <1>6, <2>3
  <2> QED
    BY <1>1, <2>1, <2>2, <2>3
<1>8. 1..(calls + 1) = (1..calls) \cup {calls + 1}
  BY <1>1
<1> QED
  BY <1>1, <1>3, <1>4, <1>5, <1>7, <1>8 DEF ExactlyOnce

\* The scan removes the one entry it takes, and no other.
LEMMA ScanTakesQueue ==
    ASSUME TypeOK, ExactlyOnce,
           NEW t \in Threads, NEW i \in DOMAIN m_tasks, ScanTakes(t, i)
    PROVE  /\ QueuedIds' = QueuedIds \ {m_tasks[i].id}
           /\ m_tasks[i].id \in QueuedIds
           /\ \A j, k \in DOMAIN m_tasks' : m_tasks'[j].id = m_tasks'[k].id => j = k
<1> DEFINE n == Len(m_tasks)
           x == m_tasks[i].id
<1>1. /\ m_tasks \in Seq(TaskEntries) /\ n \in Nat /\ DOMAIN m_tasks = 1..n
      /\ i \in 1..n /\ m_tasks[i] \in TaskEntries
      /\ m_tasks' = RemoveAt(m_tasks, i)
  BY LenProperties, ElementOfSeq DEF TypeOK, ScanTakes
<1>2. /\ DOMAIN m_tasks' = 1..(n - 1)
      /\ \A j \in 1..(i - 1) : m_tasks'[j] = m_tasks[j]
      /\ \A j \in i..(n - 1) : m_tasks'[j] = m_tasks[j + 1]
  <2>1. /\ m_tasks' \in Seq(TaskEntries) /\ Len(m_tasks') = n - 1
        /\ \A j \in 1..(i - 1) : m_tasks'[j] = m_tasks[j]
        /\ \A j \in i..(n - 1) : m_tasks'[j] = m_tasks[j + 1]
    BY <1>1, RemoveAtProperties
  <2> QED
    BY <2>1, LenProperties
<1> HIDE DEF n
<1> DEFINE old(j) == IF j < i THEN j ELSE j + 1
<1>3. \A j \in 1..(n - 1) :
          /\ old(j) \in 1..n /\ old(j) # i
          /\ m_tasks'[j] = m_tasks[old(j)]
  BY <1>1, <1>2
<1>4. \A j \in 1..n : j # i => \E k \in 1..(n - 1) : old(k) = j
  <2> SUFFICES ASSUME NEW j \in 1..n, j # i
               PROVE  \E k \in 1..(n - 1) : old(k) = j
    OBVIOUS
  <2>1. CASE j < i
    <3>1. j \in 1..(n - 1) /\ old(j) = j
      BY <1>1, <2>1
    <3> QED
      BY <3>1
  <2>2. CASE j > i
    <3>1. j - 1 \in 1..(n - 1) /\ old(j - 1) = j
      BY <1>1, <2>2
    <3> QED
      BY <3>1
  <2> QED
    BY <1>1, <2>1, <2>2
<1>5. \A j, k \in 1..(n - 1) : old(j) = old(k) => j = k
  BY <1>1
<1> HIDE DEF old
<1>6. \A j, k \in 1..n : m_tasks[j].id = m_tasks[k].id => j = k
  BY <1>1 DEF ExactlyOnce
<1>7. QueuedIds' = QueuedIds \ {x}
  <2>1. QueuedIds' = {m_tasks'[j].id : j \in 1..(n - 1)}
    BY <1>2 DEF QueuedIds
  <2>2. QueuedIds = {m_tasks[j].id : j \in 1..n}
    BY <1>1 DEF QueuedIds
  <2>3. ASSUME NEW y \in QueuedIds' PROVE y \in QueuedIds \ {x}
    <3>1. PICK j \in 1..(n - 1) : y = m_tasks[old(j)].id
      BY <1>3, <2>1, <2>3
    <3> QED
      BY <1>1, <1>3, <1>6, <2>2, <3>1
  <2>4. ASSUME NEW y \in QueuedIds \ {x} PROVE y \in QueuedIds'
    <3>1. PICK j \in 1..n : y = m_tasks[j].id /\ j # i
      BY <2>2, <2>4
    <3>2. PICK k \in 1..(n - 1) : old(k) = j
      BY <1>4, <3>1
    <3> QED
      BY <1>3, <2>1, <3>1, <3>2
  <2> QED
    BY <2>3, <2>4
<1>8. \A j, k \in DOMAIN m_tasks' : m_tasks'[j].id = m_tasks'[k].id => j = k
  BY <1>2, <1>3, <1>5, <1>6
<1> QED
  BY <1>1, <1>7, <1>8 DEF QueuedIds

\* The scan moves one task from the queue into the thread's hands.
LEMMA ScanTakesOnce ==
    ASSUME TypeOK, TaskFits, ExactlyOnce,
           NEW t \in Threads, NEW i \in DOMAIN m_tasks, ScanTakes(t, i)
    PROVE  ExactlyOnce'
<1> DEFINE x == m_tasks[i].id
<1>1. /\ QueuedIds' = QueuedIds \ {x} /\ x \in QueuedIds
      /\ \A j, k \in DOMAIN m_tasks' : m_tasks'[j].id = m_tasks'[k].id => j = k
  BY ScanTakesQueue
<1>2. x # 0
  <2>1. m_tasks \in Seq(TaskEntries)
    BY DEF TypeOK
  <2>2. m_tasks[i] \in TaskEntries
    BY <2>1, LenProperties, ElementOfSeq
  <2> QED
    BY <2>2 DEF TaskEntries
<1>3. /\ task' = [task EXCEPT ![t] = m_tasks[i]]
      /\ task[t].id = 0 /\ DOMAIN task = Threads
      /\ calls' = calls /\ retired' = retired
  BY DEF ScanTakes, At, TaskFits, ActiveLabels, TypeOK, NoTask
<1>4. IdsInHand' = IdsInHand \cup {x}
  BY <1>2, <1>3 DEF IdsInHand
<1>5. \A u, v \in Threads : task'[u].id = task'[v].id /\ task'[u].id # 0 => u = v
  <2>1. \A u \in Threads : task[u].id # x
    BY <1>1, <1>2 DEF ExactlyOnce, IdsInHand
  <2> QED
    BY <1>3, <2>1 DEF ExactlyOnce
<1> QED
  BY <1>1, <1>2, <1>3, <1>4, <1>5 DEF ExactlyOnce

\* The end of the round gives one task back.
LEMMA RetireOnce ==
    ASSUME TypeOK, TaskFits, ExactlyOnce, NEW t \in Threads, Retire(t)
    PROVE  ExactlyOnce'
<1>1. /\ task' = [task EXCEPT ![t] = NoTask] /\ NoTask.id = 0
      /\ retired' = retired \cup {task[t].id}
      /\ DOMAIN task = Threads
      /\ m_tasks' = m_tasks /\ calls' = calls
  BY DEF Retire, NoTask, TypeOK, queueVars
<1>2. task[t].id # 0
  <2>1. task[t] \in TaskEntries
    BY DEF Retire, At, TaskFits, ActiveLabels, TypeOK
  <2> QED
    BY <2>1 DEF TaskEntries
<1>3. IdsInHand' = IdsInHand \ {task[t].id}
  BY <1>1, <1>2 DEF IdsInHand, ExactlyOnce
<1>4. task[t].id \in IdsInHand
  BY <1>2 DEF IdsInHand
<1>5. QueuedIds' = QueuedIds
  BY <1>1 DEF QueuedIds
<1>6. \A u, v \in Threads : task'[u].id = task'[v].id /\ task'[u].id # 0 => u = v
  BY <1>1 DEF ExactlyOnce
<1> QED
  BY <1>1, <1>3, <1>4, <1>5, <1>6 DEF ExactlyOnce

\* Every step keeps a task in one place.
LEMMA OnceStep ==
    ASSUME TypeOK, TaskFits, ExactlyOnce, [Next]_vars
    PROVE  ExactlyOnce'
<1>1. CASE Schedule
  <2>1. PICK f \in Fibers, target \in Targets :
            PushBack(f, target) /\ UNCHANGED <<task, retired>>
    BY <1>1 DEF Schedule, OutsideSchedule, BodySchedule, ScheduleLock
  <2> QED
    BY <2>1, PushBackOnce
<1>2. ASSUME NEW t \in Threads, NEW i \in DOMAIN m_tasks, ScanTakes(t, i)
      PROVE  ExactlyOnce'
  BY <1>2, ScanTakesOnce
<1>3. ASSUME NEW t \in Threads, Retire(t) PROVE ExactlyOnce'
  BY <1>3, RetireOnce
<1>4. CASE UNCHANGED <<m_tasks, task, retired, calls>>
  BY <1>4, SamePlaces
<1>5. CASE CallStep \/ Client
  BY <1>4, <1>5
     DEF CallStep, Client, Spawn, ThreadRun, SpawnReturn, StartReturn, ResumeReturns,
         Join, StartLock, SpawnFails, StopOnCaller, StopOnRoot, StopOnOther, StopAgain,
         Destroy, queueVars
<1>6. ASSUME NEW t \in Threads,
             \/ ReadBegin(t) \/ ScanFindsNothing(t) \/ ScanFaults(t) \/ Resume(t)
             \/ SkipDone(t) \/ Yield(t) \/ MainFuncEnds(t) \/ SwapOut(t) \/ IdleResume(t)
             \/ RunReturns(t) \/ IdleStops(t) \/ IdleSleeps(t) \/ IdleReturns(t)
      PROVE  ExactlyOnce'
  BY <1>4, <1>6
     DEF ReadBegin, ScanFindsNothing, ScanFaults, Resume, SkipDone, Yield, MainFuncEnds,
         LeaveBody, SwapOut, IdleResume, RunReturns, IdleStops, IdleSleeps, IdleReturns,
         queueVars
<1> QED
  BY <1>1, <1>2, <1>3, <1>4, <1>5, <1>6 DEF Next, RunStep, Over, vars

\* The third part of the inductive invariant.
LEMMA OnceTyped == Spec => [](TypeOK /\ TaskFits /\ ExactlyOnce)
<1>1. Init => ExactlyOnce
  <2> SUFFICES ASSUME Init PROVE ExactlyOnce
    OBVIOUS
  <2>1. DOMAIN m_tasks = {} /\ retired = {} /\ 1..calls = {}
    BY EmptySeq DEF Init
  <2>2. \A t \in Threads : task[t].id = 0
    BY DEF Init, NoTask
  <2> QED
    BY <2>1, <2>2 DEF ExactlyOnce, QueuedIds, IdsInHand
<1>2. TypeOK /\ TaskFits /\ ExactlyOnce /\ [Next]_vars => ExactlyOnce'
  BY OnceStep
<1> QED
  BY Typed, <1>1, <1>2, PTL DEF Spec

\* No accepted task is lost, duplicated or run by two threads, whatever the
\* number of threads and of calls.
THEOREM ExactlyOnceHolds == Spec => []ExactlyOnce
  BY OnceTyped, PTL
----------------------------------------------------------------------------
(* Workers leave a drained pool, and stop() returns when they have *)

\* Once a worker's idle fiber has returned and no outside thread schedules, nobody
\* is active, so nobody is in a task that could schedule another.
LEMMA DrainedStep ==
    ASSUME TypeOK, CountersExact, DrainedAtExit, [Next]_vars
    PROVE  DrainedAtExit'
<1> USE DEF TypeOK, DrainedAtExit, At, Alive, objVars, queueVars, counters, fiberVars
<1>0. ASSUME NEW t \in Threads, pc[t] \in ActiveLabels PROVE m_activeThreadCnt # 0
  <2>1. Active # {}
    BY <1>0 DEF Active
  <2> QED
    BY <2>1, CountersPositive
<1>1. ASSUME NEW f \in Fibers, NEW target \in Targets, OutsideSchedule(f, target)
      PROVE  DrainedAtExit'
  BY <1>1 DEF OutsideSchedule, ScheduleLock
<1>2. ASSUME NEW t \in Threads, NEW f \in Fibers, NEW target \in Targets,
             BodySchedule(t, f, target)
      PROVE  DrainedAtExit'
  BY <1>0, <1>2 DEF BodySchedule, ScheduleLock, ActiveLabels
<1>3. ASSUME NEW t \in Threads, NEW i \in DOMAIN m_tasks, ScanTakes(t, i)
      PROVE  DrainedAtExit'
  <2>1. m_tasks # <<>>
    BY EmptySeq
  <2> QED
    BY <1>3, <2>1 DEF ScanTakes
<1>4. ASSUME NEW t \in Threads, Retire(t) PROVE DrainedAtExit'
  BY <1>0, <1>4 DEF Retire, ActiveLabels
<1>5. ASSUME NEW t \in Threads, IdleResume(t) PROVE DrainedAtExit'
  BY <1>5 DEF IdleResume
<1>6. ASSUME NEW t \in Threads, IdleStops(t) PROVE DrainedAtExit'
  BY <1>6 DEF IdleStops, Stopping
<1>7. ASSUME NEW t \in Threads, IdleSleeps(t) PROVE DrainedAtExit'
  BY <1>7 DEF IdleSleeps
<1>8. CASE StopOnCaller \/ StopOnRoot \/ StopOnOther
  BY <1>8 DEF StopOnCaller, StopOnRoot, StopOnOther
<1>9. CASE UNCHANGED <<idleState, m_stopping, m_tasks, m_activeThreadCnt, late>>
  BY <1>9
<1> QED
  BY <1>1, <1>2, <1>3, <1>4, <1>5, <1>6, <1>7, <1>8, <1>9
     DEF Next, RunStep, Schedule, CallStep, Client, Over, vars, ReadBegin,
         ScanFindsNothing, ScanFaults, Resume, SkipDone, Yield, MainFuncEnds, LeaveBody,
         SwapOut, RunReturns, IdleReturns, Spawn, ThreadRun, SpawnReturn, StartReturn,
         ResumeReturns, Join, StartLock, SpawnFails, StopAgain, Destroy

\* Every step keeps the client's position and the threads' in agreement.
LEMMA ClientStep ==
    ASSUME TypeOK, TaskFits, ClientFits, [Next]_vars
    PROVE  ClientFits'
<1>0. Root \in Threads /\ \A w \in Pool : w \in Threads /\ w # Root
  BY SchedulerAssumption DEF Threads
<1> USE <1>0
    DEF TypeOK, ClientFits, At, Alive, Goto, objVars, queueVars, counters, fiberVars
<1>1. ASSUME NEW t \in Threads,
             \/ ReadBegin(t) \/ ScanFindsNothing(t) \/ ScanFaults(t) \/ Resume(t)
             \/ SkipDone(t) \/ Yield(t) \/ MainFuncEnds(t) \/ SwapOut(t) \/ Retire(t)
             \/ \E i \in DOMAIN m_tasks : ScanTakes(t, i)
      PROVE  ClientFits'
  BY <1>1 DEF ReadBegin, ScanFindsNothing, ScanFaults, Resume, SkipDone, Yield,
              MainFuncEnds, LeaveBody, SwapOut, Retire, ScanTakes
<1>2. ASSUME NEW t \in Threads, IdleResume(t) \/ RunReturns(t) PROVE ClientFits'
  BY <1>2 DEF IdleResume, RunReturns
<1>3. ASSUME NEW t \in Threads, IdleStops(t) \/ IdleSleeps(t) \/ IdleReturns(t)
      PROVE  ClientFits'
  BY <1>3 DEF IdleStops, IdleSleeps, IdleReturns
<1>4. ASSUME NEW w \in Pool, Spawn(w) \/ ThreadRun(w) \/ SpawnFails(w)
      PROVE  ClientFits'
  BY <1>4 DEF Spawn, ThreadRun, SpawnFails
<1>5. CASE SpawnReturn \/ StartReturn \/ ResumeReturns
  BY <1>5 DEF SpawnReturn, StartReturn, ResumeReturns
<1>6. CASE Join
  BY <1>6 DEF Join
<1>7. CASE StartLock \/ StopOnCaller \/ StopOnRoot \/ StopOnOther \/ StopAgain \/ Destroy
  BY <1>7 DEF StartLock, StopOnCaller, StopOnRoot, StopOnOther, StopAgain, Destroy
<1>8. CASE UNCHANGED <<m_useCallerThread, broken, rootPc, pc, idleState>>
  BY <1>8
<1> QED
  BY <1>1, <1>2, <1>3, <1>4, <1>5, <1>6, <1>7, <1>8
     DEF Next, RunStep, Schedule, CallStep, Client, Over, vars, OutsideSchedule,
         BodySchedule, ScheduleLock

\* When stop() has returned some worker has left, so the pool is drained.
LEMMA StoppedIsDrained ==
    ASSUME ClientFits, DrainedAtExit, rootPc \in {"stopped", "destroyed"}, ~late
    PROVE  m_stopping /\ m_tasks = <<>> /\ m_activeThreadCnt = 0
<1>1. \E t \in Threads : pc[t] = "exited"
  <2>1. CASE Pool = {}
    BY <2>1 DEF ClientFits, Threads
  <2>2. CASE Pool # {}
    BY <2>2 DEF ClientFits, Threads
  <2> QED
    BY <2>1, <2>2
<1> QED
  BY <1>1 DEF ClientFits, DrainedAtExit

\* No step makes an assertion fail, unless outside threads schedule after stop().
LEMMA AssertsStep ==
    ASSUME TypeOK, TaskFits, FibersFit, ClientFits, DrainedAtExit, AssertsHold,
           [Next]_vars
    PROVE  AssertsHold'
<1> USE DEF AssertsHold, At, Alive, Abort
<1>1. ASSUME NEW t \in Threads, Resume(t) PROVE AssertsHold'
  <2>1. task[t].fiber \in Fibers
    BY <1>1 DEF Resume, TypeOK, TaskFits, ActiveLabels, TaskEntries
  <2>2. m_state[task[t].fiber] = "READY"
    BY <1>1, <2>1 DEF Resume, TypeOK, FibersFit, FiberStates
  <2> QED
    BY <1>1, <2>2 DEF Resume
<1>2. CASE StopAgain \/ Destroy
  BY <1>2, StoppedIsDrained DEF StopAgain, Destroy, Stopping
<1>3. ASSUME NEW t \in Threads, ScanFaults(t) PROVE AssertsHold'
  BY <1>3 DEF ScanFaults
<1>4. CASE StopOnRoot \/ Join
  BY <1>4 DEF StopOnRoot, Join
<1>5. CASE aborted' = aborted /\ (late => late')
  BY <1>5
<1> QED
  BY <1>1, <1>2, <1>3, <1>4, <1>5
     DEF Next, RunStep, Schedule, CallStep, Client, Over, vars, OutsideSchedule,
         BodySchedule, ScheduleLock, ReadBegin, ScanTakes, ScanFindsNothing, SkipDone,
         Yield, MainFuncEnds, LeaveBody, SwapOut, Retire, IdleResume, RunReturns,
         IdleStops, IdleSleeps, IdleReturns, Spawn, ThreadRun, SpawnFails, SpawnReturn,
         StartReturn, ResumeReturns, StartLock, StopOnCaller, StopOnOther

\* The last conjuncts hold of a new scheduler.
LEMMA InitFits == Init => DrainedAtExit /\ ClientFits /\ AssertsHold
  BY DEF Init, DrainedAtExit, ClientFits, AssertsHold, Threads

\* The conjuncts of the inductive invariant, each kept with the help of the others.
THEOREM Inductive == Spec => []IndInv
<1>1. Init => DrainedAtExit /\ ClientFits /\ AssertsHold
  BY InitFits
<1>2. /\ TypeOK /\ TaskFits /\ CountersExact /\ FibersFit
      /\ DrainedAtExit /\ ClientFits /\ AssertsHold
      /\ [Next]_vars
      => DrainedAtExit' /\ ClientFits' /\ AssertsHold'
  BY DrainedStep, ClientStep, AssertsStep
<1> QED
  BY <1>1, <1>2, Typed, FibersTyped, OnceTyped, PTL DEF Spec, IndInv

\* Unless outside threads schedule after stop(), a worker leaves only when nothing
\* is queued and nobody runs a task, and this is so from then on.
THEOREM DrainedAtExitHolds == Spec => []DrainedAtExit
  BY Inductive, PTL DEF IndInv

\* No assertion of Fiber::resume() or ~Scheduler() fails, for any number of
\* threads, fibers and calls, unless outside threads schedule after stop().
THEOREM AssertsHoldAlways == Spec => []AssertsHold
  BY Inductive, PTL DEF IndInv

\* When stop() has returned every accepted task has been run, unless outside
\* threads schedule after it was called.
THEOREM StopLosesNothingHolds == Spec => []StopLosesNothing
<1>1. IndInv => StopLosesNothing
  <2> SUFFICES ASSUME IndInv, rootPc \in {"stopped", "destroyed"}, ~late
               PROVE  retired = 1..calls
    BY DEF StopLosesNothing
  <2>1. m_tasks = <<>> /\ m_activeThreadCnt = 0
    BY StoppedIsDrained DEF IndInv
  <2>2. QueuedIds = {}
    BY <2>1, EmptySeq DEF QueuedIds
  <2>3. Active = {}
    BY <2>1, CountersPositive DEF IndInv
  <2>4. IdsInHand = {}
    BY <2>3 DEF IndInv, TaskFits, Active, IdsInHand, NoTask
  <2> QED
    BY <2>2, <2>4 DEF IndInv, ExactlyOnce
<1> QED
  BY <1>1, Inductive, PTL
----------------------------------------------------------------------------
(* First come, first served *)

\* Of two queued tasks with a common taker the earlier goes first.
LEMMA OrderKept ==
    ASSUME TypeOK, ExactlyOnce, Next,
           NEW i \in DOMAIN m_tasks, NEW j \in DOMAIN m_tasks, i < j,
           m_tasks[i].thread \in {AnyThread, m_tasks[j].thread},
           m_tasks[i].id \in QueuedIds'
    PROVE  m_tasks[j].id \in QueuedIds'
<1>0. /\ m_tasks \in Seq(TaskEntries) /\ DOMAIN m_tasks = 1..Len(m_tasks)
      /\ Len(m_tasks) \in Nat
  BY LenProperties DEF TypeOK
<1>1. m_tasks[j].id \in QueuedIds
  BY DEF QueuedIds
<1>2. ASSUME NEW t \in Threads, NEW k \in DOMAIN m_tasks, ScanTakes(t, k)
      PROVE  m_tasks[j].id \in QueuedIds'
  <2>1. CASE j = k
    <3>1. ~MayRun(t, m_tasks[i]) /\ MayRun(t, m_tasks[j])
      BY <1>0, <1>2, <2>1 DEF ScanTakes, FirstFor
    <3> QED
      BY <3>1 DEF MayRun
  <2>2. CASE j # k
    <3>1. m_tasks[j].id # m_tasks[k].id
      BY <2>2 DEF ExactlyOnce
    <3> QED
      BY <1>1, <1>2, <3>1, ScanTakesQueue
  <2> QED
    BY <2>1, <2>2
<1>3. ASSUME NEW f \in Fibers, NEW target \in Targets, PushBack(f, target)
      PROVE  m_tasks[j].id \in QueuedIds'
  <2>1. [id |-> calls + 1, thread |-> target, fiber |-> f] \in TaskEntries
    BY SchedulerAssumption DEF TypeOK, TaskEntries
  <2>2. /\ m_tasks' \in Seq(TaskEntries) /\ Len(m_tasks') = Len(m_tasks) + 1
        /\ m_tasks'[j] = m_tasks[j]
    BY <1>0, <1>3, <2>1, AppendProperties DEF PushBack
  <2>3. j \in DOMAIN m_tasks'
    BY <1>0, <2>2, LenProperties
  <2> QED
    BY <2>2, <2>3 DEF QueuedIds
<1>4. CASE UNCHANGED m_tasks
  BY <1>1, <1>4 DEF QueuedIds
<1> QED
  BY <1>2, <1>3, <1>4
     DEF Next, RunStep, Schedule, CallStep, Client, Over, vars, OutsideSchedule,
         BodySchedule, ScheduleLock, ReadBegin, ScanFindsNothing, ScanFaults, Resume,
         SkipDone, Yield, MainFuncEnds, LeaveBody, SwapOut, Retire, IdleResume,
         RunReturns, IdleStops, IdleSleeps, IdleReturns, Spawn, ThreadRun, SpawnFails,
         SpawnReturn, StartReturn, ResumeReturns, Join, StartLock, StopOnCaller,
         StopOnRoot, StopOnOther, StopAgain, Destroy, queueVars

\* No task overtakes an earlier one its taker could have taken.
THEOREM NoOvertakingHolds == Spec => NoOvertaking
<1> DEFINE Ordered ==
        \A i, j \in DOMAIN m_tasks :
          /\ i < j
          /\ m_tasks[i].thread \in {AnyThread, m_tasks[j].thread}
          /\ m_tasks[i].id \in QueuedIds'
          => m_tasks[j].id \in QueuedIds'
<1>1. TypeOK /\ ExactlyOnce /\ [Next]_vars => [Ordered]_vars
  BY OrderKept
<1> QED
  BY <1>1, OnceTyped, PTL DEF Spec, NoOvertaking
----------------------------------------------------------------------------
(* The waits form no circle *)

\* A fiber is locked when a thread goes onto its stack and unlocked when that thread
\* leaves, and no thread gets past m_mutex while start() holds it.
LEMMA WaitsStep ==
    ASSUME IndInv, NoCircularWait, [Next]_vars
    PROVE  NoCircularWait'
<1> USE SchedulerAssumption
    DEF IndInv, TypeOK, TaskFits, FibersFit, ClientFits, NoCircularWait, QueueLocked, At, Goto,
        StackLabels, ActiveLabels, objVars, queueVars, counters, fiberVars
<1>0. \A t \in Threads : pc[t] \in ActiveLabels => task[t].fiber \in Fibers
  BY DEF TaskEntries
<1>1. ASSUME NEW t \in Threads, Resume(t) PROVE NoCircularWait'
  BY <1>0, <1>1 DEF Resume
<1>2. ASSUME NEW t \in Threads, NEW state \in {"READY", "TERM"}, LeaveBody(t, state)
      PROVE  NoCircularWait'
  BY <1>0, <1>2 DEF LeaveBody
<1>3. ASSUME NEW t \in Threads, SwapOut(t) PROVE NoCircularWait'
  BY <1>0, <1>3 DEF SwapOut
<1>4. ASSUME NEW t \in Threads, NEW i \in DOMAIN m_tasks, ScanTakes(t, i)
      PROVE  NoCircularWait'
  BY <1>4 DEF ScanTakes
<1>5. ASSUME NEW t \in Threads, Retire(t) PROVE NoCircularWait'
  BY <1>5 DEF Retire
<1>6. ASSUME NEW t \in Threads,
             \/ ReadBegin(t) \/ ScanFindsNothing(t) \/ ScanFaults(t) \/ SkipDone(t)
             \/ IdleResume(t) \/ RunReturns(t) \/ IdleStops(t) \/ IdleSleeps(t)
             \/ IdleReturns(t)
      PROVE  NoCircularWait'
  BY <1>6 DEF ReadBegin, ScanFindsNothing, ScanFaults, SkipDone, IdleResume,
              RunReturns, IdleStops, IdleSleeps, IdleReturns
<1>7. CASE CallStep
  BY <1>7 DEF CallStep, Spawn, ThreadRun, SpawnReturn, StartReturn, ResumeReturns,
              Join, Threads
<1>8. CASE Client
  BY <1>8 DEF Client, StartLock, SpawnFails, StopOnCaller, StopOnRoot, StopOnOther,
              StopAgain, Destroy, Threads
<1>9. CASE UNCHANGED <<pc, task, fiberVars, rootPc>>
  BY <1>9
<1> QED
  BY <1>1, <1>2, <1>3, <1>4, <1>5, <1>6, <1>7, <1>8, <1>9
     DEF Next, RunStep, Yield, MainFuncEnds, Over, Schedule, OutsideSchedule,
         BodySchedule, ScheduleLock, vars

\* No deadlock among start(), stop() and run(), however many threads and fibers there
\* are: what a thread waits for is held by one that can go on, or by start(), whose
\* own wait is for a child that needs no lock to signal it.
THEOREM NoDeadlock == Spec => []NoCircularWait
<1>1. Init => NoCircularWait
  BY DEF Init, NoCircularWait, QueueLocked
<1>2. IndInv /\ NoCircularWait /\ [Next]_vars => NoCircularWait'
  BY WaitsStep
<1> QED
  BY Inductive, <1>1, <1>2, PTL DEF Spec
----------------------------------------------------------------------------
(* The scheduler implements TaskPool *)

\* Equal intervals end in the same place.
LEMMA SameInterval ==
    ASSUME NEW a \in Nat, NEW b \in Nat, 1..a = 1..b
    PROVE  a = b
<1>1. CASE a < b
  <2>1. b \in 1..b /\ b \notin 1..a
    BY <1>1
  <2> QED
    BY <2>1
<1>2. CASE b < a
  <2>1. a \in 1..a /\ a \notin 1..b
    BY <1>2
  <2> QED
    BY <2>1
<1> QED
  BY <1>1, <1>2

PoolEntries == [id : Nat \ {0}, thread : Targets]

\* What the queue looks like to a client of TaskPool.
LEMMA PendingSeq ==
    ASSUME m_tasks \in Seq(TaskEntries)
    PROVE  /\ Pending \in Seq(PoolEntries)
           /\ Len(Pending) = Len(m_tasks)
           /\ DOMAIN m_tasks = 1..Len(m_tasks) /\ DOMAIN Pending = 1..Len(m_tasks)
           /\ \A i \in DOMAIN m_tasks :
                  Pending[i] = [id |-> m_tasks[i].id, thread |-> m_tasks[i].thread]
<1>1. /\ DOMAIN m_tasks = 1..Len(m_tasks) /\ Len(m_tasks) \in Nat
      /\ \A i \in DOMAIN m_tasks : m_tasks[i] \in TaskEntries
  BY LenProperties, ElementOfSeq
<1>2. Pending \in [1..Len(m_tasks) -> PoolEntries]
  BY <1>1 DEF Pending, PoolEntries, TaskEntries
<1>3. Pending \in Seq(PoolEntries)
  BY <1>1, <1>2, SeqDef
<1>4. Len(Pending) \in Nat /\ DOMAIN Pending = 1..Len(Pending)
  BY <1>3, LenProperties
<1>5. DOMAIN Pending = 1..Len(m_tasks)
  BY <1>2
<1>6. Len(Pending) = Len(m_tasks)
  BY <1>1, <1>4, <1>5, SameInterval
<1> QED
  BY <1>1, <1>3, <1>5, <1>6 DEF Pending

\* The same of the next state.
LEMMA PendingSeqPrime ==
    m_tasks' \in Seq(TaskEntries) =>
        /\ Pending' \in Seq(PoolEntries)
        /\ Len(Pending') = Len(m_tasks')
        /\ DOMAIN m_tasks' = 1..Len(m_tasks')
        /\ \A i \in DOMAIN m_tasks' :
              Pending'[i] = [id |-> m_tasks'[i].id, thread |-> m_tasks'[i].thread]
<1> DEFINE Fact ==
        m_tasks \in Seq(TaskEntries) =>
            /\ Pending \in Seq(PoolEntries)
            /\ Len(Pending) = Len(m_tasks)
            /\ DOMAIN m_tasks = 1..Len(m_tasks)
            /\ \A i \in DOMAIN m_tasks :
                  Pending[i] = [id |-> m_tasks[i].id, thread |-> m_tasks[i].thread]
<1>1. Fact
  BY PendingSeq
<1>2. Fact'
  BY <1>1, PTL
<1> QED
  BY <1>2 DEF PoolEntries, TaskEntries

\* scheduleLock() appends to the abstract queue.
LEMMA PendingAppend ==
    ASSUME TypeOK, NEW f \in Fibers, NEW target \in Targets, PushBack(f, target)
    PROVE  Pending' = Append(Pending, [id |-> calls + 1, thread |-> target])
<1> DEFINE entry == [id |-> calls + 1, thread |-> target, fiber |-> f]
           poolEntry == [id |-> calls + 1, thread |-> target]
           n == Len(m_tasks)
<1>1. /\ m_tasks \in Seq(TaskEntries) /\ n \in Nat
      /\ entry \in TaskEntries /\ poolEntry \in PoolEntries
      /\ m_tasks' = Append(m_tasks, entry)
  BY LenProperties, SchedulerAssumption DEF TypeOK, PushBack, TaskEntries, PoolEntries
<1>2. /\ m_tasks' \in Seq(TaskEntries) /\ Len(m_tasks') = n + 1
      /\ \A i \in 1..n : m_tasks'[i] = m_tasks[i]
      /\ m_tasks'[n + 1] = entry
  BY <1>1, AppendProperties
<1>3. /\ Pending \in Seq(PoolEntries) /\ Len(Pending) = n
      /\ \A i \in 1..n : Pending[i] = [id |-> m_tasks[i].id, thread |-> m_tasks[i].thread]
  BY <1>1, PendingSeq
<1>4. /\ Pending' \in Seq(PoolEntries) /\ Len(Pending') = n + 1
      /\ \A i \in 1..(n + 1) :
            Pending'[i] = [id |-> m_tasks'[i].id, thread |-> m_tasks'[i].thread]
  <2>1. /\ Pending' \in Seq(PoolEntries) /\ Len(Pending') = Len(m_tasks')
        /\ DOMAIN m_tasks' = 1..Len(m_tasks')
        /\ \A i \in DOMAIN m_tasks' :
              Pending'[i] = [id |-> m_tasks'[i].id, thread |-> m_tasks'[i].thread]
    BY <1>2, PendingSeqPrime
  <2> QED
    BY <1>2, <2>1
<1>5. /\ Append(Pending, poolEntry) \in Seq(PoolEntries)
      /\ Len(Append(Pending, poolEntry)) = n + 1
      /\ \A i \in 1..n : Append(Pending, poolEntry)[i] = Pending[i]
      /\ Append(Pending, poolEntry)[n + 1] = poolEntry
  BY <1>1, <1>3, AppendProperties
<1> HIDE DEF n, poolEntry
<1>6. \A i \in 1..(n + 1) : Pending'[i] = Append(Pending, poolEntry)[i]
  <2> SUFFICES ASSUME NEW i \in 1..(n + 1)
               PROVE  Pending'[i] = Append(Pending, poolEntry)[i]
    OBVIOUS
  <2>1. CASE i \in 1..n
    <3>1. Pending'[i] = [id |-> m_tasks[i].id, thread |-> m_tasks[i].thread]
      BY <1>2, <1>4, <2>1
    <3> QED
      BY <1>3, <1>5, <2>1, <3>1
  <2>2. CASE i = n + 1
    <3>1. Pending'[i] = [id |-> entry.id, thread |-> entry.thread]
      BY <1>2, <1>4, <2>2
    <3> QED
      BY <1>5, <2>2, <3>1 DEF poolEntry
  <2>3. i \in 1..n \/ i = n + 1
    <3>1. n \in Nat
      BY <1>1
    <3> QED
      BY <3>1
  <2> QED
    BY <2>1, <2>2, <2>3
<1>7. Pending' = Append(Pending, poolEntry)
  BY <1>4, <1>5, <1>6, SeqEqual
<1> QED
  BY <1>7 DEF poolEntry
----------------------------------------------------------------------------
(* The refinement, step by step *)

\* The scan removes the same place of the abstract queue.
LEMMA PendingRemove ==
    ASSUME TypeOK, NEW t \in Threads, NEW i \in DOMAIN m_tasks, ScanTakes(t, i)
    PROVE  Pending' = RemoveAt(Pending, i)
<1> DEFINE n == Len(m_tasks)
<1>1. /\ m_tasks \in Seq(TaskEntries) /\ n \in Nat /\ i \in 1..n
      /\ m_tasks' = RemoveAt(m_tasks, i)
  BY LenProperties DEF TypeOK, ScanTakes
<1>2. /\ m_tasks' \in Seq(TaskEntries) /\ Len(m_tasks') = n - 1
      /\ \A j \in 1..(i - 1) : m_tasks'[j] = m_tasks[j]
      /\ \A j \in i..(n - 1) : m_tasks'[j] = m_tasks[j + 1]
  BY <1>1, RemoveAtProperties
<1>3. /\ Pending \in Seq(PoolEntries) /\ Len(Pending) = n
      /\ \A j \in 1..n : Pending[j] = [id |-> m_tasks[j].id, thread |-> m_tasks[j].thread]
  BY <1>1, PendingSeq
<1>4. /\ Pending' \in Seq(PoolEntries) /\ Len(Pending') = n - 1
      /\ \A j \in 1..(n - 1) :
            Pending'[j] = [id |-> m_tasks'[j].id, thread |-> m_tasks'[j].thread]
  <2>1. /\ Pending' \in Seq(PoolEntries) /\ Len(Pending') = Len(m_tasks')
        /\ DOMAIN m_tasks' = 1..Len(m_tasks')
        /\ \A j \in DOMAIN m_tasks' :
              Pending'[j] = [id |-> m_tasks'[j].id, thread |-> m_tasks'[j].thread]
    BY <1>2, PendingSeqPrime
  <2> QED
    BY <1>2, <2>1
<1>5. /\ RemoveAt(Pending, i) \in Seq(PoolEntries)
      /\ Len(RemoveAt(Pending, i)) = n - 1
      /\ \A j \in 1..(i - 1) : RemoveAt(Pending, i)[j] = Pending[j]
      /\ \A j \in i..(n - 1) : RemoveAt(Pending, i)[j] = Pending[j + 1]
  BY <1>1, <1>3, RemoveAtProperties
<1> HIDE DEF n
<1>6. \A j \in 1..(n - 1) : Pending'[j] = RemoveAt(Pending, i)[j]
  <2> SUFFICES ASSUME NEW j \in 1..(n - 1)
               PROVE  Pending'[j] = RemoveAt(Pending, i)[j]
    OBVIOUS
  <2>1. n \in Nat /\ i \in 1..n
    BY <1>1
  <2>2. CASE j \in 1..(i - 1)
    <3>1. Pending'[j] = [id |-> m_tasks[j].id, thread |-> m_tasks[j].thread]
      BY <1>2, <1>4, <2>2
    <3>2. j \in 1..n
      BY <2>1
    <3> QED
      BY <1>3, <1>5, <2>2, <3>1, <3>2
  <2>3. CASE j \in i..(n - 1)
    <3>1. Pending'[j] = [id |-> m_tasks[j + 1].id, thread |-> m_tasks[j + 1].thread]
      BY <1>2, <1>4, <2>3
    <3>2. j + 1 \in 1..n
      BY <2>1
    <3> QED
      BY <1>3, <1>5, <2>3, <3>1, <3>2
  <2>4. j \in 1..(i - 1) \/ j \in i..(n - 1)
    BY <2>1
  <2> QED
    BY <2>2, <2>3, <2>4
<1> QED
  BY <1>4, <1>5, <1>6, SeqEqual

\* A new scheduler is a new pool.
LEMMA ImplementsInit == Init => TP!Init
<1> SUFFICES ASSUME Init PROVE TP!Init
  OBVIOUS
<1>1. Pending = <<>>
  <2>1. m_tasks \in Seq(TaskEntries) /\ Len(m_tasks) = 0
    BY EmptySeq DEF Init
  <2>2. Pending \in Seq(PoolEntries) /\ Len(Pending) = 0
    BY <2>1, PendingSeq
  <2> QED
    BY <2>2, EmptySeq
<1>2. Running = [t \in Threads |-> 0] /\ ~Drained /\ Left = {}
  BY DEF Init, Running, Drained, Left, NoTask
<1> QED
  BY <1>1, <1>2 DEF Init, TP!Init

\* A step of run() takes, finishes, drains, leaves, or is invisible.
LEMMA ImplementsRun ==
    ASSUME IndInv, NEW t \in Threads, RunStep(t)
    PROVE  TP!Next \/ UNCHANGED TP!poolVars
<1> USE DEF IndInv, TypeOK, At, Goto, queueVars, objVars, counters, fiberVars
<1>1. ASSUME NEW i \in DOMAIN m_tasks, ScanTakes(t, i) PROVE TP!Take(t, i)
  <2>1. /\ DOMAIN m_tasks = 1..Len(m_tasks) /\ DOMAIN Pending = 1..Len(m_tasks)
        /\ Len(Pending) = Len(m_tasks) /\ i \in 1..Len(m_tasks)
        /\ \A j \in DOMAIN m_tasks :
              Pending[j] = [id |-> m_tasks[j].id, thread |-> m_tasks[j].thread]
    BY PendingSeq
  <2>2. /\ MayRun(t, m_tasks[i])
        /\ \A j \in 1..(i - 1) : ~MayRun(t, m_tasks[j])
    BY <1>1 DEF ScanTakes, FirstFor
  <2>3. /\ TP!MayRun(t, Pending[i])
        /\ \A j \in 1..(i - 1) : ~TP!MayRun(t, Pending[j])
    <3>1. \A j \in 1..i : j \in DOMAIN m_tasks
      BY <2>1, LenProperties
    <3>2. \A j \in 1..i : TP!MayRun(t, Pending[j]) <=> MayRun(t, m_tasks[j])
      BY <2>1, <3>1 DEF MayRun, TP!MayRun
    <3> QED
      BY <2>1, <2>2, <3>2, LenProperties
  <2>4. t \notin Left /\ Running[t] = 0
    BY <1>1 DEF ScanTakes, Left, Running, TaskFits, ActiveLabels, NoTask
  <2>5. Running' = [Running EXCEPT ![t] = Pending[i].id]
    <3>1. task' = [task EXCEPT ![t] = m_tasks[i]] /\ DOMAIN task = Threads
      BY <1>1 DEF ScanTakes
    <3>2. Pending[i].id = m_tasks[i].id
      BY <2>1
    <3> QED
      BY <3>1, <3>2 DEF Running
  <2>6. Pending' = TP!RemoveAt(Pending, i)
    BY <1>1, PendingRemove DEF RemoveAt, TP!RemoveAt
  <2>7. Left' = Left /\ Drained' = Drained
    BY <1>1 DEF ScanTakes, Left, Drained
  <2>8. UNCHANGED <<calls, retired, m_stopping>>
    BY <1>1 DEF ScanTakes
  <2> HIDE DEF IndInv, TypeOK, At, Goto, queueVars, objVars, counters, fiberVars
  <2> QED
    BY <2>1, <2>3, <2>4, <2>5, <2>6, <2>7, <2>8 DEF TP!Take
<1>2. CASE Retire(t)
  <2>1. Running[t] # 0 /\ Running[t] = task[t].id
    BY <1>2 DEF Retire, Running, TaskFits, ActiveLabels, TaskEntries
  <2>2. Running' = [Running EXCEPT ![t] = 0]
    BY <1>2 DEF Retire, Running, NoTask
  <2>3. Left' = Left /\ Drained' = Drained /\ Pending' = Pending
    BY <1>2 DEF Retire, Left, Drained, Pending
  <2>4. TP!Finish(t)
    BY <1>2, <2>1, <2>2, <2>3 DEF Retire, TP!Finish
  <2> QED
    BY <2>4 DEF TP!Next
<1>3. CASE RunReturns(t)
  <2>1. Drained
    BY <1>3 DEF RunReturns, Drained
  <2>2. Running[t] = 0 /\ Running' = Running /\ Drained' = Drained /\ Pending' = Pending
    BY <1>3 DEF RunReturns, Running, TaskFits, ActiveLabels, NoTask, Drained, Pending
  <2>3. Left' = Left \cup {t}
    BY <1>3 DEF RunReturns, Left
  <2>4. TP!Leave(t)
    BY <1>3, <2>1, <2>2, <2>3 DEF RunReturns, TP!Leave
  <2> QED
    BY <2>4 DEF TP!Next
<1>4. CASE IdleStops(t)
  <2>1. m_stopping /\ m_tasks = <<>> /\ m_activeThreadCnt = 0
    BY <1>4 DEF IdleStops, Stopping
  <2>2. Pending = <<>>
    BY <2>1, PendingSeq, EmptySeq
  <2>3. Active = {}
    BY <2>1, CountersPositive
  <2>4. \A u \in Threads : Running[u] = 0
    BY <2>3 DEF Active, Running, TaskFits, NoTask
  <2>5. Drained' /\ Running' = Running /\ Left' = Left /\ Pending' = Pending
    BY <1>4 DEF IdleStops, Drained, Running, Left, Pending
  <2>6. TP!Drain
    BY <1>4, <2>1, <2>2, <2>4, <2>5 DEF IdleStops, TP!Drain
  <2> QED
    BY <2>6 DEF TP!Next
<1>5. CASE IdleResume(t) \/ IdleSleeps(t) \/ IdleReturns(t)
  <2>1. Drained' = Drained
    BY <1>5 DEF IdleResume, IdleSleeps, IdleReturns, Drained, ClientFits
  <2>2. Running' = Running /\ Left' = Left /\ Pending' = Pending
    BY <1>5 DEF IdleResume, IdleSleeps, IdleReturns, Running, Left, Pending
  <2> QED
    BY <1>5, <2>1, <2>2 DEF IdleResume, IdleSleeps, IdleReturns, TP!poolVars
<1>6. CASE \/ ReadBegin(t) \/ ScanFindsNothing(t) \/ ScanFaults(t) \/ Resume(t)
           \/ SkipDone(t) \/ Yield(t) \/ MainFuncEnds(t) \/ SwapOut(t)
  <2> USE DEF ReadBegin, ScanFindsNothing, ScanFaults, Resume, SkipDone, Yield,
              MainFuncEnds, LeaveBody, SwapOut
  <2>1. Left' = Left
    BY <1>6 DEF Left
  <2>2. Running' = Running /\ Drained' = Drained /\ Pending' = Pending
    BY <1>6 DEF Running, Drained, Pending
  <2> QED
    BY <1>6, <2>1, <2>2 DEF TP!poolVars
<1>7. \A i \in DOMAIN m_tasks : i \in 1..Len(Pending)
  BY PendingSeq
<1> QED
  BY <1>1, <1>2, <1>3, <1>4, <1>5, <1>6, <1>7 DEF RunStep, TP!Next

\* stop() is the request to stop; every other step of the client is invisible.
LEMMA ImplementsCall ==
    ASSUME IndInv, CallStep \/ Client
    PROVE  TP!Next \/ UNCHANGED TP!poolVars
<1>0. /\ Running' = Running /\ Drained' = Drained /\ Pending' = Pending
      /\ calls' = calls /\ retired' = retired
  BY DEF CallStep, Client, Spawn, ThreadRun, SpawnReturn, StartReturn, ResumeReturns,
         Join, StartLock, SpawnFails, StopOnCaller, StopOnRoot, StopOnOther, StopAgain,
         Destroy, queueVars, Running, Drained, Pending
<1>1. Left' = Left
  <2>1. ASSUME NEW w \in Pool, Spawn(w) \/ ThreadRun(w) PROVE Left' = Left
    BY <2>1 DEF Spawn, ThreadRun, At, Goto, Left, Threads, IndInv, TypeOK
  <2>2. CASE StopOnCaller
    <3>1. pc[Root] # "exited"
      BY <2>2 DEF StopOnCaller, IndInv, TaskFits
    <3> QED
      BY <2>2, <3>1 DEF StopOnCaller, Goto, Left, Threads, IndInv, TypeOK
  <2>3. CASE UNCHANGED pc
    BY <2>3 DEF Left
  <2> QED
    BY <2>1, <2>2, <2>3
       DEF CallStep, Client, SpawnReturn, StartReturn, ResumeReturns, Join, StartLock,
           SpawnFails, StopOnRoot, StopOnOther, StopAgain, Destroy
<1>2. CASE StopOnCaller \/ StopOnRoot \/ StopOnOther
  <2>1. m_stopping' = TRUE
    BY <1>2 DEF StopOnCaller, StopOnRoot, StopOnOther
  <2>2. TP!RequestStop
    BY <1>0, <1>1, <2>1 DEF TP!RequestStop
  <2> QED
    BY <2>2 DEF TP!Next
<1>3. CASE m_stopping' = m_stopping
  BY <1>0, <1>1, <1>3 DEF TP!poolVars
<1> QED
  BY <1>2, <1>3
     DEF CallStep, Client, Spawn, ThreadRun, SpawnReturn, StartReturn, ResumeReturns,
         Join, StartLock, SpawnFails, StopAgain, Destroy, objVars

\* scheduleLock() submits a task.
LEMMA ImplementsSchedule ==
    ASSUME IndInv, Schedule
    PROVE  TP!Next
<1>1. PICK f \in Fibers, target \in Targets :
          /\ PushBack(f, target) /\ calls < MaxCalls /\ calls' = calls + 1
          /\ UNCHANGED <<task, idleState, pc, retired, m_stopping>>
  BY DEF Schedule, OutsideSchedule, BodySchedule, ScheduleLock, PushBack, objVars
<1>2. Pending' = Append(Pending, [id |-> calls + 1, thread |-> target])
  BY <1>1, PendingAppend DEF IndInv
<1>3. Running' = Running /\ Drained' = Drained /\ Left' = Left
  BY <1>1 DEF Running, Drained, Left
<1>4. TP!Submit(target)
  BY <1>1, <1>2, <1>3 DEF TP!Submit
<1> QED
  BY <1>4 DEF TP!Next, Targets

\* Every behaviour of the scheduler is one of TaskPool: a FIFO pool that runs each
\* accepted task once and that a thread leaves only after it has been drained.
THEOREM Implementation == Spec => ImplementsTaskPool
<1>1. Init => TP!Init
  BY ImplementsInit
<1>2. IndInv /\ [Next]_vars => [TP!Next]_(TP!poolVars)
  <2>1. CASE UNCHANGED vars
    BY <2>1 DEF vars, TP!poolVars, Pending, Running, Drained, Left
  <2> QED
    BY <2>1, ImplementsRun, ImplementsCall, ImplementsSchedule DEF Next, Over
<1> QED
  BY <1>1, <1>2, Inductive, PTL DEF Spec, ImplementsTaskPool, TP!Spec
----------------------------------------------------------------------------
(* The scheduler keeps to ThreadLife *)

\* Steps that move no thread between the stages of its life do not show.
LEMMA SamePoolLife ==
    ASSUME \A w \in Pool : PoolStage(w)' = PoolStage(w) /\ (pc'[w] = "off" <=> pc[w] = "off"),
           \/ UNCHANGED rootPc
           \/ /\ {rootPc, rootPc'} \cap {"wait"} = {}
              /\ rootPc \in {"stopped", "destroyed"} <=> rootPc' \in {"stopped", "destroyed"}
    PROVE  UNCHANGED TL!lifeVars
<1>1. PoolStages' = PoolStages
  BY DEF PoolStages
<1>2. PoolHandles' = PoolHandles
  BY DEF PoolHandles, PoolHandle
<1> QED
  BY <1>1, <1>2 DEF TL!lifeVars

\* In run() a worker stays up until it leaves.
LEMMA LifeOfWorker ==
    ASSUME IndInv, NEW t \in Threads, RunStep(t)
    PROVE  TL!Next \/ UNCHANGED TL!lifeVars
<1>0. rootPc' = rootPc /\ pc \in [Threads -> Labels] /\ Pool \subseteq Threads
  BY DEF RunStep, ReadBegin, ScanTakes, ScanFindsNothing, ScanFaults, Resume, SkipDone,
         Yield, MainFuncEnds, LeaveBody, SwapOut, Retire, IdleResume, RunReturns,
         IdleStops, IdleSleeps, IdleReturns, IndInv, TypeOK, Threads
<1>1. CASE RunReturns(t) /\ t \in Pool
  <2>1. pc[t] = "idle" /\ pc' = [pc EXCEPT ![t] = "exited"]
    BY <1>1 DEF RunReturns, At, Goto
  <2>2. PoolStage(t) = "running" /\ PoolStage(t)' = "ended"
    BY <1>0, <2>1 DEF PoolStage
  <2>3. \A w \in Pool : w # t => PoolStage(w)' = PoolStage(w)
    BY <1>0, <2>1 DEF PoolStage
  <2>4. PoolStages[t] = "running" /\ PoolStages' = [PoolStages EXCEPT ![t] = "ended"]
    BY <1>1, <2>2, <2>3 DEF PoolStages
  <2>5. PoolHandles' = PoolHandles
    BY <1>0, <2>1 DEF PoolHandles, PoolHandle
  <2>6. TL!Ends(t)
    BY <1>0, <2>4, <2>5 DEF TL!Ends
  <2> QED
    BY <1>1, <2>6 DEF TL!Next
<1>2. CASE ~(RunReturns(t) /\ t \in Pool)
  <2>1. \A w \in Pool :
            \/ pc'[w] = pc[w]
            \/ {pc[w], pc'[w]} \cap {"off", "born", "exited"} = {}
    BY <1>0, <1>2
       DEF RunStep, ReadBegin, ScanTakes, ScanFindsNothing, ScanFaults, Resume, SkipDone,
           Yield, MainFuncEnds, LeaveBody, SwapOut, Retire, IdleResume, RunReturns,
           IdleStops, IdleSleeps, IdleReturns, At, Goto
  <2>2. \A w \in Pool :
            PoolStage(w)' = PoolStage(w) /\ (pc'[w] = "off" <=> pc[w] = "off")
    BY <2>1 DEF PoolStage
  <2> QED
    BY <1>0, <2>2, SamePoolLife
<1> QED
  BY <1>1, <1>2

\* start() constructs the threads one after the other, and stop() joins them all.
LEMMA LifeOfCalls ==
    ASSUME IndInv, CallStep
    PROVE  TL!Next \/ UNCHANGED TL!lifeVars
<1>0. pc \in [Threads -> Labels] /\ Pool \subseteq Threads
  BY DEF IndInv, TypeOK, Threads
<1>1. ASSUME NEW w \in Pool, Spawn(w) PROVE TL!Next
  <2>1. /\ rootPc = "spawn" /\ rootPc' = "wait"
        /\ pc[w] = "off" /\ pc' = [pc EXCEPT ![w] = "born"]
    BY <1>1 DEF Spawn, At, Goto
  <2>2. PoolStages[w] = "none" /\ PoolStages' = [PoolStages EXCEPT ![w] = "starting"]
    BY <1>0, <2>1 DEF PoolStages, PoolStage
  <2>3. PoolHandles' = [PoolHandles EXCEPT ![w] = "owned"]
    BY <1>0, <2>1 DEF PoolHandles, PoolHandle
  <2>4. TL!Construct(w)
    BY <2>1, <2>2, <2>3 DEF TL!Construct
  <2> QED
    BY <2>4 DEF TL!Next
<1>2. ASSUME NEW w \in Pool, ThreadRun(w) PROVE TL!Next
  <2>1. rootPc' = rootPc /\ pc[w] = "born" /\ pc' = [pc EXCEPT ![w] = "begin"]
    BY <1>2 DEF ThreadRun, At, Goto
  <2>2. PoolStages[w] = "starting" /\ PoolStages' = [PoolStages EXCEPT ![w] = "running"]
    BY <1>0, <2>1 DEF PoolStages, PoolStage
  <2>3. PoolHandles' = PoolHandles
    BY <1>0, <2>1 DEF PoolHandles, PoolHandle
  <2>4. TL!ComesUp(w)
    BY <2>1, <2>2, <2>3 DEF TL!ComesUp
  <2> QED
    BY <2>4 DEF TL!Next
<1>3. CASE SpawnReturn
  <2>1. rootPc = "wait" /\ rootPc' = "spawn" /\ pc' = pc /\ \A w \in Pool : pc[w] # "born"
    BY <1>3 DEF SpawnReturn
  <2>2. PoolStages' = PoolStages /\ \A w \in Pool : PoolStages[w] # "starting"
    BY <2>1 DEF PoolStages, PoolStage
  <2>3. PoolHandles' = PoolHandles
    BY <2>1 DEF PoolHandles, PoolHandle
  <2>4. TL!Constructed
    BY <2>1, <2>2, <2>3 DEF TL!Constructed
  <2> QED
    BY <2>4 DEF TL!Next
<1>4. CASE Join /\ ~broken
  <2> DEFINE joined == {w \in Pool : pc[w] # "off"}
  <2>1. /\ rootPc = "join" /\ rootPc' = "stopped" /\ pc' = pc
        /\ \A w \in Pool : pc[w] \in {"off", "exited"}
    BY <1>4 DEF Join
  <2>2. PoolStages' = PoolStages /\ \A w \in joined : PoolStages[w] = "ended"
    BY <2>1 DEF PoolStages, PoolStage
  <2>3. /\ \A w \in joined : PoolHandles[w] = "owned"
        /\ PoolHandles' = [w \in Pool |-> IF w \in joined THEN "joined" ELSE PoolHandles[w]]
    BY <2>1 DEF PoolHandles, PoolHandle
  <2>4. TL!Join(joined)
    BY <2>1, <2>2, <2>3 DEF TL!Join
  <2> QED
    BY <2>4 DEF TL!Next
<1>5. CASE StartReturn \/ ResumeReturns \/ (Join /\ broken)
  <2>1. pc' = pc
    BY <1>5 DEF StartReturn, ResumeReturns, Join
  <2>2. {rootPc, rootPc'} \cap {"wait", "stopped", "destroyed"} = {}
    BY <1>5 DEF StartReturn, ResumeReturns, Join
  <2>3. \A w \in Pool : PoolStage(w)' = PoolStage(w)
    BY <2>1 DEF PoolStage
  <2> QED
    BY <2>1, <2>2, <2>3, SamePoolLife
<1> QED
  BY <1>1, <1>2, <1>3, <1>4, <1>5 DEF CallStep

\* What the client chooses to do moves no thread of the pool.
LEMMA LifeOfClient ==
    ASSUME IndInv, Client
    PROVE  UNCHANGED TL!lifeVars
<1>1. \A w \in Pool : pc'[w] = pc[w]
  BY SchedulerAssumption
     DEF Client, StartLock, SpawnFails, StopOnCaller, StopOnRoot, StopOnOther, StopAgain,
         Destroy, Goto, IndInv, TypeOK, Threads
<1>2. /\ {rootPc, rootPc'} \cap {"wait"} = {}
      /\ rootPc \in {"stopped", "destroyed"} <=> rootPc' \in {"stopped", "destroyed"}
  BY DEF Client, StartLock, SpawnFails, StopOnCaller, StopOnRoot, StopOnOther, StopAgain,
         Destroy
<1>3. \A w \in Pool : PoolStage(w)' = PoolStage(w)
  BY <1>1 DEF PoolStage
<1> QED
  BY <1>1, <1>2, <1>3, SamePoolLife

\* The pool's threads live as ThreadLife has it.  With ThreadHasItsLife of
\* ThreadProofs.tla, the single steps Scheduler.tla has for a Thread's constructor and
\* for join() are what the semaphore and the handles of a Thread amount to.
THEOREM PoolKeepsToThreadLife == Spec => KeepsToThreadLife
<1>1. Init => TL!Init
  BY DEF Init, TL!Init, PoolStages, PoolStage, PoolHandles, PoolHandle, Threads
<1>2. IndInv /\ [Next]_vars => [TL!Next]_(TL!lifeVars)
  <2> SUFFICES ASSUME IndInv, [Next]_vars PROVE TL!Next \/ UNCHANGED TL!lifeVars
    OBVIOUS
  <2>1. CASE UNCHANGED <<pc, rootPc>>
    BY <2>1, SamePoolLife DEF PoolStage
  <2> QED
    BY <2>1, LifeOfWorker, LifeOfCalls, LifeOfClient
       DEF Next, Over, vars, Schedule, OutsideSchedule, BodySchedule, ScheduleLock
<1> QED
  BY <1>1, <1>2, Inductive, PTL DEF Spec, KeepsToThreadLife, TL!Spec
=============================================================================
