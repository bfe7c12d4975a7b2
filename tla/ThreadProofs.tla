---------------------------- MODULE ThreadProofs ----------------------------
(***************************************************************************)
(* Proofs about Thread.tla, for any number of children, of places for      *)
(* their objects and of names.                                             *)
(***************************************************************************)
EXTENDS Thread, FiniteSetTheorems, TLAPS

Labels == {"out"} \cup Sem!WaitLabels \cup Sem!SignalLabels

\* There is no object and no child at first.
LEMMA InitInv == Init => IndInv
<1> SUFFICES ASSUME Init PROVE IndInv
  OBVIOUS
<1>1. TypeOK
  BY ThreadAssumption DEF Init, Sem!Init, TypeOK, Sem!TypeOK
<1>2. SemaphoresQuiet /\ HandlesMatch /\ Handshake
  BY ThreadAssumption DEF Init, Sem!Init, SemaphoresQuiet, HandlesMatch, Handshake, Procs
<1>3. RunHasItsObject /\ IdKnown /\ NamesAgree /\ NoSignalLost
  BY DEF Init, Sem!Init, Procs, RunHasItsObject, IdKnown, NamesAgree, NoSignalLost
<1> QED
  BY <1>1, <1>2, <1>3 DEF IndInv

\* A new object is one no thread works on, and its child a new thread.
LEMMA ThreadStep ==
    ASSUME IndInv, NEW a \in Objects, NEW k \in Kids, NEW name \in Names, Thread(a, k,
     name)
    PROVE  IndInv'
<1> USE ThreadAssumption DEF semVars, objVars, kidVars, Procs, Signalled
<1>0. TypeOK /\ SemaphoresQuiet /\ HandlesMatch /\ Handshake
      /\ RunHasItsObject /\ IdKnown /\ NamesAgree /\ NoSignalLost
  BY DEF IndInv
<1>1. TypeOK'
  <2>1. Sem!TypeOK'
    BY <1>0 DEF Thread, ClientFree, Live, Goto, Sem!Construct, TypeOK, Sem!TypeOK,
     Labels, HandlesMatch, Handshake
  <2> QED
    BY <1>0, <2>1 DEF Thread, ClientFree, Live, Goto, Sem!Construct, TypeOK, HandlesMatch
<1>2. SemaphoresQuiet'
  BY <1>0, <1>1 DEF Thread, ClientFree, Live, Goto, Sem!Construct, TypeOK, Sem!TypeOK,
     SemaphoresQuiet, HandlesMatch, Sem!WaitLabels, Sem!SignalLabels
<1>3. HandlesMatch'
  BY <1>0, <1>1 DEF Thread, ClientFree, Live, Goto, Sem!Construct, TypeOK, HandlesMatch,
     RunHasItsObject
<1>4. Handshake'
  BY <1>0, <1>1 DEF Thread, ClientFree, Live, Goto, Sem!Construct, TypeOK, Sem!TypeOK,
     Handshake, HandlesMatch, SemaphoresQuiet, RunHasItsObject, Sem!Locked,
     Sem!WaitLabels, Sem!SignalLabels
<1>5. RunHasItsObject'
  BY <1>0, <1>1 DEF Thread, ClientFree, Live, Goto, Sem!Construct, TypeOK,
     RunHasItsObject, HandlesMatch
<1>6. IdKnown'
  BY <1>0, <1>1 DEF Thread, ClientFree, Live, Goto, Sem!Construct, TypeOK, IdKnown,
     HandlesMatch, RunHasItsObject
<1>7. NamesAgree'
  BY <1>0, <1>1 DEF Thread, ClientFree, Live, Goto, Sem!Construct, TypeOK, NamesAgree,
     HandlesMatch
<1>8. NoSignalLost'
  BY <1>0, <1>1 DEF Thread, ClientFree, Live, Goto, Sem!Construct, TypeOK, Sem!TypeOK,
     NoSignalLost, HandlesMatch, Handshake, SemaphoresQuiet
<1> QED
  BY <1>1, <1>2, <1>3, <1>4, <1>5, <1>6, <1>7, <1>8 DEF IndInv

\* The constructor goes into its semaphore.
LEMMA WaitForStartStep ==
    ASSUME IndInv, NEW a \in Objects, WaitForStart(a)
    PROVE  IndInv'
<1> USE ThreadAssumption DEF semVars, objVars, kidVars, Procs, Signalled
<1>0. TypeOK /\ SemaphoresQuiet /\ HandlesMatch /\ Handshake
      /\ RunHasItsObject /\ IdKnown /\ NamesAgree /\ NoSignalLost
  BY DEF IndInv
<1>at. /\ a \in Objects /\ at[a][Client] = "out"
      /\ at' \in [Objects -> [Procs -> Labels]]
      /\ \A b \in Objects, q \in Procs :
            at'[b][q] = IF b = a /\ q = Client THEN "waitLock" ELSE at[b][q]
  <2>1. a \in Objects /\ Sem!Goto(a, Client, "out", "waitLock")
    BY <1>0 DEF WaitForStart, Sem!wait, HandlesMatch
  <2>2. "waitLock" \in Labels /\ Client \in Procs
    BY DEF Labels, Sem!WaitLabels, Sem!SignalLabels
  <2>3. at \in [Objects -> [Procs -> Labels]]
    BY <1>0 DEF TypeOK, Sem!TypeOK, Labels
  <2> HIDE DEF Procs
  <2> QED
    BY <2>1, <2>2, <2>3 DEF Sem!Goto
<1>1. TypeOK'
  <2>1. Sem!TypeOK'
    BY <1>0, <1>at DEF WaitForStart, Live, Sem!wait, TypeOK, Sem!TypeOK, Labels,
     HandlesMatch, Handshake
  <2> QED
    BY <1>0, <1>at, <2>1 DEF WaitForStart, Live, Sem!wait, TypeOK, HandlesMatch
<1>2. SemaphoresQuiet'
  BY <1>0, <1>at, <1>1 DEF WaitForStart, Live, Sem!wait, TypeOK, Sem!TypeOK,
     SemaphoresQuiet, HandlesMatch, Sem!WaitLabels, Sem!SignalLabels
<1>3. HandlesMatch'
  BY <1>0, <1>at, <1>1 DEF WaitForStart, Live, Sem!wait, TypeOK, Sem!TypeOK,
     HandlesMatch, RunHasItsObject
<1>4. Handshake'
  BY <1>0, <1>at, <1>1 DEF WaitForStart, Live, Sem!wait, TypeOK, Sem!TypeOK, Handshake,
     HandlesMatch, SemaphoresQuiet, RunHasItsObject, Sem!Locked, Sem!WaitLabels,
     Sem!SignalLabels
<1>5. RunHasItsObject'
  BY <1>0, <1>at, <1>1 DEF WaitForStart, Live, Sem!wait, TypeOK, Sem!TypeOK,
     RunHasItsObject, HandlesMatch
<1>6. IdKnown'
  BY <1>0, <1>at, <1>1 DEF WaitForStart, Live, Sem!wait, TypeOK, Sem!TypeOK, IdKnown,
     HandlesMatch, RunHasItsObject
<1>7. NamesAgree'
  BY <1>0, <1>at, <1>1 DEF WaitForStart, Live, Sem!wait, TypeOK, Sem!TypeOK, NamesAgree,
     HandlesMatch
<1>8. NoSignalLost'
  BY <1>0, <1>at, <1>1 DEF WaitForStart, Live, Sem!wait, TypeOK, Sem!TypeOK,
     NoSignalLost, HandlesMatch, Handshake, SemaphoresQuiet
<1> QED
  BY <1>1, <1>2, <1>3, <1>4, <1>5, <1>6, <1>7, <1>8 DEF IndInv

\* The client moves inside wait().
LEMMA ClientMovesStep ==
    ASSUME IndInv, NEW a \in Objects, NEW from, NEW to \in Sem!WaitLabels,
           life[a] = "waiting", Sem!Goto(a, Client, from, to),
     to = "take" => count[a] = 1,
           to \in {"block", "asleep"} => count[a] = 0,
           to \in Sem!Locked =>
               from \in Sem!Locked \/ \A q \in Procs : at[a][q] \notin Sem!Locked,
           UNCHANGED <<count, objVars, kidVars>>
    PROVE  IndInv'
<1> USE ThreadAssumption DEF semVars, objVars, kidVars, Procs, Signalled
<1>0. TypeOK /\ SemaphoresQuiet /\ HandlesMatch /\ Handshake
      /\ RunHasItsObject /\ IdKnown /\ NamesAgree /\ NoSignalLost
  BY DEF IndInv
<1>at. /\ a \in Objects /\ at[a][Client] = from
      /\ at' \in [Objects -> [Procs -> Labels]]
      /\ \A b \in Objects, q \in Procs :
            at'[b][q] = IF b = a /\ q = Client THEN to ELSE at[b][q]
  <2>1. a \in Objects /\ Sem!Goto(a, Client, from, to)
    BY <1>0 DEF HandlesMatch
  <2>2. to \in Labels /\ Client \in Procs
    BY DEF Labels, Sem!WaitLabels, Sem!SignalLabels
  <2>3. at \in [Objects -> [Procs -> Labels]]
    BY <1>0 DEF TypeOK, Sem!TypeOK, Labels
  <2> HIDE DEF Procs
  <2> QED
    BY <2>1, <2>2, <2>3 DEF Sem!Goto
<1>1. TypeOK'
  <2>1. Sem!TypeOK'
    BY <1>0, <1>at DEF TypeOK, Sem!TypeOK, Labels, HandlesMatch, Handshake
  <2> QED
    BY <1>0, <1>at, <2>1 DEF TypeOK, HandlesMatch
<1>2. SemaphoresQuiet'
  BY <1>0, <1>at, <1>1 DEF TypeOK, Sem!TypeOK, Sem!WaitLabels, Sem!SignalLabels,
     Sem!Locked, SemaphoresQuiet, HandlesMatch, Handshake, RunHasItsObject, IdKnown,
     NamesAgree, NoSignalLost
<1>3. HandlesMatch'
  BY <1>0, <1>at, <1>1 DEF TypeOK, Sem!TypeOK, HandlesMatch, RunHasItsObject
<1>4. Handshake'
  BY <1>0, <1>at, <1>1 DEF TypeOK, Sem!TypeOK, Sem!WaitLabels, Sem!SignalLabels,
     Sem!Locked, SemaphoresQuiet, HandlesMatch, Handshake, RunHasItsObject, IdKnown,
     NamesAgree, NoSignalLost
<1>5. RunHasItsObject'
  BY <1>0, <1>at, <1>1 DEF TypeOK, Sem!TypeOK, RunHasItsObject, HandlesMatch
<1>6. IdKnown'
  BY <1>0, <1>at, <1>1 DEF TypeOK, Sem!TypeOK, IdKnown, HandlesMatch, RunHasItsObject
<1>7. NamesAgree'
  BY <1>0, <1>at, <1>1 DEF TypeOK, Sem!TypeOK, NamesAgree, HandlesMatch
<1>8. NoSignalLost'
  BY <1>0, <1>at, <1>1 DEF TypeOK, Sem!TypeOK, NoSignalLost, HandlesMatch, Handshake,
     SemaphoresQuiet
<1> QED
  BY <1>1, <1>2, <1>3, <1>4, <1>5, <1>6, <1>7, <1>8 DEF IndInv

\* The child moves inside signal(), but for the increment and the notification.
LEMMA KidMovesStep ==
    ASSUME IndInv, NEW k \in Kids, NEW from, NEW to \in Sem!SignalLabels,
           pc[k] = "signal", Sem!Goto(arg[k], k, from, to),
           to \in {"notify", "unlock"} <=> from \in {"notify", "unlock"},
           to \in Sem!Locked =>
               from \in Sem!Locked \/ \A q \in Procs : at[arg[k]][q] \notin Sem!Locked,
           from = "notify" => at[arg[k]][Client] # "asleep",
           UNCHANGED <<count, objVars, kidVars>>
    PROVE  IndInv'
<1> USE ThreadAssumption DEF semVars, objVars, kidVars, Procs, Signalled
<1>0. TypeOK /\ SemaphoresQuiet /\ HandlesMatch /\ Handshake
      /\ RunHasItsObject /\ IdKnown /\ NamesAgree /\ NoSignalLost
  BY DEF IndInv
<1>at. /\ arg[k] \in Objects /\ at[arg[k]][k] = from
      /\ at' \in [Objects -> [Procs -> Labels]]
      /\ \A b \in Objects, q \in Procs :
            at'[b][q] = IF b = arg[k] /\ q = k THEN to ELSE at[b][q]
  <2>1. arg[k] \in Objects /\ Sem!Goto(arg[k], k, from, to)
    BY <1>0 DEF HandlesMatch
  <2>2. to \in Labels /\ k \in Procs
    BY DEF Labels, Sem!WaitLabels, Sem!SignalLabels
  <2>3. at \in [Objects -> [Procs -> Labels]]
    BY <1>0 DEF TypeOK, Sem!TypeOK, Labels
  <2> HIDE DEF Procs
  <2> QED
    BY <2>1, <2>2, <2>3 DEF Sem!Goto
<1>1. TypeOK'
  <2>1. Sem!TypeOK'
    BY <1>0, <1>at DEF TypeOK, Sem!TypeOK, Labels, HandlesMatch, Handshake
  <2> QED
    BY <1>0, <1>at, <2>1 DEF TypeOK, HandlesMatch
<1>2. SemaphoresQuiet'
  BY <1>0, <1>at, <1>1 DEF TypeOK, Sem!TypeOK, SemaphoresQuiet, HandlesMatch,
     Sem!WaitLabels, Sem!SignalLabels
<1>3. HandlesMatch'
  BY <1>0, <1>at, <1>1 DEF TypeOK, Sem!TypeOK, HandlesMatch, RunHasItsObject
<1>4. Handshake'
  <2>1. /\ arg[k] \in Objects /\ life[arg[k]] \in {"created", "waiting"}
        /\ _thread[arg[k]] = k
    BY <1>0 DEF RunHasItsObject, HandlesMatch
  <2>2. at'[arg[k]][Client] = at[arg[k]][Client] /\ at'[arg[k]][k] = to
    BY <1>at
  <2>3. Signalled(arg[k], k)' = Signalled(arg[k], k)
    BY <1>at, <2>2
  <2>4. at[arg[k]][Client] \in Sem!Locked => to \notin Sem!Locked
    BY <1>0, <1>at, <2>1 DEF Handshake
  <2>5. \A b \in Objects \ {arg[k]}, q \in Procs : at'[b][q] = at[b][q]
    BY <1>at
  <2>6. \A b \in Objects : life[b] \in {"created", "waiting"} => _thread[b] \in Kids
    BY <1>0 DEF HandlesMatch, TypeOK
  <2> QED
    BY <1>0, <2>1, <2>2, <2>3, <2>4, <2>5, <2>6 DEF Handshake
<1>5. RunHasItsObject'
  BY <1>0, <1>at, <1>1 DEF TypeOK, Sem!TypeOK, RunHasItsObject, HandlesMatch
<1>6. IdKnown'
  BY <1>0, <1>at, <1>1 DEF TypeOK, Sem!TypeOK, IdKnown, HandlesMatch, RunHasItsObject
<1>7. NamesAgree'
  BY <1>0, <1>at, <1>1 DEF TypeOK, Sem!TypeOK, NamesAgree, HandlesMatch
<1>8. NoSignalLost'
  <2> SUFFICES ASSUME NEW b \in Objects, at'[b][Client] = "asleep"
               PROVE  count[b] = 0 \/ at'[b][_thread[b]] = "notify"
    BY DEF NoSignalLost
  <2>1. at[b][Client] = "asleep"
    BY <1>at
  <2>2. _thread[b] \in Kids /\ (count[b] = 0 \/ at[b][_thread[b]] = "notify")
    BY <1>0, <2>1 DEF NoSignalLost, SemaphoresQuiet, HandlesMatch, TypeOK
  <2>3. CASE b = arg[k]
    <3>1. _thread[b] = k
      BY <1>0, <2>3 DEF RunHasItsObject
    <3> QED
      BY <1>at, <2>1, <2>2, <2>3, <3>1
  <2>4. CASE b # arg[k]
    BY <1>at, <2>2, <2>4
  <2> QED
    BY <2>3, <2>4
<1> QED
  BY <1>1, <1>2, <1>3, <1>4, <1>5, <1>6, <1>7, <1>8 DEF IndInv

\* The child counts one up.
LEMMA KidIncrementsStep ==
    ASSUME IndInv, NEW k \in Kids, 
           pc[k] = "signal", Sem!Increments(arg[k], k), UNCHANGED <<objVars, kidVars>>
    PROVE  IndInv'
<1> USE ThreadAssumption DEF semVars, objVars, kidVars, Procs, Signalled
<1>0. TypeOK /\ SemaphoresQuiet /\ HandlesMatch /\ Handshake
      /\ RunHasItsObject /\ IdKnown /\ NamesAgree /\ NoSignalLost
  BY DEF IndInv
<1>at. /\ arg[k] \in Objects /\ at[arg[k]][k] = "increment"
      /\ at' \in [Objects -> [Procs -> Labels]]
      /\ \A b \in Objects, q \in Procs :
            at'[b][q] = IF b = arg[k] /\ q = k THEN "notify" ELSE at[b][q]
  <2>1. arg[k] \in Objects /\ Sem!Goto(arg[k], k, "increment", "notify")
    BY <1>0 DEF Sem!Increments, HandlesMatch
  <2>2. "notify" \in Labels /\ k \in Procs
    BY DEF Labels, Sem!WaitLabels, Sem!SignalLabels
  <2>3. at \in [Objects -> [Procs -> Labels]]
    BY <1>0 DEF TypeOK, Sem!TypeOK, Labels
  <2> HIDE DEF Procs
  <2> QED
    BY <2>1, <2>2, <2>3 DEF Sem!Goto
<1>1. TypeOK'
  <2>1. Sem!TypeOK'
    <3>1. count \in [Objects -> Nat] /\ count[arg[k]] + 1 \in Nat
      BY <1>0, <1>at DEF TypeOK, Sem!TypeOK
    <3>2. count' = [count EXCEPT ![arg[k]] = count[arg[k]] + 1]
      BY DEF Sem!Increments
    <3>3. count' \in [Objects -> Nat]
      BY <3>1, <3>2
    <3> QED
      BY <1>at, <3>3 DEF Sem!TypeOK, Labels
  <2> QED
    BY <1>0, <1>at, <2>1 DEF Sem!Increments, TypeOK, HandlesMatch
<1>2. SemaphoresQuiet'
  BY <1>0, <1>at, <1>1 DEF Sem!Increments, TypeOK, Sem!TypeOK, SemaphoresQuiet,
     HandlesMatch, Sem!WaitLabels, Sem!SignalLabels
<1>3. HandlesMatch'
  BY <1>0, <1>at, <1>1 DEF Sem!Increments, TypeOK, Sem!TypeOK, HandlesMatch,
     RunHasItsObject
<1>4. Handshake'
  BY <1>0, <1>at, <1>1 DEF Sem!Increments, TypeOK, Sem!TypeOK, Handshake, HandlesMatch,
     SemaphoresQuiet, RunHasItsObject, Sem!Locked, Sem!WaitLabels, Sem!SignalLabels
<1>5. RunHasItsObject'
  BY <1>0, <1>at, <1>1 DEF Sem!Increments, TypeOK, Sem!TypeOK, RunHasItsObject,
     HandlesMatch
<1>6. IdKnown'
  BY <1>0, <1>at, <1>1 DEF Sem!Increments, TypeOK, Sem!TypeOK, IdKnown, HandlesMatch,
     RunHasItsObject
<1>7. NamesAgree'
  BY <1>0, <1>at, <1>1 DEF Sem!Increments, TypeOK, Sem!TypeOK, NamesAgree, HandlesMatch
<1>8. NoSignalLost'
  BY <1>0, <1>at, <1>1 DEF Sem!Increments, TypeOK, Sem!TypeOK, Sem!WaitLabels,
     Sem!SignalLabels, Sem!Locked, NoSignalLost, HandlesMatch, Handshake,
     SemaphoresQuiet, RunHasItsObject
<1> QED
  BY <1>1, <1>2, <1>3, <1>4, <1>5, <1>6, <1>7, <1>8 DEF IndInv

\* The child wakes the client.
LEMMA KidNotifiesStep ==
    ASSUME IndInv, NEW k \in Kids, 
           pc[k] = "signal", Sem!Wakes(arg[k], k, Client),
           UNCHANGED <<count, objVars, kidVars>>
    PROVE  IndInv'
<1> USE ThreadAssumption DEF semVars, objVars, kidVars, Procs, Signalled
<1>0. TypeOK /\ SemaphoresQuiet /\ HandlesMatch /\ Handshake
      /\ RunHasItsObject /\ IdKnown /\ NamesAgree /\ NoSignalLost
  BY DEF IndInv
<1>at. /\ arg[k] \in Objects /\ life[arg[k]] = "waiting"
      /\ at[arg[k]][k] = "notify" /\ at[arg[k]][Client] = "asleep"
      /\ at' \in [Objects -> [Procs -> Labels]]
      /\ \A b \in Objects, q \in Procs :
            at'[b][q] = IF b = arg[k] /\ q = k THEN "unlock"
                        ELSE IF b = arg[k] /\ q = Client THEN "waitLock" ELSE at[b][q]
  <2>1. arg[k] \in Objects /\ {"waitLock", "unlock"} \subseteq Labels
    BY <1>0 DEF HandlesMatch, Labels, Sem!WaitLabels, Sem!SignalLabels
  <2>2. at[arg[k]][Client] = "asleep"
    BY DEF Sem!Wakes
  <2>3. life[arg[k]] = "waiting"
    BY <1>0, <2>1, <2>2 DEF SemaphoresQuiet
  <2> QED
    BY <1>0, <2>1, <2>3 DEF Sem!Wakes, TypeOK, Sem!TypeOK, Labels
<1>1. TypeOK'
  <2>1. Sem!TypeOK'
    BY <1>0, <1>at DEF TypeOK, Sem!TypeOK, Labels, HandlesMatch, Handshake
  <2> QED
    BY <1>0, <1>at, <2>1 DEF TypeOK, HandlesMatch
<1>2. SemaphoresQuiet'
  BY <1>0, <1>at, <1>1 DEF TypeOK, Sem!TypeOK, Sem!WaitLabels, Sem!SignalLabels,
     Sem!Locked, SemaphoresQuiet
<1>3. HandlesMatch'
  BY <1>0, <1>at, <1>1 DEF TypeOK, Sem!TypeOK, HandlesMatch, RunHasItsObject
<1>4. Handshake'
  BY <1>0, <1>at, <1>1 DEF TypeOK, Sem!TypeOK, Sem!WaitLabels, Sem!SignalLabels,
     Sem!Locked, SemaphoresQuiet, HandlesMatch, Handshake, RunHasItsObject, IdKnown,
     NamesAgree, NoSignalLost
<1>5. RunHasItsObject'
  BY <1>0, <1>at, <1>1 DEF TypeOK, Sem!TypeOK, RunHasItsObject, HandlesMatch
<1>6. IdKnown'
  BY <1>0, <1>at, <1>1 DEF TypeOK, Sem!TypeOK, IdKnown, HandlesMatch, RunHasItsObject
<1>7. NamesAgree'
  BY <1>0, <1>at, <1>1 DEF TypeOK, Sem!TypeOK, NamesAgree, HandlesMatch
<1>8. NoSignalLost'
  BY <1>0, <1>at, <1>1 DEF TypeOK, Sem!TypeOK, Sem!WaitLabels, Sem!SignalLabels,
     Sem!Locked, NoSignalLost, HandlesMatch, Handshake, SemaphoresQuiet, RunHasItsObject
<1> QED
  BY <1>1, <1>2, <1>3, <1>4, <1>5, <1>6, <1>7, <1>8 DEF IndInv

\* The count is there to take only when the child has let go of the mutex.
LEMMA ConstructedStep ==
    ASSUME IndInv, NEW a \in Objects, Constructed(a)
    PROVE  IndInv'
<1> USE ThreadAssumption DEF semVars, objVars, kidVars, Procs, Signalled
<1>0. TypeOK /\ SemaphoresQuiet /\ HandlesMatch /\ Handshake
      /\ RunHasItsObject /\ IdKnown /\ NamesAgree /\ NoSignalLost
  BY DEF IndInv
<1>at. /\ a \in Objects /\ at[a][Client] = "take"
      /\ at' \in [Objects -> [Procs -> Labels]]
      /\ \A b \in Objects, q \in Procs :
            at'[b][q] = IF b = a /\ q = Client THEN "out" ELSE at[b][q]
  <2>1. a \in Objects /\ Sem!Goto(a, Client, "take", "out")
    BY <1>0 DEF Constructed, Sem!Takes, HandlesMatch
  <2>2. "out" \in Labels /\ Client \in Procs
    BY DEF Labels, Sem!WaitLabels, Sem!SignalLabels
  <2>3. at \in [Objects -> [Procs -> Labels]]
    BY <1>0 DEF TypeOK, Sem!TypeOK, Labels
  <2> HIDE DEF Procs
  <2> QED
    BY <2>1, <2>2, <2>3 DEF Sem!Goto
<1>child. /\ life[a] = "waiting" /\ _thread[a] \in Kids /\ count[a] = 1
      /\ pc[_thread[a]] \in {"callback", "ended"}
      /\ _id[a] = _thread[a] /\ ~_callback[a]
  <2>1. life[a] = "waiting" /\ _thread[a] \in Kids
    BY <1>0 DEF Constructed, TypeOK, HandlesMatch
  <2>2. count[a] = 1 /\ Signalled(a, _thread[a]) /\ at[a][_thread[a]] \notin Sem!Locked
    BY <1>0, <1>at, <2>1 DEF Handshake, Sem!Locked
  <2>3. pc[_thread[a]] \in {"callback", "ended"}
    BY <2>2 DEF Sem!Locked
  <2> QED
    BY <1>0, <2>1, <2>2, <2>3 DEF Handshake
<1>1. TypeOK'
  <2>1. Sem!TypeOK'
    <3>1. count \in [Objects -> Nat] /\ count[a] - 1 \in Nat
      BY <1>0, <1>at, <1>child DEF TypeOK, Sem!TypeOK
    <3>2. count' = [count EXCEPT ![a] = count[a] - 1]
      BY DEF Constructed, Sem!Takes
    <3>3. count' \in [Objects -> Nat]
      BY <3>1, <3>2
    <3> QED
      BY <1>at, <3>3 DEF Sem!TypeOK, Labels
  <2> QED
    BY <1>0, <1>at, <1>child, <2>1 DEF Constructed, Live, Sem!Takes, TypeOK, HandlesMatch
<1>2. SemaphoresQuiet'
  BY <1>0, <1>at, <1>child, <1>1 DEF Constructed, Live, Sem!Takes, TypeOK, Sem!TypeOK,
     SemaphoresQuiet, HandlesMatch, Sem!WaitLabels, Sem!SignalLabels
<1>3. HandlesMatch'
  BY <1>0, <1>at, <1>child, <1>1 DEF Constructed, Live, Sem!Takes, TypeOK, Sem!TypeOK,
     HandlesMatch, RunHasItsObject
<1>4. Handshake'
  BY <1>0, <1>at, <1>child, <1>1 DEF Constructed, Live, Sem!Takes, TypeOK, Sem!TypeOK,
     Handshake, HandlesMatch, SemaphoresQuiet, RunHasItsObject, Sem!Locked,
     Sem!WaitLabels, Sem!SignalLabels
<1>5. RunHasItsObject'
  BY <1>0, <1>at, <1>child, <1>1 DEF Constructed, Live, Sem!Takes, TypeOK, Sem!TypeOK,
     RunHasItsObject, HandlesMatch
<1>6. IdKnown'
  BY <1>0, <1>at, <1>child, <1>1 DEF Constructed, Live, Sem!Takes, TypeOK, Sem!TypeOK,
     IdKnown, HandlesMatch, RunHasItsObject
<1>7. NamesAgree'
  BY <1>0, <1>at, <1>child, <1>1 DEF Constructed, Live, Sem!Takes, TypeOK, Sem!TypeOK,
     NamesAgree, HandlesMatch
<1>8. NoSignalLost'
  BY <1>0, <1>at, <1>child, <1>1 DEF Constructed, Live, Sem!Takes, TypeOK, Sem!TypeOK,
     NoSignalLost, HandlesMatch, Handshake, SemaphoresQuiet
<1> QED
  BY <1>1, <1>2, <1>3, <1>4, <1>5, <1>6, <1>7, <1>8 DEF IndInv

\* The client waits for a thread it has the handle of.
LEMMA joinStep ==
    ASSUME IndInv, NEW a \in Objects, join(a)
    PROVE  IndInv'
<1> USE ThreadAssumption DEF semVars, objVars, kidVars, Procs, Signalled
<1>0. TypeOK /\ SemaphoresQuiet /\ HandlesMatch /\ Handshake
      /\ RunHasItsObject /\ IdKnown /\ NamesAgree /\ NoSignalLost
  BY DEF IndInv
<1>1. TypeOK'
  <2>1. Sem!TypeOK'
    BY <1>0 DEF join, ClientFree, Live, TypeOK, Sem!TypeOK, Labels, HandlesMatch,
     Handshake
  <2> QED
    BY <1>0, <2>1 DEF join, ClientFree, Live, TypeOK, HandlesMatch
<1>2. SemaphoresQuiet'
  BY <1>0, <1>1 DEF join, ClientFree, Live, TypeOK, Sem!TypeOK, SemaphoresQuiet,
     HandlesMatch, Sem!WaitLabels, Sem!SignalLabels
<1>3. HandlesMatch'
  BY <1>0, <1>1 DEF join, ClientFree, Live, TypeOK, HandlesMatch, RunHasItsObject
<1>4. Handshake'
  BY <1>0, <1>1 DEF join, ClientFree, Live, TypeOK, Sem!TypeOK, Handshake, HandlesMatch,
     SemaphoresQuiet, RunHasItsObject, Sem!Locked, Sem!WaitLabels, Sem!SignalLabels
<1>5. RunHasItsObject'
  BY <1>0, <1>1 DEF join, ClientFree, Live, TypeOK, RunHasItsObject, HandlesMatch
<1>6. IdKnown'
  BY <1>0, <1>1 DEF join, ClientFree, Live, TypeOK, IdKnown, HandlesMatch, RunHasItsObject
<1>7. NamesAgree'
  BY <1>0, <1>1 DEF join, ClientFree, Live, TypeOK, NamesAgree, HandlesMatch
<1>8. NoSignalLost'
  BY <1>0, <1>1 DEF join, ClientFree, Live, TypeOK, Sem!TypeOK, NoSignalLost,
     HandlesMatch, Handshake, SemaphoresQuiet
<1> QED
  BY <1>1, <1>2, <1>3, <1>4, <1>5, <1>6, <1>7, <1>8 DEF IndInv

\* The handle goes when the thread has been joined.
LEMMA JoinedStep ==
    ASSUME IndInv, NEW a \in Objects, Joined(a)
    PROVE  IndInv'
<1> USE ThreadAssumption DEF semVars, objVars, kidVars, Procs, Signalled
<1>0. TypeOK /\ SemaphoresQuiet /\ HandlesMatch /\ Handshake
      /\ RunHasItsObject /\ IdKnown /\ NamesAgree /\ NoSignalLost
  BY DEF IndInv
<1>1. TypeOK'
  <2>1. Sem!TypeOK'
    BY <1>0 DEF Joined, Live, TypeOK, Sem!TypeOK, Labels, HandlesMatch, Handshake
  <2> QED
    BY <1>0, <2>1 DEF Joined, Live, TypeOK, HandlesMatch
<1>2. SemaphoresQuiet'
  BY <1>0, <1>1 DEF Joined, Live, TypeOK, Sem!TypeOK, SemaphoresQuiet, HandlesMatch,
     Sem!WaitLabels, Sem!SignalLabels
<1>3. HandlesMatch'
  BY <1>0, <1>1 DEF Joined, Live, TypeOK, HandlesMatch, RunHasItsObject
<1>4. Handshake'
  BY <1>0, <1>1 DEF Joined, Live, TypeOK, Sem!TypeOK, Handshake, HandlesMatch,
     SemaphoresQuiet, RunHasItsObject, Sem!Locked, Sem!WaitLabels, Sem!SignalLabels
<1>5. RunHasItsObject'
  BY <1>0, <1>1 DEF Joined, Live, TypeOK, RunHasItsObject, HandlesMatch
<1>6. IdKnown'
  BY <1>0, <1>1 DEF Joined, Live, TypeOK, IdKnown, HandlesMatch, RunHasItsObject
<1>7. NamesAgree'
  BY <1>0, <1>1 DEF Joined, Live, TypeOK, NamesAgree, HandlesMatch
<1>8. NoSignalLost'
  BY <1>0, <1>1 DEF Joined, Live, TypeOK, Sem!TypeOK, NoSignalLost, HandlesMatch,
     Handshake, SemaphoresQuiet
<1> QED
  BY <1>1, <1>2, <1>3, <1>4, <1>5, <1>6, <1>7, <1>8 DEF IndInv

\* The handle goes with the object, whose thread is past its signal().
LEMMA DestroyStep ==
    ASSUME IndInv, NEW a \in Objects, Destroy(a)
    PROVE  IndInv'
<1> USE ThreadAssumption DEF semVars, objVars, kidVars, Procs, Signalled
<1>0. TypeOK /\ SemaphoresQuiet /\ HandlesMatch /\ Handshake
      /\ RunHasItsObject /\ IdKnown /\ NamesAgree /\ NoSignalLost
  BY DEF IndInv
<1>1. TypeOK'
  <2>1. Sem!TypeOK'
    BY <1>0 DEF Destroy, ClientFree, Live, TypeOK, Sem!TypeOK, Labels, HandlesMatch,
     Handshake
  <2> QED
    BY <1>0, <2>1 DEF Destroy, ClientFree, Live, TypeOK, HandlesMatch
<1>2. SemaphoresQuiet'
  BY <1>0, <1>1 DEF Destroy, ClientFree, Live, TypeOK, Sem!TypeOK, SemaphoresQuiet,
     HandlesMatch, Sem!WaitLabels, Sem!SignalLabels
<1>3. HandlesMatch'
  BY <1>0, <1>1 DEF Destroy, ClientFree, Live, TypeOK, HandlesMatch, RunHasItsObject
<1>4. Handshake'
  BY <1>0, <1>1 DEF Destroy, ClientFree, Live, TypeOK, Sem!TypeOK, Handshake,
     HandlesMatch, SemaphoresQuiet, RunHasItsObject, Sem!Locked, Sem!WaitLabels,
     Sem!SignalLabels
<1>5. RunHasItsObject'
  BY <1>0, <1>1 DEF Destroy, ClientFree, Live, TypeOK, RunHasItsObject, HandlesMatch
<1>6. IdKnown'
  BY <1>0, <1>1 DEF Destroy, ClientFree, Live, TypeOK, IdKnown, HandlesMatch,
     RunHasItsObject
<1>7. NamesAgree'
  BY <1>0, <1>1 DEF Destroy, ClientFree, Live, TypeOK, NamesAgree, HandlesMatch
<1>8. NoSignalLost'
  BY <1>0, <1>1 DEF Destroy, ClientFree, Live, TypeOK, Sem!TypeOK, NoSignalLost,
     HandlesMatch, Handshake, SemaphoresQuiet
<1> QED
  BY <1>1, <1>2, <1>3, <1>4, <1>5, <1>6, <1>7, <1>8 DEF IndInv

\* The child finds its object and reads its name.
LEMMA BindLocalsStep ==
    ASSUME IndInv, NEW k \in Kids, BindLocals(k)
    PROVE  IndInv'
<1> USE ThreadAssumption DEF semVars, objVars, kidVars, Procs, Signalled
<1>0. TypeOK /\ SemaphoresQuiet /\ HandlesMatch /\ Handshake
      /\ RunHasItsObject /\ IdKnown /\ NamesAgree /\ NoSignalLost
  BY DEF IndInv
<1>1. TypeOK'
  <2>1. Sem!TypeOK'
    BY <1>0 DEF BindLocals, Goto, TypeOK, Sem!TypeOK, Labels, HandlesMatch, Handshake
  <2> QED
    BY <1>0, <2>1 DEF BindLocals, Goto, TypeOK, HandlesMatch
<1>2. SemaphoresQuiet'
  BY <1>0, <1>1 DEF BindLocals, Goto, TypeOK, Sem!TypeOK, SemaphoresQuiet, HandlesMatch,
     Sem!WaitLabels, Sem!SignalLabels
<1>3. HandlesMatch'
  BY <1>0, <1>1 DEF BindLocals, Goto, TypeOK, HandlesMatch, RunHasItsObject
<1>4. Handshake'
  BY <1>0, <1>1 DEF BindLocals, Goto, TypeOK, Sem!TypeOK, Handshake, HandlesMatch,
     SemaphoresQuiet, RunHasItsObject, Sem!Locked, Sem!WaitLabels, Sem!SignalLabels
<1>5. RunHasItsObject'
  BY <1>0, <1>1 DEF BindLocals, Goto, TypeOK, RunHasItsObject, HandlesMatch
<1>6. IdKnown'
  BY <1>0, <1>1 DEF BindLocals, Goto, TypeOK, IdKnown, HandlesMatch, RunHasItsObject
<1>7. NamesAgree'
  BY <1>0, <1>1 DEF BindLocals, Goto, TypeOK, NamesAgree, HandlesMatch
<1>8. NoSignalLost'
  BY <1>0, <1>1 DEF BindLocals, Goto, TypeOK, Sem!TypeOK, NoSignalLost, HandlesMatch,
     Handshake, SemaphoresQuiet
<1> QED
  BY <1>1, <1>2, <1>3, <1>4, <1>5, <1>6, <1>7, <1>8 DEF IndInv

\* The id of the object is that of its child.
LEMMA SetIdStep ==
    ASSUME IndInv, NEW k \in Kids, SetId(k)
    PROVE  IndInv'
<1> USE ThreadAssumption DEF semVars, objVars, kidVars, Procs, Signalled
<1>0. TypeOK /\ SemaphoresQuiet /\ HandlesMatch /\ Handshake
      /\ RunHasItsObject /\ IdKnown /\ NamesAgree /\ NoSignalLost
  BY DEF IndInv
<1>1. TypeOK'
  <2>1. Sem!TypeOK'
    BY <1>0 DEF SetId, Goto, TypeOK, Sem!TypeOK, Labels, HandlesMatch, Handshake
  <2> QED
    BY <1>0, <2>1 DEF SetId, Goto, TypeOK, HandlesMatch
<1>2. SemaphoresQuiet'
  BY <1>0, <1>1 DEF SetId, Goto, TypeOK, Sem!TypeOK, SemaphoresQuiet, HandlesMatch,
     Sem!WaitLabels, Sem!SignalLabels
<1>3. HandlesMatch'
  BY <1>0, <1>1 DEF SetId, Goto, TypeOK, HandlesMatch, RunHasItsObject
<1>4. Handshake'
  BY <1>0, <1>1 DEF SetId, Goto, TypeOK, Sem!TypeOK, Handshake, HandlesMatch,
     SemaphoresQuiet, RunHasItsObject, Sem!Locked, Sem!WaitLabels, Sem!SignalLabels
<1>5. RunHasItsObject'
  BY <1>0, <1>1 DEF SetId, Goto, TypeOK, RunHasItsObject, HandlesMatch
<1>6. IdKnown'
  BY <1>0, <1>1 DEF SetId, Goto, TypeOK, IdKnown, HandlesMatch, RunHasItsObject
<1>7. NamesAgree'
  BY <1>0, <1>1 DEF SetId, Goto, TypeOK, NamesAgree, HandlesMatch
<1>8. NoSignalLost'
  BY <1>0, <1>1 DEF SetId, Goto, TypeOK, Sem!TypeOK, NoSignalLost, HandlesMatch,
     Handshake, SemaphoresQuiet
<1> QED
  BY <1>1, <1>2, <1>3, <1>4, <1>5, <1>6, <1>7, <1>8 DEF IndInv

\* The child has the callback before it signals.
LEMMA SwapCallbackStep ==
    ASSUME IndInv, NEW k \in Kids, SwapCallback(k)
    PROVE  IndInv'
<1> USE ThreadAssumption DEF semVars, objVars, kidVars, Procs, Signalled
<1>0. TypeOK /\ SemaphoresQuiet /\ HandlesMatch /\ Handshake
      /\ RunHasItsObject /\ IdKnown /\ NamesAgree /\ NoSignalLost
  BY DEF IndInv
<1>at. /\ arg[k] \in Objects /\ at[arg[k]][k] = "out"
      /\ at' \in [Objects -> [Procs -> Labels]]
      /\ \A b \in Objects, q \in Procs :
            at'[b][q] = IF b = arg[k] /\ q = k THEN "signalLock" ELSE at[b][q]
  <2>1. arg[k] \in Objects /\ Sem!Goto(arg[k], k, "out", "signalLock")
    BY <1>0 DEF SwapCallback, Sem!signal, HandlesMatch
  <2>2. "signalLock" \in Labels /\ k \in Procs
    BY DEF Labels, Sem!WaitLabels, Sem!SignalLabels
  <2>3. at \in [Objects -> [Procs -> Labels]]
    BY <1>0 DEF TypeOK, Sem!TypeOK, Labels
  <2> HIDE DEF Procs
  <2> QED
    BY <2>1, <2>2, <2>3 DEF Sem!Goto
<1>1. TypeOK'
  <2>1. Sem!TypeOK'
    BY <1>0, <1>at DEF SwapCallback, Goto, Sem!signal, TypeOK, Sem!TypeOK, Labels,
     HandlesMatch, Handshake
  <2> QED
    BY <1>0, <1>at, <2>1 DEF SwapCallback, Goto, Sem!signal, TypeOK, HandlesMatch
<1>2. SemaphoresQuiet'
  BY <1>0, <1>at, <1>1 DEF SwapCallback, Goto, Sem!signal, TypeOK, Sem!TypeOK,
     SemaphoresQuiet, HandlesMatch, Sem!WaitLabels, Sem!SignalLabels
<1>3. HandlesMatch'
  BY <1>0, <1>at, <1>1 DEF SwapCallback, Goto, Sem!signal, TypeOK, Sem!TypeOK,
     HandlesMatch, RunHasItsObject
<1>4. Handshake'
  BY <1>0, <1>at, <1>1 DEF SwapCallback, Goto, Sem!signal, TypeOK, Sem!TypeOK, Handshake,
     HandlesMatch, SemaphoresQuiet, RunHasItsObject, Sem!Locked, Sem!WaitLabels,
     Sem!SignalLabels
<1>5. RunHasItsObject'
  BY <1>0, <1>at, <1>1 DEF SwapCallback, Goto, Sem!signal, TypeOK, Sem!TypeOK,
     RunHasItsObject, HandlesMatch
<1>6. IdKnown'
  BY <1>0, <1>at, <1>1 DEF SwapCallback, Goto, Sem!signal, TypeOK, Sem!TypeOK, IdKnown,
     HandlesMatch, RunHasItsObject
<1>7. NamesAgree'
  BY <1>0, <1>at, <1>1 DEF SwapCallback, Goto, Sem!signal, TypeOK, Sem!TypeOK,
     NamesAgree, HandlesMatch
<1>8. NoSignalLost'
  BY <1>0, <1>at, <1>1 DEF SwapCallback, Goto, Sem!signal, TypeOK, Sem!TypeOK,
     NoSignalLost, HandlesMatch, Handshake, SemaphoresQuiet
<1> QED
  BY <1>1, <1>2, <1>3, <1>4, <1>5, <1>6, <1>7, <1>8 DEF IndInv

\* The child is out of its semaphore for good.
LEMMA KidSignalledStep ==
    ASSUME IndInv, NEW k \in Kids, KidSignalled(k)
    PROVE  IndInv'
<1> USE ThreadAssumption DEF semVars, objVars, kidVars, Procs, Signalled
<1>0. TypeOK /\ SemaphoresQuiet /\ HandlesMatch /\ Handshake
      /\ RunHasItsObject /\ IdKnown /\ NamesAgree /\ NoSignalLost
  BY DEF IndInv
<1>at. /\ arg[k] \in Objects /\ at[arg[k]][k] = "unlock"
      /\ at' \in [Objects -> [Procs -> Labels]]
      /\ \A b \in Objects, q \in Procs :
            at'[b][q] = IF b = arg[k] /\ q = k THEN "out" ELSE at[b][q]
  <2>1. arg[k] \in Objects /\ Sem!Goto(arg[k], k, "unlock", "out")
    BY <1>0 DEF KidSignalled, Sem!Unlocks, HandlesMatch
  <2>2. "out" \in Labels /\ k \in Procs
    BY DEF Labels, Sem!WaitLabels, Sem!SignalLabels
  <2>3. at \in [Objects -> [Procs -> Labels]]
    BY <1>0 DEF TypeOK, Sem!TypeOK, Labels
  <2> HIDE DEF Procs
  <2> QED
    BY <2>1, <2>2, <2>3 DEF Sem!Goto
<1>1. TypeOK'
  <2>1. Sem!TypeOK'
    BY <1>0, <1>at DEF KidSignalled, Goto, Sem!Unlocks, TypeOK, Sem!TypeOK, Labels,
     HandlesMatch, Handshake
  <2> QED
    BY <1>0, <1>at, <2>1 DEF KidSignalled, Goto, Sem!Unlocks, TypeOK, HandlesMatch
<1>2. SemaphoresQuiet'
  BY <1>0, <1>at, <1>1 DEF KidSignalled, Goto, Sem!Unlocks, TypeOK, Sem!TypeOK,
     SemaphoresQuiet, HandlesMatch, Sem!WaitLabels, Sem!SignalLabels
<1>3. HandlesMatch'
  BY <1>0, <1>at, <1>1 DEF KidSignalled, Goto, Sem!Unlocks, TypeOK, Sem!TypeOK,
     HandlesMatch, RunHasItsObject
<1>4. Handshake'
  BY <1>0, <1>at, <1>1 DEF KidSignalled, Goto, Sem!Unlocks, TypeOK, Sem!TypeOK,
     Handshake, HandlesMatch, SemaphoresQuiet, RunHasItsObject, Sem!Locked,
     Sem!WaitLabels, Sem!SignalLabels
<1>5. RunHasItsObject'
  BY <1>0, <1>at, <1>1 DEF KidSignalled, Goto, Sem!Unlocks, TypeOK, Sem!TypeOK,
     RunHasItsObject, HandlesMatch
<1>6. IdKnown'
  BY <1>0, <1>at, <1>1 DEF KidSignalled, Goto, Sem!Unlocks, TypeOK, Sem!TypeOK, IdKnown,
     HandlesMatch, RunHasItsObject
<1>7. NamesAgree'
  BY <1>0, <1>at, <1>1 DEF KidSignalled, Goto, Sem!Unlocks, TypeOK, Sem!TypeOK,
     NamesAgree, HandlesMatch
<1>8. NoSignalLost'
  BY <1>0, <1>at, <1>1 DEF KidSignalled, Goto, Sem!Unlocks, TypeOK, Sem!TypeOK,
     NoSignalLost, HandlesMatch, Handshake, SemaphoresQuiet
<1> QED
  BY <1>1, <1>2, <1>3, <1>4, <1>5, <1>6, <1>7, <1>8 DEF IndInv

\* The name in the object and the thread's own change together.
LEMMA setRunningThreadNameStep ==
    ASSUME IndInv, NEW k \in Kids, NEW name \in Names, setRunningThreadName(k, name)
    PROVE  IndInv'
<1> USE ThreadAssumption DEF semVars, objVars, kidVars, Procs, Signalled
<1>0. TypeOK /\ SemaphoresQuiet /\ HandlesMatch /\ Handshake
      /\ RunHasItsObject /\ IdKnown /\ NamesAgree /\ NoSignalLost
  BY DEF IndInv
<1>1. TypeOK'
  <2>1. Sem!TypeOK'
    BY <1>0 DEF setRunningThreadName, TypeOK, Sem!TypeOK, Labels, HandlesMatch, Handshake
  <2> QED
    BY <1>0, <2>1 DEF setRunningThreadName, TypeOK, HandlesMatch
<1>2. SemaphoresQuiet'
  BY <1>0, <1>1 DEF setRunningThreadName, TypeOK, Sem!TypeOK, SemaphoresQuiet,
     HandlesMatch, Sem!WaitLabels, Sem!SignalLabels
<1>3. HandlesMatch'
  BY <1>0, <1>1 DEF setRunningThreadName, TypeOK, HandlesMatch, RunHasItsObject
<1>4. Handshake'
  BY <1>0, <1>1 DEF setRunningThreadName, TypeOK, Sem!TypeOK, Handshake, HandlesMatch,
     SemaphoresQuiet, RunHasItsObject, Sem!Locked, Sem!WaitLabels, Sem!SignalLabels
<1>5. RunHasItsObject'
  BY <1>0, <1>1 DEF setRunningThreadName, TypeOK, RunHasItsObject, HandlesMatch
<1>6. IdKnown'
  BY <1>0, <1>1 DEF setRunningThreadName, TypeOK, IdKnown, HandlesMatch, RunHasItsObject
<1>7. NamesAgree'
  BY <1>0, <1>1 DEF setRunningThreadName, TypeOK, NamesAgree, HandlesMatch
<1>8. NoSignalLost'
  BY <1>0, <1>1 DEF setRunningThreadName, TypeOK, Sem!TypeOK, NoSignalLost, HandlesMatch,
     Handshake, SemaphoresQuiet
<1> QED
  BY <1>1, <1>2, <1>3, <1>4, <1>5, <1>6, <1>7, <1>8 DEF IndInv

\* The child ends.
LEMMA CallbackReturnsStep ==
    ASSUME IndInv, NEW k \in Kids, CallbackReturns(k)
    PROVE  IndInv'
<1> USE ThreadAssumption DEF semVars, objVars, kidVars, Procs, Signalled
<1>0. TypeOK /\ SemaphoresQuiet /\ HandlesMatch /\ Handshake
      /\ RunHasItsObject /\ IdKnown /\ NamesAgree /\ NoSignalLost
  BY DEF IndInv
<1>1. TypeOK'
  <2>1. Sem!TypeOK'
    BY <1>0 DEF CallbackReturns, Goto, TypeOK, Sem!TypeOK, Labels, HandlesMatch, Handshake
  <2> QED
    BY <1>0, <2>1 DEF CallbackReturns, Goto, TypeOK, HandlesMatch
<1>2. SemaphoresQuiet'
  BY <1>0, <1>1 DEF CallbackReturns, Goto, TypeOK, Sem!TypeOK, SemaphoresQuiet,
     HandlesMatch, Sem!WaitLabels, Sem!SignalLabels
<1>3. HandlesMatch'
  BY <1>0, <1>1 DEF CallbackReturns, Goto, TypeOK, HandlesMatch, RunHasItsObject
<1>4. Handshake'
  BY <1>0, <1>1 DEF CallbackReturns, Goto, TypeOK, Sem!TypeOK, Handshake, HandlesMatch,
     SemaphoresQuiet, RunHasItsObject, Sem!Locked, Sem!WaitLabels, Sem!SignalLabels
<1>5. RunHasItsObject'
  BY <1>0, <1>1 DEF CallbackReturns, Goto, TypeOK, RunHasItsObject, HandlesMatch
<1>6. IdKnown'
  BY <1>0, <1>1 DEF CallbackReturns, Goto, TypeOK, IdKnown, HandlesMatch, RunHasItsObject
<1>7. NamesAgree'
  BY <1>0, <1>1 DEF CallbackReturns, Goto, TypeOK, NamesAgree, HandlesMatch
<1>8. NoSignalLost'
  BY <1>0, <1>1 DEF CallbackReturns, Goto, TypeOK, Sem!TypeOK, NoSignalLost,
     HandlesMatch, Handshake, SemaphoresQuiet
<1> QED
  BY <1>1, <1>2, <1>3, <1>4, <1>5, <1>6, <1>7, <1>8 DEF IndInv

\* Each line of wait() moves the client, or hands over to Constructed.
LEMMA ClientWaitsStep ==
    ASSUME IndInv, NEW a \in Objects, ClientWaits(a) \/ ClientWakesUnasked(a)
    PROVE  IndInv'
<1>1. life[a] = "waiting" /\ UNCHANGED <<count, objVars, kidVars>>
  BY DEF ClientWaits, ClientWakesUnasked, Sem!WaitStep, Sem!WaitLocks, Sem!Tests,
     Sem!Blocks, Sem!WakesUnasked
<1>2. {"waitLock", "test", "block", "asleep", "take"} \subseteq Sem!WaitLabels
  BY DEF Sem!WaitLabels
<1>3. /\ "test" \in Sem!Locked /\ "block" \in Sem!Locked /\ "take" \in Sem!Locked
      /\ "waitLock" \notin Sem!Locked /\ "asleep" \notin Sem!Locked
  BY DEF Sem!Locked
<1>4. CASE Sem!WaitLocks(a, Client)
  <2>1. Sem!Goto(a, Client, "waitLock", "test")
    BY <1>4 DEF Sem!WaitLocks
  <2>2. \A q \in Procs : at[a][q] \notin Sem!Locked
    BY <1>4 DEF Sem!WaitLocks, Sem!Unlocked
  <2> QED
    BY <1>1, <1>2, <2>1, <2>2, ClientMovesStep
<1>5. CASE Sem!Tests(a, Client)
  <2>1. CASE count[a] = 0
    <3>1. Sem!Goto(a, Client, "test", "block")
      BY <1>5, <2>1 DEF Sem!Tests
    <3> QED
      BY <1>1, <1>2, <1>3, <2>1, <3>1, ClientMovesStep
  <2>2. CASE count[a] # 0
    <3>1. Sem!Goto(a, Client, "test", "take")
      BY <1>5, <2>2 DEF Sem!Tests
    <3>2. count[a] = 1
      BY <1>1, <2>2 DEF IndInv, Handshake
    <3> QED
      BY <1>1, <1>2, <1>3, <3>1, <3>2, ClientMovesStep
  <2> QED
    BY <2>1, <2>2
<1>6. CASE Sem!Blocks(a, Client)
  <2>1. Sem!Goto(a, Client, "block", "asleep")
    BY <1>6 DEF Sem!Blocks
  <2>2. count[a] = 0
    BY <1>1, <2>1 DEF IndInv, Handshake, Sem!Goto
  <2> QED
    BY <1>1, <1>2, <1>3, <2>1, <2>2, ClientMovesStep
<1>7. CASE Sem!WakesUnasked(a, Client)
  <2>1. Sem!Goto(a, Client, "asleep", "waitLock")
    BY <1>7 DEF Sem!WakesUnasked
  <2> QED
    BY <1>1, <1>2, <1>3, <2>1, ClientMovesStep
<1> QED
  BY <1>4, <1>5, <1>6, <1>7 DEF ClientWaits, ClientWakesUnasked, Sem!WaitStep

\* Each line of signal() moves the child, counts or wakes the client; nobody else is
\* ever asleep on the semaphore.
LEMMA KidSignalsStep ==
    ASSUME IndInv, NEW k \in Kids, KidSignals(k)
    PROVE  IndInv'
<1>1. pc[k] = "signal" /\ UNCHANGED <<objVars, kidVars>>
  BY DEF KidSignals
<1>2. arg[k] \in Objects
  BY <1>1 DEF IndInv, HandlesMatch
<1>3. {"signalLock", "increment", "notify", "unlock"} \subseteq Sem!SignalLabels
  BY DEF Sem!SignalLabels
<1>4. {"increment", "notify", "unlock"} \subseteq Sem!Locked
  BY DEF Sem!Locked
<1>5. CASE Sem!SignalLocks(arg[k], k)
  <2>1. Sem!Goto(arg[k], k, "signalLock", "increment") /\ UNCHANGED count
    BY <1>5 DEF Sem!SignalLocks
  <2>2. \A q \in Procs : at[arg[k]][q] \notin Sem!Locked
    BY <1>5 DEF Sem!SignalLocks, Sem!Unlocked
  <2> QED
    BY <1>1, <1>3, <2>1, <2>2, KidMovesStep
<1>6. CASE Sem!Increments(arg[k], k)
  BY <1>1, <1>6, KidIncrementsStep
<1>7. CASE Sem!Notifies(arg[k], k)
  <2>1. UNCHANGED count
    BY <1>7 DEF Sem!Notifies
  <2>2. CASE Sem!Asleep(arg[k]) = {} /\ Sem!Goto(arg[k], k, "notify", "unlock")
    <3>1. at[arg[k]][Client] # "asleep"
      BY <2>2 DEF Sem!Asleep, Procs
    <3> QED
      BY <1>1, <1>3, <1>4, <2>1, <2>2, <3>1, KidMovesStep
  <2>3. ASSUME NEW q \in Procs, Sem!Wakes(arg[k], k, q) PROVE IndInv'
    <3>1. at[arg[k]][q] = "asleep"
      BY <2>3 DEF Sem!Wakes
    <3>2. q = Client
      BY <1>2, <3>1 DEF IndInv, SemaphoresQuiet, Procs, Sem!SignalLabels
    <3> QED
      BY <1>1, <2>1, <2>3, <3>2, KidNotifiesStep
  <2> QED
    BY <1>7, <2>2, <2>3 DEF Sem!Notifies
<1> QED
  BY <1>5, <1>6, <1>7 DEF KidSignals, Sem!SignalStep

LEMMA StepInv == IndInv /\ [Next]_vars => IndInv'
<1> SUFFICES ASSUME IndInv, [Next]_vars PROVE IndInv'
  OBVIOUS
<1>1. CASE UNCHANGED vars
  BY <1>1 DEF vars, semVars, objVars, kidVars, IndInv, TypeOK, Sem!TypeOK, SemaphoresQuiet,
     HandlesMatch, Handshake, Signalled, RunHasItsObject, IdKnown, NamesAgree,
     NoSignalLost
<1>2. ASSUME NEW a \in Objects, ClientStep(a) PROVE IndInv'
  BY <1>2, WaitForStartStep, ClientWaitsStep, ConstructedStep, JoinedStep DEF ClientStep
<1>3. ASSUME NEW a \in Objects, ClientChooses(a) PROVE IndInv'
  BY <1>3, ThreadStep, joinStep, DestroyStep, ClientWaitsStep DEF ClientChooses
<1>4. ASSUME NEW k \in Kids, Run(k) PROVE IndInv'
  BY <1>4, BindLocalsStep, SetIdStep, SwapCallbackStep, KidSignalsStep, KidSignalledStep
     DEF Run
<1>5. ASSUME NEW k \in Kids, Callback(k) PROVE IndInv'
  BY <1>5, CallbackReturnsStep, setRunningThreadNameStep DEF Callback
<1> QED
  BY <1>1, <1>2, <1>3, <1>4, <1>5 DEF Next

\* The handshake of the constructor with Thread::run(), whatever the semaphore's
\* condition variable does.
THEOREM HandshakeHolds == Spec => []IndInv
BY InitInv, StepInv, PTL DEF Spec

\* Types, for any children, objects and names.
THEOREM Typed == Spec => []TypeOK
<1>1. IndInv => TypeOK
  BY DEF IndInv
<1> QED
  BY <1>1, HandshakeHolds, PTL

\* No Thread is destroyed while its run() still works on it.
THEOREM ObjectOutlivesRun == Spec => []RunHasItsObject
<1>1. IndInv => RunHasItsObject
  BY DEF IndInv
<1> QED
  BY <1>1, HandshakeHolds, PTL

\* getId() is never -1 once the constructor has returned.
THEOREM IdIsKnown == Spec => []IdKnown
<1>1. IndInv => IdKnown
  BY DEF IndInv
<1> QED
  BY <1>1, HandshakeHolds, PTL

\* No signal() of a child is lost.
THEOREM NoSignalIsLost == Spec => []NoSignalLost
<1>1. IndInv => NoSignalLost
  BY DEF IndInv
<1> QED
  BY <1>1, HandshakeHolds, PTL

\* The two names of a thread agree as long as nobody writes through a lost object.
THEOREM NamesDoAgree == Spec => []NamesAgree
<1>1. IndInv => NamesAgree
  BY DEF IndInv
<1> QED
  BY <1>1, HandshakeHolds, PTL

\* A thread that is neither joined nor detached has its handle in one object.
THEOREM JoinedOrDetachedOnce == Spec => []HandleOnce
<1>1. IndInv => HandleOnce
  <2> SUFFICES ASSUME IndInv, NEW k \in Kids
               PROVE  LET Holders == {a \in Objects : life[a] # "none" /\ _thread[a] = k}
                      IN  IF pthread[k] = "joinable" THEN Cardinality(Holders) = 1
                                                     ELSE Holders = {}
    BY DEF HandleOnce
  <2> DEFINE Holders == {a \in Objects : life[a] # "none" /\ _thread[a] = k}
  <2>1. HandlesMatch
    BY DEF IndInv
  <2>2. CASE pthread[k] = "joinable"
    <3>1. Holders = {arg[k]}
      BY <2>1, <2>2, ThreadAssumption DEF HandlesMatch
    <3>2. Cardinality(Holders) = 1
      BY <3>1, FS_Singleton
    <3> QED
      BY <2>2, <3>2
  <2>3. CASE pthread[k] # "joinable"
    <3>1. Holders = {}
      BY <2>1, <2>3, ThreadAssumption DEF HandlesMatch
    <3> QED
      BY <2>3, <3>1
  <2> QED
    BY <2>2, <2>3
<1> QED
  BY <1>1, HandshakeHolds, PTL
----------------------------------------------------------------------------
(* The composition: what is proved of every Semaphore holds of the objects' *)

SP == INSTANCE SemaphoreProofs WITH Semaphores <- Objects

\* Every step is one of the semaphore of an object, or leaves them all alone.
LEMMA SemStep == IndInv /\ [Next]_vars => [SP!Next]_SP!semVars
<1> SUFFICES ASSUME IndInv, Next PROVE SP!Next \/ UNCHANGED semVars
  BY DEF vars, semVars, SP!semVars
<1> USE DEF SP!Next, Procs
<1>1. ASSUME NEW a \in Objects, ClientStep(a) PROVE SP!Next \/ UNCHANGED semVars
  <2>1. CASE WaitForStart(a)
    BY <2>1 DEF WaitForStart, Sem!wait, Sem!Goto, SP!wait, SP!Goto
  <2>2. CASE ClientWaits(a)
    <3>1. SP!WaitStep(a, Client)
      BY <2>2 DEF ClientWaits, Sem!WaitStep, Sem!WaitLocks, Sem!Tests, Sem!Blocks, Sem!Goto,
         Sem!Unlocked, Sem!Locked, SP!WaitStep, SP!WaitLocks, SP!Tests, SP!Blocks, SP!Goto,
         SP!Unlocked, SP!Locked
    <3> QED
      BY <3>1
  <2>3. CASE Constructed(a)
    BY <2>3 DEF Constructed, Sem!Takes, Sem!Goto, SP!Takes, SP!Goto
  <2>4. CASE Joined(a)
    BY <2>4 DEF Joined
  <2> QED
    BY <1>1, <2>1, <2>2, <2>3, <2>4 DEF ClientStep
<1>2. ASSUME NEW a \in Objects, ClientChooses(a) PROVE SP!Next \/ UNCHANGED semVars
  <2>1. ASSUME NEW k \in Kids, NEW name \in Names, Thread(a, k, name) PROVE SP!Construct(a)
    BY <2>1 DEF Thread, Sem!Construct, SP!Construct
  <2>2. CASE join(a) \/ Destroy(a)
    BY <2>2 DEF join, Destroy
  <2>3. CASE ClientWakesUnasked(a)
    BY <2>3 DEF ClientWakesUnasked, Sem!WakesUnasked, Sem!Goto, SP!WakesUnasked, SP!Goto
  <2> QED
    BY <1>2, <2>1, <2>2, <2>3 DEF ClientChooses
<1>3. ASSUME NEW k \in Kids, Run(k) PROVE SP!Next \/ UNCHANGED semVars
  <2>0. arg[k] \in Objects
    BY <1>3 DEF Run, BindLocals, SetId, SwapCallback, KidSignals, KidSignalled, IndInv,
       HandlesMatch
  <2>1. CASE BindLocals(k) \/ SetId(k)
    BY <2>1 DEF BindLocals, SetId
  <2>2. CASE SwapCallback(k)
    BY <2>0, <2>2 DEF SwapCallback, Sem!signal, Sem!Goto, SP!signal, SP!Goto
  <2>3. CASE KidSignals(k)
    <3>1. SP!SignalStep(arg[k], k)
      BY <2>3 DEF KidSignals, Sem!SignalStep, Sem!SignalLocks, Sem!Increments, Sem!Notifies,
         Sem!Wakes, Sem!Asleep, Sem!Goto, Sem!Unlocked, Sem!Locked, SP!SignalStep,
         SP!SignalLocks, SP!Increments, SP!Notifies, SP!Wakes, SP!Asleep, SP!Goto,
         SP!Unlocked, SP!Locked
    <3> QED
      BY <2>0, <3>1
  <2>4. CASE KidSignalled(k)
    BY <2>0, <2>4 DEF KidSignalled, Sem!Unlocks, Sem!Goto, SP!Unlocks, SP!Goto
  <2> QED
    BY <1>3, <2>1, <2>2, <2>3, <2>4 DEF Run
<1>4. ASSUME NEW k \in Kids, Callback(k) PROVE UNCHANGED semVars
  BY <1>4 DEF Callback, CallbackReturns, setRunningThreadName
<1> QED
  BY <1>1, <1>2, <1>3, <1>4 DEF Next

\* Both instances of Semaphore have the same requests.
LEMMA SameCounting == SP!Counting!Spec => Sem!Counting!Spec
<1>1. SP!Requests = Sem!Requests
  BY DEF SP!Requests, Sem!Requests, SP!Asked, Sem!Asked, SP!WaitLabels, Sem!WaitLabels
<1>2. SP!Requests' = Sem!Requests'
  BY DEF SP!Requests, Sem!Requests, SP!Asked, Sem!Asked, SP!WaitLabels, Sem!WaitLabels
<1>3. SP!Counting!Init => Sem!Counting!Init
  BY <1>1 DEF SP!Counting!Init, Sem!Counting!Init
<1>4. [SP!Counting!Next]_SP!Counting!semVars => [Sem!Counting!Next]_Sem!Counting!semVars
  BY <1>1, <1>2
     DEF SP!Counting!Next, SP!Counting!Renew, SP!Counting!P, SP!Counting!V,
         SP!Counting!Ask, SP!Counting!semVars, Sem!Counting!Next, Sem!Counting!Renew,
         Sem!Counting!P, Sem!Counting!V, Sem!Counting!Ask, Sem!Counting!semVars
<1> QED
  BY <1>3, <1>4, PTL DEF SP!Counting!Spec, Sem!Counting!Spec

\* The semaphores of the Thread objects count, through any number of constructions
\* and destructions: what Semaphore implements on its own it implements in a Thread.
THEOREM SemaphoresDoCount == Spec => SemaphoresCount
<1>1. Init => SP!Init
  BY DEF Init, Sem!Init, SP!Init
<1>2. Spec => SP!Spec
  BY <1>1, SemStep, HandshakeHolds, PTL DEF Spec, SP!Spec
<1> QED
  BY <1>2, SP!ImplementsCounting, SameCounting, PTL DEF SemaphoresCount
----------------------------------------------------------------------------
(* The implementation of ThreadLife *)

\* No operation begins before the one before it is over.
LEMMA OneOperationStep ==
    ASSUME IndInv, OneOperation, [Next]_vars
    PROVE  OneOperation'
<1> USE DEF OneOperation, IndInv, TypeOK, Live, semVars, objVars, kidVars
<1>1. ASSUME NEW a \in Objects, ClientStep(a) PROVE OneOperation'
  BY <1>1 DEF ClientStep, WaitForStart, ClientWaits, Constructed, Joined
<1>2. ASSUME NEW a \in Objects, ClientChooses(a) PROVE OneOperation'
  BY <1>2 DEF ClientChooses, ClientFree, Thread, join, Destroy, ClientWakesUnasked
<1>3. CASE UNCHANGED life
  BY <1>3
<1> QED
  BY <1>1, <1>2, <1>3
     DEF Next, vars, Run, BindLocals, SetId, SwapCallback, KidSignals, KidSignalled,
         Callback, CallbackReturns, setRunningThreadName

\* The handshake and the client's one operation, together.
LEMMA OneAtATime == Spec => [](IndInv /\ OneOperation)
<1>1. Init => OneOperation
  BY DEF Init, OneOperation
<1> QED
  BY <1>1, OneOperationStep, HandshakeHolds, PTL DEF Spec

\* A step that changes no child's stage and no handle, and neither begins nor ends a
\* constructor, is invisible.
LEMMA SameLife ==
    ASSUME \A k \in Kids : Stage(k)' = Stage(k),
           UNCHANGED <<pthread, Constructing>>
    PROVE  UNCHANGED Life!lifeVars
<1>1. Stages' = Stages
  BY DEF Stages
<1>2. Handles' = Handles
  BY DEF Handles, Handle
<1> QED
  BY <1>1, <1>2 DEF Life!lifeVars

\* What a child is to the client depends on its own place alone.
LEMMA StageKept ==
    ASSUME NEW k \in Kids,
           pc'[k] = pc[k], arg'[k] = arg[k],
           at'[arg[k]][k] \in {"notify", "unlock"} <=> at[arg[k]][k] \in {"notify", "unlock"}
    PROVE  Stage(k)' = Stage(k)
  BY DEF Stage, Signalled

\* The client's own moves in a semaphore are no child's.
LEMMA ClientsMove ==
    ASSUME IndInv, NEW a \in Objects, NEW from, NEW to, Sem!Goto(a, Client, from, to),
           UNCHANGED <<pc, arg>>
    PROVE  \A k \in Kids : Stage(k)' = Stage(k)
<1> SUFFICES ASSUME NEW k \in Kids PROVE Stage(k)' = Stage(k)
  OBVIOUS
<1>1. at'[arg[k]][k] = at[arg[k]][k]
  BY ThreadAssumption DEF IndInv, TypeOK, Sem!TypeOK, Sem!Goto, Procs
<1> QED
  BY <1>1, StageKept

\* A child's moves in its semaphore are its own.
LEMMA KidsMove ==
    ASSUME IndInv, NEW k \in Kids, NEW from, NEW to, Sem!Goto(arg[k], k, from, to),
           arg[k] \in Objects, UNCHANGED arg
    PROVE  /\ at[arg[k]][k] = from /\ at'[arg[k]][k] = to
           /\ \A j \in Kids \ {k} : at'[arg[j]][j] = at[arg[j]][j]
<1>1. at \in [Objects -> [Procs -> Labels]] /\ k \in Procs
  BY DEF IndInv, TypeOK, Sem!TypeOK, Procs, Labels
<1>2. at' = [at EXCEPT ![arg[k]][k] = to] /\ at[arg[k]][k] = from
  BY DEF Sem!Goto
<1> QED
  BY <1>1, <1>2

\* The constructor starts a thread.
LEMMA LifeOfThread ==
    ASSUME IndInv, NEW a \in Objects, NEW k \in Kids, NEW name \in Names,
           Thread(a, k, name)
    PROVE  Life!Construct(k)
<1>1. ~Constructing /\ Constructing'
  BY DEF Thread, ClientFree, Live, Constructing, IndInv, TypeOK
<1>2. Stage(k) = "none" /\ Stage(k)' = "starting"
  BY DEF Thread, Stage, Signalled, Goto, Sem!Construct, IndInv, TypeOK, Procs
<1>3. \A j \in Kids \ {k} : Stage(j)' = Stage(j)
  <2>1. \A j \in Kids \ {k} : pc'[j] = pc[j] /\ arg'[j] = arg[j] /\ at' = at
    BY DEF Thread, Goto, Sem!Construct, IndInv, TypeOK
  <2> QED
    BY <2>1, StageKept
<1>4. pthread' = [pthread EXCEPT ![k] = "joinable"] /\ pthread[k] = "none"
  BY DEF Thread, IndInv, HandlesMatch
<1>5. Handles' = [Handles EXCEPT ![k] = "owned"]
  BY <1>4 DEF Handles, Handle, IndInv, TypeOK
<1>6. Stages[k] = "none" /\ Stages' = [Stages EXCEPT ![k] = "starting"]
  BY <1>2, <1>3 DEF Stages
<1> QED
  BY <1>1, <1>5, <1>6 DEF Life!Construct

\* The one child that is on its way belongs to the object under construction, and
\* the count its constructor takes is that child's.
LEMMA LifeOfConstructed ==
    ASSUME IndInv, OneOperation, NEW a \in Objects, Constructed(a)
    PROVE  Life!Constructed
<1>1. /\ life[a] = "waiting" /\ Sem!Goto(a, Client, "take", "out")
      /\ UNCHANGED <<pc, arg, pthread>>
  BY DEF Constructed, Sem!Takes, kidVars
<1>2. Constructing /\ ~Constructing'
  <2>1. \A b \in Objects : b # a => life[b] \in {"none", "built"}
    BY <1>1 DEF OneOperation, IndInv, TypeOK
  <2>2. life' = [life EXCEPT ![a] = "built"]
    BY DEF Constructed, Live
  <2> QED
    BY <1>1, <2>1, <2>2 DEF Constructing, IndInv, TypeOK
<1>3. \A k \in Kids : Stage(k) # "starting"
  <2> SUFFICES ASSUME NEW k \in Kids, Stage(k) = "starting" PROVE FALSE
    OBVIOUS
  <2>1. pc[k] \in {"start", "setId", "swap", "signal"} /\ ~Signalled(arg[k], k)
    BY DEF Stage, Signalled, IndInv, TypeOK
  <2>2. life[arg[k]] \in {"created", "waiting"} /\ _thread[arg[k]] = k /\ arg[k] \in Objects
    BY <2>1 DEF IndInv, RunHasItsObject, HandlesMatch
  <2>3. arg[k] = a
    BY <1>1, <2>2 DEF OneOperation
  <2>4. count[a] = 1 /\ at[a][Client] = "take"
    BY <1>1 DEF IndInv, Handshake, Sem!Goto
  <2> QED
    BY <1>1, <2>1, <2>2, <2>3, <2>4 DEF IndInv, Handshake
<1>4. \A k \in Kids : Stage(k)' = Stage(k)
  BY <1>1, ClientsMove
<1>5. Stages' = Stages /\ \A k \in Kids : Stages[k] # "starting"
  BY <1>3, <1>4 DEF Stages
<1>6. Handles' = Handles
  BY <1>1 DEF Handles, Handle
<1> QED
  BY <1>2, <1>5, <1>6 DEF Life!Constructed

\* pthread_join() returns for a thread that has ended and whose handle is kept.
LEMMA LifeOfJoined ==
    ASSUME IndInv, OneOperation, NEW a \in Objects, Joined(a)
    PROVE  Life!Next
<1> DEFINE k == _thread[a]
<1>1. /\ life[a] = "joining" /\ k \in Kids /\ pc[k] = "ended" /\ pthread[k] = "joinable"
      /\ pthread' = [pthread EXCEPT ![k] = "joined"]
      /\ life' = [life EXCEPT ![a] = "built"]
      /\ UNCHANGED <<pc, arg, at>>
  BY DEF Joined, Live, semVars, IndInv, TypeOK, HandlesMatch
<1>2. ~Constructing /\ UNCHANGED Constructing
  BY <1>1 DEF OneOperation, Constructing, IndInv, TypeOK
<1>3. Stages' = Stages /\ Stages[k] = "ended"
  BY <1>1, StageKept DEF Stages, Stage
<1>4. /\ Handles[k] = "owned"
      /\ Handles' = [j \in Kids |-> IF j \in {k} THEN "joined" ELSE Handles[j]]
  BY <1>1 DEF Handles, Handle, IndInv, TypeOK
<1>5. Life!Join({k})
  BY <1>2, <1>3, <1>4 DEF Life!Join
<1> QED
  BY <1>1, <1>5 DEF Life!Next

\* The destructor detaches the thread, or there is none any more.
LEMMA LifeOfDestroy ==
    ASSUME IndInv, NEW a \in Objects, Destroy(a)
    PROVE  Life!Next \/ UNCHANGED Life!lifeVars
<1> DEFINE k == _thread[a]
<1>1. /\ ClientFree /\ life' = [life EXCEPT ![a] = "none"]
      /\ pthread' = [j \in Kids |-> IF j = k THEN "detached" ELSE pthread[j]]
      /\ UNCHANGED <<pc, arg, at>>
  BY DEF Destroy, Live, semVars
<1>2. ~Constructing /\ UNCHANGED Constructing
  BY <1>1 DEF ClientFree, Constructing, IndInv, TypeOK
<1>3. \A j \in Kids : Stage(j)' = Stage(j)
  BY <1>1, StageKept
<1>4. CASE k \in Kids
  <2>1. pthread[k] = "joinable"
    BY <1>4, ThreadAssumption DEF IndInv, HandlesMatch
  <2>2. Handles[k] = "owned" /\ Handles' = [Handles EXCEPT ![k] = "detached"]
    BY <1>1, <1>4, <2>1 DEF Handles, Handle
  <2>3. Stages' = Stages
    BY <1>3 DEF Stages
  <2>4. Life!Detach(k)
    BY <1>2, <2>2, <2>3 DEF Life!Detach
  <2> QED
    BY <1>4, <2>4 DEF Life!Next
<1>5. CASE k \notin Kids
  <2>1. pthread' = pthread
    BY <1>1, <1>5 DEF IndInv, TypeOK
  <2> QED
    BY <1>2, <1>3, <2>1, SameLife
<1> QED
  BY <1>4, <1>5

\* Thread::run() comes up with the increment of its signal(), its other lines do not
\* show.
LEMMA LifeOfRun ==
    ASSUME IndInv, NEW k \in Kids, Run(k)
    PROVE  Life!Next \/ UNCHANGED Life!lifeVars
<1>0. pthread' = pthread /\ arg' = arg /\ Constructing' = Constructing
  BY DEF Run, BindLocals, SetId, SwapCallback, KidSignals, KidSignalled, semVars, objVars,
         kidVars, Constructing
<1>1. arg[k] \in Objects
  BY DEF Run, BindLocals, SetId, SwapCallback, KidSignals, KidSignalled, IndInv,
         HandlesMatch
<1>2. \A j \in Kids \ {k} : pc'[j] = pc[j]
  BY DEF Run, BindLocals, SetId, SwapCallback, KidSignals, KidSignalled, Goto, kidVars,
         IndInv, TypeOK
<1>3. CASE BindLocals(k) \/ SetId(k)
  <2>1. at' = at /\ pc[k] \in {"start", "setId"} /\ pc'[k] \in {"setId", "swap"}
    BY <1>3 DEF BindLocals, SetId, Goto, semVars, IndInv, TypeOK
  <2>2. Stage(k)' = Stage(k)
    BY <1>0, <2>1 DEF Stage, Signalled
  <2> QED
    BY <1>0, <1>2, <2>1, <2>2, StageKept, SameLife
<1>4. CASE SwapCallback(k)
  <2>1. pc[k] = "swap" /\ pc'[k] = "signal" /\ Sem!Goto(arg[k], k, "out", "signalLock")
    BY <1>4 DEF SwapCallback, Sem!signal, Goto, IndInv, TypeOK
  <2>2. /\ at[arg[k]][k] = "out" /\ at'[arg[k]][k] = "signalLock"
        /\ \A j \in Kids \ {k} : at'[arg[j]][j] = at[arg[j]][j]
    BY <1>0, <1>1, <2>1, KidsMove
  <2>3. Stage(k)' = Stage(k)
    BY <1>0, <2>1, <2>2 DEF Stage, Signalled
  <2> QED
    BY <1>0, <1>2, <2>2, <2>3, StageKept, SameLife
<1>5. CASE KidSignalled(k)
  <2>1. pc[k] = "signal" /\ pc'[k] = "callback" /\ Sem!Goto(arg[k], k, "unlock", "out")
    BY <1>5 DEF KidSignalled, Sem!Unlocks, Goto, IndInv, TypeOK
  <2>2. /\ at[arg[k]][k] = "unlock" /\ at'[arg[k]][k] = "out"
        /\ \A j \in Kids \ {k} : at'[arg[j]][j] = at[arg[j]][j]
    BY <1>0, <1>1, <2>1, KidsMove
  <2>3. Stage(k)' = Stage(k)
    BY <1>0, <2>1, <2>2 DEF Stage, Signalled
  <2> QED
    BY <1>0, <1>2, <2>2, <2>3, StageKept, SameLife
<1>6. CASE KidSignals(k)
  <2>0. pc[k] = "signal" /\ pc' = pc
    BY <1>6 DEF KidSignals, kidVars
  <2>1. CASE Sem!SignalLocks(arg[k], k)
    <3>1. /\ at[arg[k]][k] = "signalLock" /\ at'[arg[k]][k] = "increment"
          /\ \A j \in Kids \ {k} : at'[arg[j]][j] = at[arg[j]][j]
      BY <1>0, <1>1, <2>1, KidsMove DEF Sem!SignalLocks
    <3> QED
      BY <1>0, <2>0, <3>1, StageKept, SameLife
  <2>2. CASE Sem!Increments(arg[k], k)
    <3>1. /\ at[arg[k]][k] = "increment" /\ at'[arg[k]][k] = "notify"
          /\ \A j \in Kids \ {k} : at'[arg[j]][j] = at[arg[j]][j]
      BY <1>0, <1>1, <2>2, KidsMove DEF Sem!Increments
    <3>2. Stage(k) = "starting" /\ Stage(k)' = "running"
      BY <1>0, <2>0, <3>1 DEF Stage, Signalled
    <3>3. \A j \in Kids \ {k} : Stage(j)' = Stage(j)
      BY <1>0, <2>0, <3>1, StageKept
    <3>4. Stages[k] = "starting" /\ Stages' = [Stages EXCEPT ![k] = "running"]
      BY <3>2, <3>3 DEF Stages
    <3>5. Handles' = Handles
      BY <1>0 DEF Handles, Handle
    <3>6. Life!ComesUp(k)
      BY <1>0, <3>4, <3>5 DEF Life!ComesUp
    <3> QED
      BY <3>6 DEF Life!Next
  <2>3. CASE Sem!Notifies(arg[k], k)
    <3>1. /\ at[arg[k]][k] = "notify" /\ at'[arg[k]][k] = "unlock"
          /\ \A j \in Kids \ {k} :
                \/ at'[arg[j]][j] = at[arg[j]][j]
                \/ at[arg[j]][j] = "asleep" /\ at'[arg[j]][j] = "waitLock"
      <4>1. CASE Sem!Goto(arg[k], k, "notify", "unlock")
        <5>1. /\ at[arg[k]][k] = "notify" /\ at'[arg[k]][k] = "unlock"
              /\ \A j \in Kids \ {k} : at'[arg[j]][j] = at[arg[j]][j]
          BY <1>0, <1>1, <4>1, KidsMove
        <5> QED
          BY <5>1
      <4>2. ASSUME NEW q \in Procs, Sem!Wakes(arg[k], k, q) PROVE <3>1
        <5>1. /\ at \in [Objects -> [Procs -> Labels]] /\ k \in Procs /\ k # q
              /\ at[arg[k]][k] = "notify" /\ at[arg[k]][q] = "asleep"
              /\ at' = [at EXCEPT ![arg[k]][k] = "unlock", ![arg[k]][q] = "waitLock"]
          BY <4>2 DEF IndInv, TypeOK, Sem!TypeOK, Procs, Labels, Sem!Wakes
        <5> QED
          BY <1>0, <1>1, <5>1
      <4> QED
        BY <2>3, <4>1, <4>2 DEF Sem!Notifies
    <3> QED
      BY <1>0, <2>0, <3>1, StageKept, SameLife
  <2> QED
    BY <1>6, <2>1, <2>2, <2>3 DEF KidSignals, Sem!SignalStep
<1> QED
  BY <1>3, <1>4, <1>5, <1>6 DEF Run

\* The callback's return is the thread's end.
LEMMA LifeOfCallback ==
    ASSUME IndInv, NEW k \in Kids, Callback(k)
    PROVE  Life!Next \/ UNCHANGED Life!lifeVars
<1>0. pthread' = pthread /\ arg' = arg /\ at' = at /\ Constructing' = Constructing
  BY DEF Callback, CallbackReturns, setRunningThreadName, semVars, objVars, Constructing
<1>1. CASE CallbackReturns(k)
  <2>1. Stage(k) = "running" /\ Stage(k)' = "ended"
    BY <1>1 DEF CallbackReturns, Goto, Stage, Signalled, IndInv, TypeOK
  <2>2. \A j \in Kids \ {k} : pc'[j] = pc[j]
    BY <1>1 DEF CallbackReturns, Goto, IndInv, TypeOK
  <2>3. \A j \in Kids \ {k} : Stage(j)' = Stage(j)
    BY <1>0, <2>2, StageKept
  <2>4. Stages[k] = "running" /\ Stages' = [Stages EXCEPT ![k] = "ended"]
    BY <2>1, <2>3 DEF Stages
  <2>5. Handles' = Handles
    BY <1>0 DEF Handles, Handle
  <2>6. Life!Ends(k)
    BY <1>0, <2>4, <2>5 DEF Life!Ends
  <2> QED
    BY <2>6 DEF Life!Next
<1>2. CASE \E name \in Names : setRunningThreadName(k, name)
  <2>1. pc' = pc
    BY <1>2 DEF setRunningThreadName
  <2> QED
    BY <1>0, <2>1, StageKept, SameLife
<1> QED
  BY <1>1, <1>2 DEF Callback

\* Every step is one of ThreadLife or does not show.
LEMMA LifeStep ==
    ASSUME IndInv, OneOperation, [Next]_vars
    PROVE  [Life!Next]_(Life!lifeVars)
<1>1. ASSUME NEW a \in Objects, WaitForStart(a) \/ ClientWaits(a) \/ ClientWakesUnasked(a)
      PROVE  UNCHANGED Life!lifeVars
  <2>1. /\ UNCHANGED <<pc, arg, pthread>>
        /\ \E from, to \in Labels : Sem!Goto(a, Client, from, to)
    BY <1>1 DEF WaitForStart, ClientWaits, ClientWakesUnasked, kidVars, Sem!wait,
       Sem!WaitStep, Sem!WaitLocks, Sem!Tests, Sem!Blocks, Sem!WakesUnasked, Labels,
       Sem!WaitLabels
  <2>2. Constructing' = Constructing
    BY <1>1 DEF WaitForStart, ClientWaits, ClientWakesUnasked, Live, objVars, Constructing,
       IndInv, TypeOK
  <2> QED
    BY <2>1, <2>2, ClientsMove, SameLife
<1>2. ASSUME NEW a \in Objects, ClientStep(a) PROVE Life!Next \/ UNCHANGED Life!lifeVars
  BY <1>1, <1>2, LifeOfConstructed, LifeOfJoined DEF ClientStep, Life!Next
<1>3. ASSUME NEW a \in Objects, join(a) PROVE UNCHANGED Life!lifeVars
  <2>1. UNCHANGED <<pc, arg, at, pthread>>
    BY <1>3 DEF join, semVars, kidVars
  <2>2. Constructing' = Constructing
    BY <1>3 DEF join, Live, Constructing, IndInv, TypeOK
  <2> QED
    BY <2>1, <2>2, StageKept, SameLife
<1>4. ASSUME NEW a \in Objects, ClientChooses(a)
      PROVE  Life!Next \/ UNCHANGED Life!lifeVars
  BY <1>1, <1>3, <1>4, LifeOfThread, LifeOfDestroy DEF ClientChooses, Life!Next
<1>5. CASE UNCHANGED vars
  <2>1. UNCHANGED <<pc, arg, at, pthread, Constructing>>
    BY <1>5 DEF vars, semVars, objVars, kidVars, Constructing
  <2> QED
    BY <2>1, StageKept, SameLife
<1> QED
  BY <1>2, <1>4, <1>5, LifeOfRun, LifeOfCallback DEF Next

\* A Thread is what ThreadLife says of it, for any number of children and of places
\* for their objects: this is what Scheduler.tla takes a Thread to be.
THEOREM ThreadHasItsLife == Spec => ImplementsThreadLife
<1>1. Init => Life!Init
  BY DEF Init, Life!Init, Stages, Stage, Handles, Handle, Constructing
<1> QED
  BY <1>1, LifeStep, OneAtATime, PTL DEF Spec, ImplementsThreadLife, Life!Spec
=============================================================================
