------------------------------- MODULE Thread -------------------------------
(***************************************************************************)
(* sylar::Thread of src/src/thread/thread.cpp: a client constructs, joins  *)
(* and destroys Thread objects; the child that pthread_create() starts     *)
(* runs Thread::run(), which works on the same object, wakes the           *)
(* constructor through its semaphore and calls the callback.  The places   *)
(* of memory an object can have are used again, and a child may outlive    *)
(* its object, which the destructor detaches.                              *)
(*                                                                         *)
(* The callback may rename its thread.  pthreads are external: a child     *)
(* exists, can be joined while it is joinable, and ends.                   *)
(***************************************************************************)
EXTENDS Naturals, FiniteSets

CONSTANTS
    Kids,       \* the threads pthread_create() can start
    Objects,    \* the places a Thread object can have in memory
    Names,
    Unknown,    \* the name of a thread that is not a Thread's
    Client,     \* the thread that constructs and destroys the objects
    NoKid,      \* 0 in _thread, -1 in _id
    NoObject    \* nullptr in cur_thread

ASSUME ThreadAssumption ==
    /\ Client \notin Kids
    /\ NoKid \notin Kids
    /\ NoObject \notin Objects
    /\ Unknown \in Names

VARIABLES
    \* the semaphores of the objects
    count, at,
    \* the objects
    life,               \* "none", or how far the client is with the object
    _id, _thread, _callback, _name,
    \* the children
    pc,                 \* where child k is in Thread::run()
    arg,                \* the argument of run(), its object
    cur_thread,         \* thread_local of child k
    cur_thread_name,    \* thread_local of child k
    pthread,            \* "none", "joinable", "joined" or "detached"
    orphans             \* history: children whose object was destroyed under them

semVars == <<count, at>>
objVars == <<life, _id, _thread, _callback, _name>>
kidVars == <<pc, arg, cur_thread, cur_thread_name, pthread, orphans>>
vars == <<semVars, objVars, kidVars>>

Procs == Kids \cup {Client}

Sem == INSTANCE Semaphore WITH Semaphores <- Objects

Init ==
    /\ Sem!Init
    /\ life = [a \in Objects |-> "none"]
    /\ _id = [a \in Objects |-> NoKid]
    /\ _thread = [a \in Objects |-> NoKid]
    /\ _callback = [a \in Objects |-> FALSE]
    /\ _name = [a \in Objects |-> Unknown]
    /\ pc = [k \in Kids |-> "none"]
    /\ arg = [k \in Kids |-> NoObject]
    /\ cur_thread = [k \in Kids |-> NoObject]
    /\ cur_thread_name = [k \in Kids |-> Unknown]
    /\ pthread = [k \in Kids |-> "none"]
    /\ orphans = {}

Live(l, a) == life' = [life EXCEPT ![a] = l]
Goto(k, label) == pc' = [pc EXCEPT ![k] = label]
----------------------------------------------------------------------------
(* The client *)

\* The client is in one operation at a time.
ClientFree == \A a \in Objects : life[a] \in {"none", "built"}

\* The members, then pthread_create().  When that fails the constructor throws and
\* there is no object: nothing has changed.
Thread(a, k, name) ==
    /\ ClientFree
    /\ life[a] = "none" /\ pc[k] = "none"
    /\ Live("created", a)
    /\ Sem!Construct(a)
    /\ _id' = [_id EXCEPT ![a] = NoKid]
    /\ _thread' = [_thread EXCEPT ![a] = k]
    /\ _callback' = [_callback EXCEPT ![a] = TRUE]
    /\ _name' = [_name EXCEPT ![a] = name]
    /\ Goto(k, "start")
    /\ arg' = [arg EXCEPT ![k] = a]
    /\ pthread' = [pthread EXCEPT ![k] = "joinable"]
    /\ UNCHANGED <<cur_thread, cur_thread_name, orphans>>

WaitForStart(a) ==
    /\ life[a] = "created"
    /\ Live("waiting", a)
    /\ Sem!wait(a, Client)
    /\ UNCHANGED <<_id, _thread, _callback, _name, kidVars>>

ClientWaits(a) ==
    /\ life[a] = "waiting"
    /\ Sem!WaitStep(a, Client)
    /\ UNCHANGED <<objVars, kidVars>>

ClientWakesUnasked(a) ==
    /\ life[a] = "waiting"
    /\ Sem!WakesUnasked(a, Client)
    /\ UNCHANGED <<objVars, kidVars>>

\* The end of wait() is the end of the constructor.
Constructed(a) ==
    /\ life[a] = "waiting"
    /\ Sem!Takes(a, Client)
    /\ Live("built", a)
    /\ UNCHANGED <<_id, _thread, _callback, _name, kidVars>>

\* Only a thread that has a handle is joined; otherwise join() does nothing.
join(a) ==
    /\ ClientFree
    /\ life[a] = "built" /\ _thread[a] # NoKid
    /\ Live("joining", a)
    /\ UNCHANGED <<semVars, _id, _thread, _callback, _name, kidVars>>

\* Mutant: the handle is not reset after pthread_join().
Joined_HandleKept(a) ==
    /\ life[a] = "joining"
    /\ pc[_thread[a]] = "ended"
    /\ pthread' = [pthread EXCEPT ![_thread[a]] = "joined"]
    /\ Live("built", a)
    /\ UNCHANGED <<semVars, _id, _thread, _callback, _name, pc, arg, cur_thread,
                   cur_thread_name, orphans>>

Joined(a) ==
    /\ life[a] = "joining"
    /\ pc[_thread[a]] = "ended"
    /\ pthread' = [pthread EXCEPT ![_thread[a]] = "joined"]
    /\ _thread' = [_thread EXCEPT ![a] = NoKid]
    /\ Live("built", a)
    /\ UNCHANGED <<semVars, _id, _callback, _name, pc, arg, cur_thread,
                   cur_thread_name, orphans>>

\* ~Thread(): a thread that was not joined is detached, running or not.
Destroy(a) ==
    /\ ClientFree
    /\ life[a] = "built"
    /\ Live("none", a)
    /\ pthread' = [k \in Kids |-> IF k = _thread[a] THEN "detached" ELSE pthread[k]]
    /\ orphans' = orphans \cup {k \in Kids : k = _thread[a] /\ pc[k] # "ended"}
    /\ _thread' = [_thread EXCEPT ![a] = NoKid]
    /\ UNCHANGED <<semVars, _id, _callback, _name, pc, arg, cur_thread, cur_thread_name>>
----------------------------------------------------------------------------
(* Thread::run() *)

BindLocals(k) ==
    /\ pc[k] = "start"
    /\ cur_thread' = [cur_thread EXCEPT ![k] = arg[k]]
    /\ cur_thread_name' = [cur_thread_name EXCEPT ![k] = _name[arg[k]]]
    /\ Goto(k, "setId")
    /\ UNCHANGED <<semVars, objVars, arg, pthread, orphans>>

\* Mutant: the constructor is woken first.
SetId_AfterSignal(k) ==
    /\ pc[k] = "setId"
    /\ Sem!signal(arg[k], k)
    /\ _id' = _id
    /\ Goto(k, "signal")
    /\ UNCHANGED <<life, _thread, _callback, _name, arg, cur_thread, cur_thread_name,
                   pthread, orphans>>

SetId(k) ==
    /\ pc[k] = "setId"
    /\ _id' = [_id EXCEPT ![arg[k]] = k]
    /\ Goto(k, "swap")
    /\ UNCHANGED <<semVars, life, _thread, _callback, _name, arg, cur_thread,
                   cur_thread_name, pthread, orphans>>

\* callback.swap(): the child has the callback for itself, and signals.
SwapCallback(k) ==
    /\ pc[k] = "swap"
    /\ _callback' = [_callback EXCEPT ![arg[k]] = FALSE]
    /\ Sem!signal(arg[k], k)
    /\ Goto(k, "signal")
    /\ UNCHANGED <<life, _id, _thread, _name, arg, cur_thread, cur_thread_name,
                   pthread, orphans>>

KidSignals(k) ==
    /\ pc[k] = "signal"
    /\ Sem!SignalStep(arg[k], k)
    /\ UNCHANGED <<objVars, kidVars>>

KidSignalled(k) ==
    /\ pc[k] = "signal"
    /\ Sem!Unlocks(arg[k], k)
    /\ Goto(k, "callback")
    /\ UNCHANGED <<objVars, arg, cur_thread, cur_thread_name, pthread, orphans>>

\* Mutant: only the thread's own copy is changed.
setRunningThreadName_LocalOnly(k, name) ==
    /\ pc[k] = "callback"
    /\ cur_thread_name' = [cur_thread_name EXCEPT ![k] = name]
    /\ UNCHANGED <<semVars, objVars, pc, arg, cur_thread, pthread, orphans>>

\* The callback renames its thread: the object, whatever is there now, and then
\* the thread's own copy.
setRunningThreadName(k, name) ==
    /\ pc[k] = "callback"
    /\ _name' = [_name EXCEPT ![cur_thread[k]] = name]
    /\ cur_thread_name' = [cur_thread_name EXCEPT ![k] = name]
    /\ UNCHANGED <<semVars, life, _id, _thread, _callback, pc, arg, cur_thread, pthread,
                   orphans>>

CallbackReturns(k) ==
    /\ pc[k] = "callback"
    /\ Goto(k, "ended")
    /\ UNCHANGED <<semVars, objVars, arg, cur_thread, cur_thread_name, pthread, orphans>>
----------------------------------------------------------------------------
ClientStep(a) ==
    WaitForStart(a) \/ ClientWaits(a) \/ Constructed(a) \/ Joined(a)

ClientChooses(a) ==
    \/ \E k \in Kids, name \in Names : Thread(a, k, name)
    \/ join(a) \/ Destroy(a) \/ ClientWakesUnasked(a)

Run(k) ==
    BindLocals(k) \/ SetId(k) \/ SwapCallback(k) \/ KidSignals(k) \/ KidSignalled(k)

Callback(k) == CallbackReturns(k) \/ \E name \in Names : setRunningThreadName(k, name)

Next ==
    \/ \E a \in Objects : ClientStep(a) \/ ClientChooses(a)
    \/ \E k \in Kids : Run(k) \/ Callback(k)

Spec == Init /\ [][Next]_vars

\* The kernel runs every thread that can go on.  The client need not go on to
\* another operation, and a callback need not return.
Fairness ==
    /\ \A a \in Objects : WF_vars(ClientStep(a))
    /\ \A k \in Kids : WF_vars(Run(k))

FairSpec == Spec /\ Fairness
----------------------------------------------------------------------------
(* Properties *)

\* The type invariant of the objects, the children and their semaphores.
TypeOK ==
    /\ Sem!TypeOK
    /\ life \in [Objects -> {"none", "created", "waiting", "built", "joining"}]
    /\ _id \in [Objects -> Kids \cup {NoKid}]
    /\ _thread \in [Objects -> Kids \cup {NoKid}]
    /\ _callback \in [Objects -> BOOLEAN]
    /\ _name \in [Objects -> Names]
    /\ pc \in [Kids -> {"none", "start", "setId", "swap", "signal", "callback", "ended"}]
    /\ arg \in [Kids -> Objects \cup {NoObject}]
    /\ cur_thread \in [Kids -> Objects \cup {NoObject}]
    /\ cur_thread_name \in [Kids -> Names]
    /\ pthread \in [Kids -> {"none", "joinable", "joined", "detached"}]
    /\ orphans \subseteq Kids

\* Thread::run() works on its object until the last line of signal(), and as long
\* as it does the object is there and is its own: the constructor, and with it the
\* client that may destroy the object, does not get past _semaphore before the
\* child has let go of it.
RunHasItsObject ==
    \A k \in Kids :
        pc[k] \in {"start", "setId", "swap", "signal"} =>
            life[arg[k]] \in {"created", "waiting"} /\ _thread[arg[k]] = k

\* thread.h:44: once the constructor has returned getId() is the child's id and
\* not -1, and the callback is no longer in the object.
IdKnown ==
    \A a \in Objects :
        life[a] \in {"built", "joining"} =>
            /\ _id[a] # NoKid
            /\ _thread[a] \in {_id[a], NoKid}
            /\ ~_callback[a]

\* Each thread is joined or detached once: as long as it is neither its handle is
\* in one object, and no object keeps the handle of one that was.
HandleOnce ==
    \A k \in Kids :
        LET Holders == {a \in Objects : life[a] # "none" /\ _thread[a] = k}
        IN  IF pthread[k] = "joinable" THEN Cardinality(Holders) = 1 ELSE Holders = {}

\* thread.h:50: getName() and the running thread's cur_thread_name agree, as long
\* as no thread that lost its object wrote to its place.
NamesAgree ==
    \A k \in Kids :
        /\ pc[k] \in {"setId", "swap", "signal", "callback"} /\ k \notin orphans
        /\ \A o \in orphans : arg[o] # arg[k]
        => cur_thread[k] = arg[k] /\ _name[arg[k]] = cur_thread_name[k]

\* What thread.h:50 says without that condition: the name in the object remains
\* synchronized with the copy of the thread it was constructed for.
NameSynchronized ==
    \A a \in Objects :
        LET k == _thread[a]
        IN  life[a] \in {"built", "joining"} /\ k # NoKid /\ pc[k] = "callback"
            => _name[a] = cur_thread_name[k]

\* The child's signal is not lost, whether it comes before the constructor waits or
\* while it goes to sleep: a client that sleeps beside a count is being notified.
NoSignalLost ==
    \A a \in Objects :
        at[a][Client] = "asleep" => count[a] = 0 \/ at[a][_thread[a]] = "notify"

\* A thread is inside a semaphore only while it constructs the object or runs up to
\* the end of its signal().
SemaphoresQuiet ==
    \A a \in Objects :
        /\ at[a][Client] \in Sem!WaitLabels \cup {"out"}
        /\ at[a][Client] # "out" <=> life[a] = "waiting"
        /\ \A k \in Kids :
              IF pc[k] = "signal" /\ arg[k] = a THEN at[a][k] \in Sem!SignalLabels
                                               ELSE at[a][k] = "out"

\* A handle names the thread that was started for its object, which ends or loses its
\* object before the handle is given up.
HandlesMatch ==
    /\ \A a \in Objects :
          /\ life[a] = "none" => _thread[a] = NoKid
          /\ life[a] \in {"created", "waiting", "joining"} => _thread[a] # NoKid
          /\ _thread[a] # NoKid =>
                arg[_thread[a]] = a /\ pthread[_thread[a]] = "joinable"
    /\ \A k \in Kids :
          /\ pthread[k] = "joinable" => arg[k] \in Objects /\ _thread[arg[k]] = k
          /\ pc[k] = "none" <=> pthread[k] = "none"
          /\ pc[k] # "none" => arg[k] \in Objects
          /\ pc[k] \notin {"none", "start"} => cur_thread[k] = arg[k]
          /\ pc[k] \notin {"none", "ended"} /\ k \notin orphans => pthread[k] = "joinable"
          /\ k \in orphans => pc[k] \notin {"none", "start", "setId", "swap", "signal"}

\* The child of the object has gone past the increment in its signal().
Signalled(a, k) == pc[k] \in {"callback", "ended"} \/ at[a][k] \in {"notify", "unlock"}

\* The handshake: the count is one from the child's increment to the end of the
\* constructor, which takes it only when the child is out of its semaphore.
Handshake ==
    \A a \in Objects :
        IF life[a] \in {"created", "waiting"}
          THEN LET k == _thread[a]
               IN  /\ count[a] = IF Signalled(a, k) THEN 1 ELSE 0
                   /\ at[a][Client] = "take" => count[a] = 1
                   /\ at[a][Client] = "block" => count[a] = 0
                   /\ at[a][Client] \in Sem!Locked => at[a][k] \notin Sem!Locked
                   /\ pc[k] \notin {"start", "setId"} => _id[a] = k
                   /\ pc[k] \notin {"start", "setId", "swap"} => ~_callback[a]
          ELSE count[a] = 0

\* The inductive invariant behind the safety properties (ThreadProofs.tla).
IndInv ==
    /\ TypeOK
    /\ SemaphoresQuiet
    /\ HandlesMatch
    /\ Handshake
    /\ RunHasItsObject
    /\ IdKnown
    /\ NamesAgree
    /\ NoSignalLost

\* The client is in one operation at a time (kept apart from IndInv, of which no other
\* part needs it).
OneOperation ==
    \A a, b \in Objects :
        {life[a], life[b]} \cap {"none", "built"} = {} => a = b

\* The semaphores of the objects count: Semaphore implements CountingSemaphore,
\* through the construction and the destruction of its owner.
SemaphoresCount == Sem!Counting!Spec

\* Where child k is for a client that sees neither objects nor semaphores.
Stage(k) ==
    IF pc[k] \in {"none", "ended"} THEN pc[k]
    ELSE IF Signalled(arg[k], k) THEN "running" ELSE "starting"

Handle(k) == IF pthread[k] = "joinable" THEN "owned" ELSE pthread[k]

Stages == [k \in Kids |-> Stage(k)]
Handles == [k \in Kids |-> Handle(k)]
Constructing == \E a \in Objects : life[a] \in {"created", "waiting"}

Life == INSTANCE ThreadLife WITH
    stage <- Stages, handle <- Handles, constructing <- Constructing

\* The semaphore and the handles make a Thread: no constructor returns while a child
\* is on its way to its signal, and a thread is joined once, after its end, or
\* detached, and never both.
ImplementsThreadLife == Life!Spec

\* The constructor returns once the kernel runs the child up to its signal(), unless
\* its condition variable wakes it for ever with no reason and so keeps _mutex from
\* the child.
ConstructorReturns ==
    \/ \A a \in Objects : life[a] = "created" ~> life[a] = "built"
    \/ []<><<\E a \in Objects : ClientWakesUnasked(a)>>_vars
=============================================================================
