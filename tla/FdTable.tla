------------------------------ MODULE FdTable ------------------------------
(***************************************************************************)
(* The descriptors behind the hooks of src/src/hook/hook.cpp.  A socket a  *)
(* hooked call opens gets an FdCtx and is put in non-blocking mode in the  *)
(* kernel whatever the program wants; fcntl() and ioctl() keep the mode    *)
(* the program asked for in the FdCtx, and do_io() looks there whether to  *)
(* let a call through or to wait for the socket outside the kernel.        *)
(*                                                                         *)
(* Several callers - fibers, or threads without hooks - use the sockets at *)
(* once, each hook one step between the table's lock and the kernel's, and *)
(* a number that was closed is used again for the next socket.  A socket   *)
(* is not closed while another caller is setting its mode; it may be       *)
(* closed under a call that reads or writes, which close() is made for.    *)
(*                                                                         *)
(* External: the FdManager, whose get() and del() take its lock, and whose *)
(* FdCtx sets O_NONBLOCK of a socket when it is made; and the kernel.      *)
(* Nothing sets an FdCtx closed.  What a call waits for is IoWait.tla.     *)
(***************************************************************************)
EXTENDS FiniteSets

CONSTANTS
    Callers,
    Fds,        \* the numbers a descriptor can have
    NoFd

ASSUME FdTableAssumption == NoFd \notin Fds

VARIABLES
    \* the callers
    t_hook_enable,  \* of the thread that runs caller c
    pc,             \* where c is in its call; "out" between calls
    arg,            \* the descriptor the call is about
    mode,           \* O_NONBLOCK in the argument of F_SETFL or FIONBIO
    same,           \* history: the descriptor has not been closed under the call
    \* the kernel
    opener,         \* "none" when closed; else "hooked" or "plain", the call that opened it
    nonblock,       \* O_NONBLOCK of the open descriptor
    \* the FdManager
    ctx,            \* descriptors that have an FdCtx
    userNonblock,   \* its flag of that name
    \* histories
    usable,         \* descriptors an opening call has returned, and no close() begun for
    cleared,        \* the last call that set O_NONBLOCK was an ioctl() that cleared it
    stale           \* FdCtxs whose descriptor was closed with the hooks disabled

callVars == <<t_hook_enable, pc, arg, mode, same>>
kernelVars == <<opener, nonblock>>
ctxVars == <<ctx, userNonblock>>
histVars == <<usable, cleared, stale>>
vars == <<callVars, kernelVars, ctxVars, histVars>>

Init ==
    /\ t_hook_enable \in [Callers -> BOOLEAN]
    /\ pc = [c \in Callers |-> "out"]
    /\ arg = [c \in Callers |-> NoFd]
    /\ mode = [c \in Callers |-> FALSE]
    /\ same = [c \in Callers |-> FALSE]
    /\ opener = [fd \in Fds |-> "none"]
    /\ nonblock = {}
    /\ ctx = {}
    /\ userNonblock = {}
    /\ usable = {}
    /\ cleared = {}
    /\ stale = {}

Goto(c, label) == pc' = [pc EXCEPT ![c] = label]
Put(set, x, in) == IF in THEN set \cup {x} ELSE set \ {x}

\* A caller begins a call on descriptor fd.
Begin(c, fd, label) ==
    /\ pc[c] = "out"
    /\ Goto(c, label)
    /\ arg' = [arg EXCEPT ![c] = fd]
    /\ same' = [same EXCEPT ![c] = TRUE]

\* The call returns.
Return(c) ==
    /\ Goto(c, "out")
    /\ arg' = [arg EXCEPT ![c] = NoFd]
    /\ mode' = [mode EXCEPT ![c] = FALSE]
    /\ same' = [same EXCEPT ![c] = FALSE]
    /\ UNCHANGED t_hook_enable

set_hook_enable(c, flag) ==
    /\ pc[c] = "out"
    /\ t_hook_enable' = [t_hook_enable EXCEPT ![c] = flag]
    /\ UNCHANGED <<pc, arg, mode, same, kernelVars, ctxVars, histVars>>
----------------------------------------------------------------------------
(* Opening a socket *)

\* The kernel gives out a number that is free; a new socket is in blocking mode.
KernelOpens(fd, how) ==
    /\ opener[fd] = "none"
    /\ opener' = [opener EXCEPT ![fd] = how]
    /\ nonblock' = nonblock \ {fd}
    /\ cleared' = cleared \ {fd}

\* Without the hooks there is only socket_f().
socket(c, fd) ==
    /\ IF t_hook_enable[c]
         THEN /\ Begin(c, fd, "create")
              /\ KernelOpens(fd, "hooked")
              /\ UNCHANGED <<mode, usable>>
         ELSE /\ pc[c] = "out"
              /\ KernelOpens(fd, "plain")
              /\ usable' = usable \cup {fd}
              /\ UNCHANGED <<pc, arg, mode, same>>
    /\ UNCHANGED <<t_hook_enable, ctxVars, stale>>

\* FdMgr::get(fd, true) makes an FdCtx where there is none.
getCreate(fd) ==
    /\ IF fd \in ctx
         THEN UNCHANGED <<ctxVars, nonblock>>
         ELSE /\ ctx' = ctx \cup {fd}
              /\ userNonblock' = userNonblock \ {fd}
              /\ nonblock' = nonblock \cup {fd}
    /\ UNCHANGED opener

\* The end of socket() and, with or without hooks, of accept().
Created(c) ==
    /\ pc[c] = "create"
    /\ getCreate(arg[c])
    /\ usable' = usable \cup {arg[c]}
    /\ Return(c)
    /\ UNCHANGED <<cleared, stale>>
----------------------------------------------------------------------------
(* Reading, writing and accepting *)

\* The test before the first try: "plain" is a call with nothing to look up, "direct"
\* one the program wants non-blocking, "try" one that may wait outside the kernel.
\* It may begin on a descriptor that another caller is about to close.
do_io(c, fd) ==
    /\ fd \in usable \/ \E d \in Callers : pc[d] \in {"del", "close"} /\ arg[d] = fd
    /\ \/ (~t_hook_enable[c] \/ fd \notin ctx) /\ Begin(c, fd, "plain")
       \/ t_hook_enable[c] /\ fd \in userNonblock /\ Begin(c, fd, "direct")
       \/ t_hook_enable[c] /\ fd \in ctx \ userNonblock /\ Begin(c, fd, "try")
    /\ UNCHANGED <<t_hook_enable, mode, kernelVars, ctxVars, histVars>>

\* fun(fd, ...) is served, or fails for good.
Served(c) ==
    /\ pc[c] \in {"plain", "direct", "try", "blocked"}
    /\ Return(c)
    /\ UNCHANGED <<kernelVars, ctxVars, histVars>>

\* accept_f() opens a descriptor, and accept() goes on with that.
Accepted(c, fd) ==
    /\ pc[c] \in {"plain", "direct", "try", "blocked"}
    /\ opener[arg[c]] # "none"
    /\ KernelOpens(fd, "hooked")
    /\ Goto(c, "create")
    /\ arg' = [arg EXCEPT ![c] = fd]
    /\ same' = [same EXCEPT ![c] = TRUE]
    /\ UNCHANGED <<t_hook_enable, mode, ctxVars, usable, stale>>

\* The socket is not ready.  In blocking mode the kernel keeps the thread.
NotReady(c) ==
    /\ pc[c] \in {"plain", "direct", "try"} /\ opener[arg[c]] # "none"
    /\ IF arg[c] \notin nonblock
         THEN Goto(c, "blocked") /\ UNCHANGED <<t_hook_enable, arg, mode, same>>
         ELSE IF pc[c] = "try"
         THEN Goto(c, "waiting") /\ UNCHANGED <<t_hook_enable, arg, mode, same>>
         ELSE Return(c)
    /\ UNCHANGED <<kernelVars, ctxVars, histVars>>

\* Mutant: a fiber that does not wait is woken.
Retry_Unasked(c) ==
    /\ pc[c] \in {"waiting", "out"}
    /\ Goto(c, "try")
    /\ UNCHANGED <<t_hook_enable, arg, mode, same, kernelVars, ctxVars, histVars>>

\* Woken by the event or by close(), the call tries again with the same number.
Retry(c) ==
    /\ pc[c] = "waiting"
    /\ Goto(c, "try")
    /\ UNCHANGED <<t_hook_enable, arg, mode, same, kernelVars, ctxVars, histVars>>

\* Woken by the timer, or left by addEvent(), it gives up.
GivesUp(c) ==
    /\ pc[c] = "waiting"
    /\ Return(c)
    /\ UNCHANGED <<kernelVars, ctxVars, histVars>>
----------------------------------------------------------------------------
(* Setting and reading the mode *)

\* An FdCtx of a socket has sysNonblock: its descriptor is kept non-blocking.
sysNonblock(fd) == fd \in ctx

\* Mutant: the flag goes to the kernel and is not kept in the FdCtx.
SetMode_NotKept(c, fd, b, label) ==
    /\ fd \in usable
    /\ Begin(c, fd, label)
    /\ mode' = [mode EXCEPT ![c] = b]
    /\ UNCHANGED <<t_hook_enable, kernelVars, ctxVars, histVars>>

\* FdMgr::get() and setUserNonblock(); the call into the kernel is a step of its own.
SetMode(c, fd, b, label) ==
    /\ fd \in usable
    /\ Begin(c, fd, label)
    /\ mode' = [mode EXCEPT ![c] = b]
    /\ userNonblock' = IF fd \in ctx THEN Put(userNonblock, fd, b) ELSE userNonblock
    /\ UNCHANGED <<t_hook_enable, kernelVars, ctx, histVars>>

fcntl(c, fd, b) == SetMode(c, fd, b, "F_SETFL")
ioctl(c, fd, b) == SetMode(c, fd, b, "FIONBIO")

\* Mutant: the argument goes to the kernel as the program gave it.
fcntl_f_AsAsked(c) ==
    /\ pc[c] = "F_SETFL"
    /\ nonblock' = Put(nonblock, arg[c], mode[c])
    /\ cleared' = cleared \ {arg[c]}
    /\ Return(c)
    /\ UNCHANGED <<opener, ctxVars, usable, stale>>

\* F_SETFL: with an FdCtx the system's flag replaces the program's.
fcntl_f(c) ==
    /\ pc[c] = "F_SETFL"
    /\ nonblock' = Put(nonblock, arg[c],
                       IF arg[c] \in ctx THEN sysNonblock(arg[c]) ELSE mode[c])
    /\ cleared' = cleared \ {arg[c]}
    /\ Return(c)
    /\ UNCHANGED <<opener, ctxVars, usable, stale>>

\* FIONBIO: the argument goes to the kernel as it is.
ioctl_f(c) ==
    /\ pc[c] = "FIONBIO"
    /\ nonblock' = Put(nonblock, arg[c], mode[c])
    /\ cleared' = Put(cleared, arg[c], ~mode[c])
    /\ Return(c)
    /\ UNCHANGED <<opener, ctxVars, usable, stale>>

\* What fcntl(fd, F_GETFL) says of O_NONBLOCK.
F_GETFL(fd) == IF fd \in ctx THEN fd \in userNonblock ELSE fd \in nonblock
----------------------------------------------------------------------------
(* Closing *)

\* Mutant: the FdCtx is not deleted.
close_NoDel(c, fd) ==
    /\ fd \in usable
    /\ \A d \in Callers : arg[d] = fd => pc[d] \notin {"F_SETFL", "FIONBIO"}
    /\ Begin(c, fd, "close")
    /\ usable' = usable \ {fd}
    /\ stale' = IF ~t_hook_enable[c] /\ fd \in ctx THEN stale \cup {fd} ELSE stale
    /\ UNCHANGED <<t_hook_enable, mode, kernelVars, ctxVars, cleared>>

\* get() finds the FdCtx, and cancelAll() wakes the calls that wait.
close(c, fd) ==
    /\ fd \in usable
    /\ \A d \in Callers : arg[d] = fd => pc[d] \notin {"F_SETFL", "FIONBIO"}
    /\ Begin(c, fd, IF t_hook_enable[c] /\ fd \in ctx THEN "del" ELSE "close")
    /\ usable' = usable \ {fd}
    /\ stale' = IF ~t_hook_enable[c] /\ fd \in ctx THEN stale \cup {fd} ELSE stale
    /\ UNCHANGED <<t_hook_enable, mode, kernelVars, ctxVars, cleared>>

\* FdMgr::del(fd)
del(c) ==
    /\ pc[c] = "del"
    /\ ctx' = ctx \ {arg[c]}
    /\ userNonblock' = userNonblock \ {arg[c]}
    /\ Goto(c, "close")
    /\ UNCHANGED <<t_hook_enable, arg, mode, same, kernelVars, histVars>>

\* The number is free again; whoever is in a call with it has lost the socket.
close_f(c) ==
    /\ pc[c] = "close"
    /\ opener' = [opener EXCEPT ![arg[c]] = "none"]
    /\ nonblock' = nonblock \ {arg[c]}
    /\ cleared' = cleared \ {arg[c]}
    /\ Goto(c, "out")
    /\ arg' = [arg EXCEPT ![c] = NoFd]
    /\ same' = [d \in Callers |-> same[d] /\ arg[d] # arg[c]]
    /\ stale' = IF arg[c] \in ctx THEN stale ELSE stale \ {arg[c]}
    /\ UNCHANGED <<t_hook_enable, mode, ctxVars, usable>>
----------------------------------------------------------------------------
Calls(c) ==
    \/ \E flag \in BOOLEAN : set_hook_enable(c, flag)
    \/ \E fd \in Fds :
         \/ socket(c, fd) \/ do_io(c, fd) \/ close(c, fd)
         \/ \E b \in BOOLEAN : fcntl(c, fd, b) \/ ioctl(c, fd, b)

Steps(c) ==
    \/ Created(c) \/ fcntl_f(c) \/ ioctl_f(c) \/ del(c) \/ close_f(c)
    \/ Served(c) \/ NotReady(c) \/ Retry(c) \/ GivesUp(c)
    \/ \E fd \in Fds : Accepted(c, fd)

Next == \E c \in Callers : Calls(c) \/ Steps(c)

Spec == Init /\ [][Next]_vars
----------------------------------------------------------------------------
(* Properties *)

Labels == {"out", "create", "plain", "direct", "try", "blocked", "waiting",
           "F_SETFL", "FIONBIO", "del", "close"}

\* The variables have their types, and a caller in a call has a descriptor.
TypeOK ==
    /\ t_hook_enable \in [Callers -> BOOLEAN]
    /\ pc \in [Callers -> Labels]
    /\ arg \in [Callers -> Fds \cup {NoFd}]
    /\ \A c \in Callers : pc[c] # "out" => arg[c] \in Fds
    /\ mode \in [Callers -> BOOLEAN]
    /\ same \in [Callers -> BOOLEAN]
    /\ opener \in [Fds -> {"none", "plain", "hooked"}]
    /\ nonblock \subseteq Fds /\ ctx \subseteq Fds /\ userNonblock \subseteq ctx
    /\ usable \subseteq Fds /\ cleared \subseteq Fds /\ stale \subseteq Fds

\* What FdMgr knows of a descriptor is about that descriptor: a socket that a hooked
\* call opened has an FdCtx from the moment the program gets it to close(), and no
\* FdCtx outlives its socket unless the hooks were off.
OwnCtx ==
    /\ \A fd \in usable : opener[fd] = "hooked" => fd \in ctx
    /\ \A fd \in ctx \ stale : opener[fd] # "none"

\* A call that found an FdCtx does not stop its thread in the kernel: while the
\* descriptor is the one the call began with, it is in non-blocking mode, whatever
\* mode the program has set meanwhile with fcntl().  Only ioctl() can undo it, until
\* the next fcntl(), and an FdCtx left over from an earlier socket.
HookedCallsNeverBlock ==
    \A c \in Callers :
        pc[c] \in {"direct", "try"} /\ same[c] =>
            arg[c] \in nonblock \cup cleared \cup stale

\* An open or a close is the business of one caller, on a descriptor the program has
\* not got yet or has given up; a call that sets the mode is on one it has.
Exclusive ==
    /\ \A fd \in usable : opener[fd] # "none"
    /\ \A c \in Callers : pc[c] \in {"F_SETFL", "FIONBIO"} => arg[c] \in usable
    /\ \A c \in Callers : pc[c] \in {"create", "del", "close"} =>
          /\ arg[c] \notin usable /\ opener[arg[c]] # "none"
          /\ \A d \in Callers \ {c} :
                pc[d] \in {"create", "del", "close"} => arg[d] # arg[c]
          /\ pc[c] # "del" => arg[c] \notin ctx \ stale

\* A call that found an FdCtx goes on with that descriptor: it has its FdCtx as long as
\* the program has it, and is not given to another before close_f().
CallKeepsCtx ==
    \A c \in Callers : pc[c] \in {"direct", "try", "waiting"} /\ same[c] =>
        /\ opener[arg[c]] # "none"
        /\ arg[c] \in usable => arg[c] \in ctx
        /\ \A d \in Callers : pc[d] = "create" => arg[d] # arg[c]
        /\ arg[c] \in nonblock \cup cleared \cup stale

\* The FdCtx of an open descriptor tells its mode in the kernel.
CtxTellsMode == ctx \ stale \subseteq nonblock \cup cleared

\* The invariant the proofs are made with.
IndInv == TypeOK /\ OwnCtx /\ Exclusive /\ CallKeepsCtx /\ CtxTellsMode

\* The comments at hook.cpp:365 and 388: whatever the program sets, the mode in the
\* kernel is the one the system decided on.
SystemDecides ==
    \A fd \in usable \ stale : sysNonblock(fd) => fd \in nonblock

\* The comment at hook.cpp:387: F_GETFL shows the program the mode it has set.  Of a
\* new socket it has set none, which is blocking mode.
NewIsBlocking == [][\A fd \in usable' \ usable : ~F_GETFL(fd)']_vars

\* The descriptors the program has, without those a stale FdCtx belongs to.
View == usable \ stale

\* The calls that set a mode, as the program sees them: with an FdCtx the mode is set
\* from the first step on, without one by the kernel.
Request(c) == [caller |-> c, fd |-> arg[c], to |-> mode[c], done |-> arg[c] \in ctx]
Setters == {c \in Callers : pc[c] \in {"F_SETFL", "FIONBIO"} /\ arg[c] \in View}
Asked == {Request(c) : c \in Setters}

\* The hooks cannot be told from a kernel without them by who opens, closes and sets
\* and reads the mode of sockets, for all numbers no stale FdCtx is in the way of: each
\* call that sets a mode takes effect once and as it was asked to, and F_GETFL tells
\* what the last one set, whatever mode the hooks keep the kernel's socket in.
Posix == INSTANCE Descriptor WITH
    usable <- View, nonblocking <- {fd \in View : F_GETFL(fd)}, asked <- Asked
Transparent == Posix!Spec
=============================================================================
