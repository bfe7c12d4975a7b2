---------------------------- MODULE FdTableProofs ----------------------------
(***************************************************************************)
(* Proofs about FdTable.tla, for any number of callers and descriptors.    *)
(***************************************************************************)
EXTENDS FdTable, TLAPS

\* There is no descriptor at first.
LEMMA InitInv == Init => IndInv
  BY DEF Init, IndInv, TypeOK, Labels, OwnCtx, Exclusive, CallKeepsCtx, CtxTellsMode

\* The hooks are switched between calls.
LEMMA SetHookEnableStep ==
    ASSUME IndInv, NEW c \in Callers, NEW flag \in BOOLEAN, set_hook_enable(c, flag)
    PROVE  IndInv'
<1> USE FdTableAssumption DEF callVars, kernelVars, ctxVars, histVars
<1>0. TypeOK /\ OwnCtx /\ Exclusive /\ CallKeepsCtx /\ CtxTellsMode
  BY DEF IndInv
<1>1. TypeOK'
  BY <1>0 DEF set_hook_enable, TypeOK, Labels
<1>2. OwnCtx'
  BY <1>0, <1>1 DEF set_hook_enable, TypeOK, Labels, OwnCtx, Exclusive
<1>3. Exclusive'
  BY <1>0, <1>1 DEF set_hook_enable, TypeOK, Labels, OwnCtx, Exclusive
<1>4. CallKeepsCtx'
  BY <1>0, <1>1
  DEF set_hook_enable, TypeOK, Labels, Exclusive, CallKeepsCtx, CtxTellsMode
<1>5. CtxTellsMode'
  BY <1>0, <1>1 DEF set_hook_enable, TypeOK, Labels, OwnCtx, Exclusive, CtxTellsMode
<1> QED
  BY <1>1, <1>2, <1>3, <1>4, <1>5 DEF IndInv

\* The number of a new socket is nobody's.
LEMMA SocketStep ==
    ASSUME IndInv, NEW c \in Callers, NEW fd \in Fds, socket(c, fd)
    PROVE  IndInv'
<1> USE FdTableAssumption DEF callVars, kernelVars, ctxVars, histVars
<1>0. TypeOK /\ OwnCtx /\ Exclusive /\ CallKeepsCtx /\ CtxTellsMode
  BY DEF IndInv
<1>1. TypeOK'
  <2>1. opener' \in [Fds -> {"none", "plain", "hooked"}] /\ nonblock' \subseteq Fds
    BY <1>0 DEF TypeOK, socket, KernelOpens
  <2>2. CASE t_hook_enable[c]
    <3>1. /\ pc' = [pc EXCEPT ![c] = "create"] /\ arg' = [arg EXCEPT ![c] = fd]
          /\ same' = [same EXCEPT ![c] = TRUE] /\ cleared' = cleared \ {fd}
          /\ UNCHANGED <<t_hook_enable, mode, ctx, userNonblock, usable, stale>>
      BY <2>2 DEF socket, Begin, Goto, KernelOpens
    <3> QED
      BY <1>0, <2>1, <3>1 DEF TypeOK, Labels
  <2>3. CASE ~t_hook_enable[c]
    BY <1>0, <2>1, <2>3 DEF socket, KernelOpens, TypeOK, Labels
  <2> QED
    BY <2>2, <2>3
<1>2. OwnCtx'
  BY <1>0, <1>1 DEF socket, Begin, Goto, KernelOpens, TypeOK, Labels, OwnCtx, Exclusive
<1>3. Exclusive'
  BY <1>0, <1>1 DEF socket, Begin, Goto, KernelOpens, TypeOK, Labels, OwnCtx, Exclusive
<1>4. CallKeepsCtx'
  BY <1>0, <1>1
  DEF socket, Begin, Goto, KernelOpens, TypeOK, Labels, Exclusive, CallKeepsCtx,
      CtxTellsMode
<1>5. CtxTellsMode'
  BY <1>0, <1>1
  DEF socket, Begin, Goto, KernelOpens, TypeOK, Labels, OwnCtx, Exclusive, CtxTellsMode
<1> QED
  BY <1>1, <1>2, <1>3, <1>4, <1>5 DEF IndInv

\* The FdCtx is made for the socket that was opened.
LEMMA CreatedStep ==
    ASSUME IndInv, NEW c \in Callers, Created(c)
    PROVE  IndInv'
<1> USE FdTableAssumption DEF callVars, kernelVars, ctxVars, histVars
<1>0. TypeOK /\ OwnCtx /\ Exclusive /\ CallKeepsCtx /\ CtxTellsMode
  BY DEF IndInv
<1>1. TypeOK'
  BY <1>0 DEF Created, getCreate, Return, Goto, TypeOK, Labels
<1>2. OwnCtx'
  BY <1>0, <1>1 DEF Created, getCreate, Return, Goto, TypeOK, Labels, OwnCtx, Exclusive
<1>3. Exclusive'
  BY <1>0, <1>1 DEF Created, getCreate, Return, Goto, TypeOK, Labels, OwnCtx, Exclusive
<1>4. CallKeepsCtx'
  BY <1>0, <1>1
  DEF Created, getCreate, Return, Goto, TypeOK, Labels, Exclusive, CallKeepsCtx,
      CtxTellsMode
<1>5. CtxTellsMode'
  BY <1>0, <1>1
  DEF Created, getCreate, Return, Goto, TypeOK, Labels, OwnCtx, Exclusive, CtxTellsMode
<1> QED
  BY <1>1, <1>2, <1>3, <1>4, <1>5 DEF IndInv

\* A call that finds an FdCtx finds the mode it tells.
LEMMA DoIoStep ==
    ASSUME IndInv, NEW c \in Callers, NEW fd \in Fds, do_io(c, fd)
    PROVE  IndInv'
<1> USE FdTableAssumption DEF callVars, kernelVars, ctxVars, histVars
<1>0. TypeOK /\ OwnCtx /\ Exclusive /\ CallKeepsCtx /\ CtxTellsMode
  BY DEF IndInv
<1>1. TypeOK'
  <2>1. PICK label \in {"plain", "direct", "try"} : Begin(c, fd, label)
    BY DEF do_io
  <2>2. /\ pc' = [pc EXCEPT ![c] = label] /\ arg' = [arg EXCEPT ![c] = fd]
        /\ same' = [same EXCEPT ![c] = TRUE]
    BY <2>1 DEF Begin, Goto
  <2>3. UNCHANGED <<t_hook_enable, mode, opener, nonblock, ctx, userNonblock, usable,
                    cleared, stale>>
    BY DEF do_io
  <2> QED
    BY <1>0, <2>2, <2>3 DEF TypeOK, Labels
<1>2. OwnCtx'
  BY <1>0, <1>1 DEF do_io, Begin, Goto, TypeOK, Labels, OwnCtx, Exclusive
<1>3. Exclusive'
  BY <1>0, <1>1 DEF do_io, Begin, Goto, TypeOK, Labels, OwnCtx, Exclusive
<1>4. CallKeepsCtx'
  <2>1. opener[fd] # "none" /\ same'[c] /\ arg'[c] = fd
    BY <1>0 DEF do_io, Begin, Exclusive, TypeOK
  <2>2. pc'[c] \in {"direct", "try", "waiting"} => fd \in ctx
    BY <1>0 DEF do_io, Begin, Goto, TypeOK
  <2>3. \A d \in Callers : pc'[d] = "create" => d # c /\ pc[d] = "create" /\ arg'[d] = arg[d]
    BY <1>0 DEF do_io, Begin, Goto, TypeOK
  <2>4. \A d \in Callers \ {c} :
           pc'[d] = pc[d] /\ arg'[d] = arg[d] /\ same'[d] = same[d]
    BY <1>0 DEF do_io, Begin, Goto, TypeOK
  <2>5. \A d \in Callers : pc[d] = "create" => arg[d] # fd
    <3>1. CASE fd \in usable
      BY <1>0, <3>1 DEF Exclusive
    <3>2. CASE \E d \in Callers : pc[d] \in {"del", "close"} /\ arg[d] = fd
      <4>1. PICK d \in Callers : pc[d] \in {"del", "close"} /\ arg[d] = fd
        BY <3>2
      <4>2. \A e \in Callers \ {d} : pc[e] = "create" => arg[e] # arg[d]
        BY <1>0, <4>1 DEF Exclusive
      <4> QED
        BY <4>1, <4>2
    <3> QED
      BY <3>1, <3>2 DEF do_io
  <2> QED
    BY <1>0, <2>1, <2>2, <2>3, <2>4, <2>5
    DEF do_io, CallKeepsCtx, CtxTellsMode
<1>5. CtxTellsMode'
  BY <1>0, <1>1 DEF do_io, Begin, Goto, TypeOK, Labels, OwnCtx, Exclusive, CtxTellsMode
<1> QED
  BY <1>1, <1>2, <1>3, <1>4, <1>5 DEF IndInv

\* The call is over.
LEMMA ServedStep ==
    ASSUME IndInv, NEW c \in Callers, Served(c)
    PROVE  IndInv'
<1> USE FdTableAssumption DEF callVars, kernelVars, ctxVars, histVars
<1>0. TypeOK /\ OwnCtx /\ Exclusive /\ CallKeepsCtx /\ CtxTellsMode
  BY DEF IndInv
<1>1. TypeOK'
  BY <1>0 DEF Served, Return, Goto, TypeOK, Labels
<1>2. OwnCtx'
  BY <1>0, <1>1 DEF Served, Return, Goto, TypeOK, Labels, OwnCtx, Exclusive
<1>3. Exclusive'
  BY <1>0, <1>1 DEF Served, Return, Goto, TypeOK, Labels, OwnCtx, Exclusive
<1>4. CallKeepsCtx'
  BY <1>0, <1>1
  DEF Served, Return, Goto, TypeOK, Labels, Exclusive, CallKeepsCtx, CtxTellsMode
<1>5. CtxTellsMode'
  BY <1>0, <1>1
  DEF Served, Return, Goto, TypeOK, Labels, OwnCtx, Exclusive, CtxTellsMode
<1> QED
  BY <1>1, <1>2, <1>3, <1>4, <1>5 DEF IndInv

\* The number of an accepted socket is nobody's.
LEMMA AcceptedStep ==
    ASSUME IndInv, NEW c \in Callers, NEW fd \in Fds, Accepted(c, fd)
    PROVE  IndInv'
<1> USE FdTableAssumption DEF callVars, kernelVars, ctxVars, histVars
<1>0. TypeOK /\ OwnCtx /\ Exclusive /\ CallKeepsCtx /\ CtxTellsMode
  BY DEF IndInv
<1>1. TypeOK'
  BY <1>0 DEF Accepted, KernelOpens, Goto, TypeOK, Labels
<1>2. OwnCtx'
  BY <1>0, <1>1 DEF Accepted, KernelOpens, Goto, TypeOK, Labels, OwnCtx, Exclusive
<1>3. Exclusive'
  BY <1>0, <1>1 DEF Accepted, KernelOpens, Goto, TypeOK, Labels, OwnCtx, Exclusive
<1>4. CallKeepsCtx'
  BY <1>0, <1>1
  DEF Accepted, KernelOpens, Goto, TypeOK, Labels, Exclusive, CallKeepsCtx, CtxTellsMode
<1>5. CtxTellsMode'
  BY <1>0, <1>1
  DEF Accepted, KernelOpens, Goto, TypeOK, Labels, OwnCtx, Exclusive, CtxTellsMode
<1> QED
  BY <1>1, <1>2, <1>3, <1>4, <1>5 DEF IndInv

\* The call blocks, waits or is over.
LEMMA NotReadyStep ==
    ASSUME IndInv, NEW c \in Callers, NotReady(c)
    PROVE  IndInv'
<1> USE FdTableAssumption DEF callVars, kernelVars, ctxVars, histVars
<1>0. TypeOK /\ OwnCtx /\ Exclusive /\ CallKeepsCtx /\ CtxTellsMode
  BY DEF IndInv
<1>1. TypeOK'
  BY <1>0 DEF NotReady, Return, Goto, TypeOK, Labels
<1>2. OwnCtx'
  BY <1>0, <1>1 DEF NotReady, Return, Goto, TypeOK, Labels, OwnCtx, Exclusive
<1>3. Exclusive'
  BY <1>0, <1>1 DEF NotReady, Return, Goto, TypeOK, Labels, OwnCtx, Exclusive
<1>4. CallKeepsCtx'
  BY <1>0, <1>1
  DEF NotReady, Return, Goto, TypeOK, Labels, Exclusive, CallKeepsCtx, CtxTellsMode
<1>5. CtxTellsMode'
  BY <1>0, <1>1
  DEF NotReady, Return, Goto, TypeOK, Labels, OwnCtx, Exclusive, CtxTellsMode
<1> QED
  BY <1>1, <1>2, <1>3, <1>4, <1>5 DEF IndInv

\* The call goes on with the same number.
LEMMA RetryStep ==
    ASSUME IndInv, NEW c \in Callers, Retry(c)
    PROVE  IndInv'
<1> USE FdTableAssumption DEF callVars, kernelVars, ctxVars, histVars
<1>0. TypeOK /\ OwnCtx /\ Exclusive /\ CallKeepsCtx /\ CtxTellsMode
  BY DEF IndInv
<1>1. TypeOK'
  BY <1>0 DEF Retry, Goto, TypeOK, Labels
<1>2. OwnCtx'
  BY <1>0, <1>1 DEF Retry, Goto, TypeOK, Labels, OwnCtx, Exclusive
<1>3. Exclusive'
  BY <1>0, <1>1 DEF Retry, Goto, TypeOK, Labels, OwnCtx, Exclusive
<1>4. CallKeepsCtx'
  BY <1>0, <1>1 DEF Retry, Goto, TypeOK, Labels, Exclusive, CallKeepsCtx, CtxTellsMode
<1>5. CtxTellsMode'
  BY <1>0, <1>1 DEF Retry, Goto, TypeOK, Labels, OwnCtx, Exclusive, CtxTellsMode
<1> QED
  BY <1>1, <1>2, <1>3, <1>4, <1>5 DEF IndInv

\* The call is over.
LEMMA GivesUpStep ==
    ASSUME IndInv, NEW c \in Callers, GivesUp(c)
    PROVE  IndInv'
<1> USE FdTableAssumption DEF callVars, kernelVars, ctxVars, histVars
<1>0. TypeOK /\ OwnCtx /\ Exclusive /\ CallKeepsCtx /\ CtxTellsMode
  BY DEF IndInv
<1>1. TypeOK'
  BY <1>0 DEF GivesUp, Return, Goto, TypeOK, Labels
<1>2. OwnCtx'
  BY <1>0, <1>1 DEF GivesUp, Return, Goto, TypeOK, Labels, OwnCtx, Exclusive
<1>3. Exclusive'
  BY <1>0, <1>1 DEF GivesUp, Return, Goto, TypeOK, Labels, OwnCtx, Exclusive
<1>4. CallKeepsCtx'
  BY <1>0, <1>1
  DEF GivesUp, Return, Goto, TypeOK, Labels, Exclusive, CallKeepsCtx, CtxTellsMode
<1>5. CtxTellsMode'
  BY <1>0, <1>1
  DEF GivesUp, Return, Goto, TypeOK, Labels, OwnCtx, Exclusive, CtxTellsMode
<1> QED
  BY <1>1, <1>2, <1>3, <1>4, <1>5 DEF IndInv

\* The kernel is not asked yet.
LEMMA SetModeStep ==
    ASSUME IndInv, NEW c \in Callers, NEW fd \in Fds, NEW b \in BOOLEAN,
           NEW label \in {"F_SETFL", "FIONBIO"},
           SetMode(c, fd, b, label)
    PROVE  IndInv'
<1> USE FdTableAssumption DEF callVars, kernelVars, ctxVars, histVars
<1>0. TypeOK /\ OwnCtx /\ Exclusive /\ CallKeepsCtx /\ CtxTellsMode
  BY DEF IndInv
<1>1. TypeOK'
  BY <1>0 DEF SetMode, Begin, Goto, Put, TypeOK, Labels
<1>2. OwnCtx'
  BY <1>0, <1>1 DEF SetMode, Begin, Goto, Put, TypeOK, Labels, OwnCtx, Exclusive
<1>3. Exclusive'
  BY <1>0, <1>1 DEF SetMode, Begin, Goto, Put, TypeOK, Labels, OwnCtx, Exclusive
<1>4. CallKeepsCtx'
  BY <1>0, <1>1
  DEF SetMode, Begin, Goto, Put, TypeOK, Labels, Exclusive, CallKeepsCtx, CtxTellsMode
<1>5. CtxTellsMode'
  BY <1>0, <1>1
  DEF SetMode, Begin, Goto, Put, TypeOK, Labels, OwnCtx, Exclusive, CtxTellsMode
<1> QED
  BY <1>1, <1>2, <1>3, <1>4, <1>5 DEF IndInv

\* The mode of a descriptor with an FdCtx is the system's.
LEMMA FcntlFStep ==
    ASSUME IndInv, NEW c \in Callers, fcntl_f(c)
    PROVE  IndInv'
<1> USE FdTableAssumption DEF callVars, kernelVars, ctxVars, histVars
<1>0. TypeOK /\ OwnCtx /\ Exclusive /\ CallKeepsCtx /\ CtxTellsMode
  BY DEF IndInv
<1>1. TypeOK'
  BY <1>0 DEF fcntl_f, Return, Goto, Put, sysNonblock, TypeOK, Labels
<1>2. OwnCtx'
  BY <1>0, <1>1
  DEF fcntl_f, Return, Goto, Put, sysNonblock, TypeOK, Labels, OwnCtx, Exclusive
<1>3. Exclusive'
  BY <1>0, <1>1
  DEF fcntl_f, Return, Goto, Put, sysNonblock, TypeOK, Labels, OwnCtx, Exclusive
<1>4. CallKeepsCtx'
  BY <1>0, <1>1
  DEF fcntl_f, Return, Goto, Put, sysNonblock, TypeOK, Labels, Exclusive, CallKeepsCtx,
      CtxTellsMode
<1>5. CtxTellsMode'
  BY <1>0, <1>1
  DEF fcntl_f, Return, Goto, Put, sysNonblock, TypeOK, Labels, OwnCtx, Exclusive,
      CtxTellsMode
<1> QED
  BY <1>1, <1>2, <1>3, <1>4, <1>5 DEF IndInv

\* The mode is cleared on the record.
LEMMA IoctlFStep ==
    ASSUME IndInv, NEW c \in Callers, ioctl_f(c)
    PROVE  IndInv'
<1> USE FdTableAssumption DEF callVars, kernelVars, ctxVars, histVars
<1>0. TypeOK /\ OwnCtx /\ Exclusive /\ CallKeepsCtx /\ CtxTellsMode
  BY DEF IndInv
<1>1. TypeOK'
  BY <1>0 DEF ioctl_f, Return, Goto, Put, TypeOK, Labels
<1>2. OwnCtx'
  BY <1>0, <1>1 DEF ioctl_f, Return, Goto, Put, TypeOK, Labels, OwnCtx, Exclusive
<1>3. Exclusive'
  BY <1>0, <1>1 DEF ioctl_f, Return, Goto, Put, TypeOK, Labels, OwnCtx, Exclusive
<1>4. CallKeepsCtx'
  BY <1>0, <1>1
  DEF ioctl_f, Return, Goto, Put, TypeOK, Labels, Exclusive, CallKeepsCtx, CtxTellsMode
<1>5. CtxTellsMode'
  BY <1>0, <1>1
  DEF ioctl_f, Return, Goto, Put, TypeOK, Labels, OwnCtx, Exclusive, CtxTellsMode
<1> QED
  BY <1>1, <1>2, <1>3, <1>4, <1>5 DEF IndInv

\* The program gives the descriptor up.
LEMMA CloseStep ==
    ASSUME IndInv, NEW c \in Callers, NEW fd \in Fds, close(c, fd)
    PROVE  IndInv'
<1> USE FdTableAssumption DEF callVars, kernelVars, ctxVars, histVars
<1>0. TypeOK /\ OwnCtx /\ Exclusive /\ CallKeepsCtx /\ CtxTellsMode
  BY DEF IndInv
<1>1. TypeOK'
  BY <1>0 DEF close, Begin, Goto, TypeOK, Labels
<1>2. OwnCtx'
  BY <1>0, <1>1 DEF close, Begin, Goto, TypeOK, Labels, OwnCtx, Exclusive
<1>3. Exclusive'
  BY <1>0, <1>1 DEF close, Begin, Goto, TypeOK, Labels, OwnCtx, Exclusive
<1>4. CallKeepsCtx'
  BY <1>0, <1>1
  DEF close, Begin, Goto, TypeOK, Labels, Exclusive, CallKeepsCtx, CtxTellsMode
<1>5. CtxTellsMode'
  BY <1>0, <1>1 DEF close, Begin, Goto, TypeOK, Labels, OwnCtx, Exclusive, CtxTellsMode
<1> QED
  BY <1>1, <1>2, <1>3, <1>4, <1>5 DEF IndInv

\* The FdCtx goes before the descriptor.
LEMMA DelStep ==
    ASSUME IndInv, NEW c \in Callers, del(c)
    PROVE  IndInv'
<1> USE FdTableAssumption DEF callVars, kernelVars, ctxVars, histVars
<1>0. TypeOK /\ OwnCtx /\ Exclusive /\ CallKeepsCtx /\ CtxTellsMode
  BY DEF IndInv
<1>1. TypeOK'
  BY <1>0 DEF del, Goto, TypeOK, Labels
<1>2. OwnCtx'
  BY <1>0, <1>1 DEF del, Goto, TypeOK, Labels, OwnCtx, Exclusive
<1>3. Exclusive'
  BY <1>0, <1>1 DEF del, Goto, TypeOK, Labels, OwnCtx, Exclusive
<1>4. CallKeepsCtx'
  BY <1>0, <1>1 DEF del, Goto, TypeOK, Labels, Exclusive, CallKeepsCtx, CtxTellsMode
<1>5. CtxTellsMode'
  BY <1>0, <1>1 DEF del, Goto, TypeOK, Labels, OwnCtx, Exclusive, CtxTellsMode
<1> QED
  BY <1>1, <1>2, <1>3, <1>4, <1>5 DEF IndInv

\* The number is free, and no call has it any more.
LEMMA CloseFStep ==
    ASSUME IndInv, NEW c \in Callers, close_f(c)
    PROVE  IndInv'
<1> USE FdTableAssumption DEF callVars, kernelVars, ctxVars, histVars
<1>0. TypeOK /\ OwnCtx /\ Exclusive /\ CallKeepsCtx /\ CtxTellsMode
  BY DEF IndInv
<1>1. TypeOK'
  BY <1>0 DEF close_f, Goto, TypeOK, Labels
<1>2. OwnCtx'
  BY <1>0, <1>1 DEF close_f, Goto, TypeOK, Labels, OwnCtx, Exclusive
<1>3. Exclusive'
  BY <1>0, <1>1 DEF close_f, Goto, TypeOK, Labels, OwnCtx, Exclusive
<1>4. CallKeepsCtx'
  <2>1. SUFFICES ASSUME NEW d \in Callers, pc'[d] \in {"direct", "try", "waiting"}, same'[d]
                 PROVE  /\ opener'[arg'[d]] # "none"
                        /\ arg'[d] \in usable' => arg'[d] \in ctx'
                        /\ \A e \in Callers : pc'[e] = "create" => arg'[e] # arg'[d]
                        /\ arg'[d] \in nonblock' \cup cleared' \cup stale'
    BY DEF CallKeepsCtx
  <2>2. d # c /\ pc[d] = pc'[d] /\ same[d] /\ arg'[d] = arg[d] /\ arg[d] # arg[c]
        /\ arg[d] \in Fds /\ arg[c] \in Fds
    BY <1>0, <2>1 DEF close_f, Goto, TypeOK
  <2>3. \A e \in Callers : pc'[e] = "create" => pc[e] = "create" /\ arg'[e] = arg[e]
    BY <1>0 DEF close_f, Goto, TypeOK
  <2> QED
    BY <1>0, <2>1, <2>2, <2>3 DEF close_f, CallKeepsCtx, TypeOK
<1>5. CtxTellsMode'
  BY <1>0, <1>1 DEF close_f, Goto, TypeOK, Labels, OwnCtx, Exclusive, CtxTellsMode
<1> QED
  BY <1>1, <1>2, <1>3, <1>4, <1>5 DEF IndInv

LEMMA StepInv == IndInv /\ [Next]_vars => IndInv'
<1> SUFFICES ASSUME IndInv, [Next]_vars PROVE IndInv'
  OBVIOUS
<1>1. CASE UNCHANGED vars
  BY <1>1 DEF IndInv, TypeOK, OwnCtx, Exclusive, CallKeepsCtx, CtxTellsMode, vars,
     callVars, kernelVars, ctxVars, histVars
<1>2. ASSUME NEW c \in Callers, Calls(c) PROVE IndInv'
  <2>1. ASSUME NEW flag \in BOOLEAN, set_hook_enable(c, flag) PROVE IndInv'
    BY <2>1, SetHookEnableStep
  <2>2. ASSUME NEW fd \in Fds, socket(c, fd) PROVE IndInv'
    BY <2>2, SocketStep
  <2>3. ASSUME NEW fd \in Fds, do_io(c, fd) PROVE IndInv'
    BY <2>3, DoIoStep
  <2>4. ASSUME NEW fd \in Fds, close(c, fd) PROVE IndInv'
    BY <2>4, CloseStep
  <2>5. ASSUME NEW fd \in Fds, NEW b \in BOOLEAN, fcntl(c, fd, b) \/ ioctl(c, fd, b)
        PROVE  IndInv'
    BY <2>5, SetModeStep DEF fcntl, ioctl
  <2> QED
    BY <1>2, <2>1, <2>2, <2>3, <2>4, <2>5 DEF Calls
<1>3. ASSUME NEW c \in Callers, Steps(c) PROVE IndInv'
  <2>1. ASSUME NEW fd \in Fds, Accepted(c, fd) PROVE IndInv'
    BY <2>1, AcceptedStep
  <2> QED
    BY <1>3, <2>1, CreatedStep, FcntlFStep, IoctlFStep, DelStep, CloseFStep, ServedStep,
       NotReadyStep, RetryStep, GivesUpStep DEF Steps
<1> QED
  BY <1>1, <1>2, <1>3 DEF Next

----------------------------------------------------------------------------
(* The implementation of Descriptor *)

\* A caller asks for one mode of one descriptor at a time.
LEMMA Requests ==
    /\ \A c \in Callers : Request(c).caller = c /\ Request(c).fd = arg[c]
                       /\ Request(c).to = mode[c] /\ (Request(c).done <=> arg[c] \in ctx)
    /\ \A q \in Asked : q.caller \in Setters /\ q = Request(q.caller)
<1>1. \A c \in Callers : Request(c).caller = c /\ Request(c).fd = arg[c]
                       /\ Request(c).to = mode[c] /\ (Request(c).done <=> arg[c] \in ctx)
  BY DEF Request
<1>2. ASSUME NEW q \in Asked PROVE q.caller \in Setters /\ q = Request(q.caller)
  <2>1. PICK c \in Setters : q = Request(c)
    BY DEF Asked
  <2> QED
    BY <1>1, <2>1 DEF Setters
<1> QED
  BY <1>1, <1>2

\* While other steps are taken the requests stay as they are: neither the FdCtx nor the
\* descriptor of a call that sets a mode comes or goes.
LEMMA AskedKept ==
    ASSUME IndInv, NEW c \in Callers,
           \/ Created(c) \/ del(c) \/ close_f(c) \/ Served(c) \/ NotReady(c) \/ Retry(c)
           \/ GivesUp(c)
           \/ (\E flag \in BOOLEAN : set_hook_enable(c, flag))
           \/ (\E fd \in Fds : socket(c, fd) \/ Accepted(c, fd) \/ do_io(c, fd) \/ close(c, fd))
    PROVE  Asked' = Asked
<1>0. TypeOK /\ OwnCtx /\ Exclusive
  BY DEF IndInv
<1>1. pc[c] \notin {"F_SETFL", "FIONBIO"} /\ pc'[c] \notin {"F_SETFL", "FIONBIO"}
  BY <1>0
  DEF Created, del, close_f, Served, NotReady, Retry, GivesUp, set_hook_enable, socket,
      Accepted, do_io, close, Begin, Return, Goto, TypeOK
<1>2. \A d \in Callers \ {c} : pc'[d] = pc[d] /\ arg'[d] = arg[d] /\ mode'[d] = mode[d]
  BY <1>0
  DEF Created, del, close_f, Served, NotReady, Retry, GivesUp, set_hook_enable, socket,
      Accepted, do_io, close, Begin, Return, Goto, TypeOK
<1>3. ASSUME NEW d \in Callers, pc[d] \in {"F_SETFL", "FIONBIO"}
      PROVE  (arg[d] \in ctx' <=> arg[d] \in ctx) /\ (arg[d] \in View' <=> arg[d] \in View)
  <2>0. arg[d] \in usable /\ opener[arg[d]] # "none"
    BY <1>0, <1>3 DEF Exclusive
  <2>1. CASE Created(c)
    BY <1>0, <2>0, <2>1 DEF Created, getCreate, View, ctxVars, Exclusive
  <2>2. CASE del(c)
    BY <1>0, <2>0, <2>2 DEF del, View, histVars, Exclusive
  <2>3. CASE close_f(c)
    BY <1>0, <2>0, <2>3 DEF close_f, View, ctxVars, Exclusive
  <2>4. CASE \E fd \in Fds : socket(c, fd) \/ Accepted(c, fd)
    BY <2>0, <2>4 DEF socket, Accepted, KernelOpens, View, ctxVars
  <2>5. CASE \E fd \in Fds : close(c, fd)
    BY <1>3, <2>0, <2>5 DEF close, View, ctxVars
  <2>6. CASE \/ Served(c) \/ NotReady(c) \/ Retry(c) \/ GivesUp(c)
             \/ (\E flag \in BOOLEAN : set_hook_enable(c, flag))
             \/ (\E fd \in Fds : do_io(c, fd))
    BY <2>6 DEF Served, NotReady, Retry, GivesUp, set_hook_enable, do_io, ctxVars, histVars,
       View
  <2> QED
    BY <2>1, <2>2, <2>3, <2>4, <2>5, <2>6
<1>4. \A d \in Callers :
         /\ d \in Setters' <=> d \in Setters
         /\ d \in Setters => Request(d)' = Request(d)
  BY <1>1, <1>2, <1>3 DEF Setters, Request
<1> QED
  BY <1>4 DEF Asked, Setters

\* The call begins, and with an FdCtx the mode is set.
LEMMA SetModeMaps ==
    ASSUME IndInv, NEW c \in Callers, NEW fd \in Fds, NEW b \in BOOLEAN,
           NEW label \in {"F_SETFL", "FIONBIO"}, SetMode(c, fd, b, label)
    PROVE  Posix!Next \/ UNCHANGED Posix!userVars
<1>0. TypeOK
  BY DEF IndInv
<1>1. View' = View /\ ctx' = ctx /\ nonblock' = nonblock /\ fd \in usable
  BY DEF SetMode, View, histVars, kernelVars
<1>2. /\ pc[c] = "out" /\ pc'[c] = label /\ arg'[c] = fd /\ mode'[c] = b
      /\ \A d \in Callers \ {c} : pc'[d] = pc[d] /\ arg'[d] = arg[d] /\ mode'[d] = mode[d]
  BY <1>0 DEF SetMode, Begin, Goto, TypeOK
<1>3. c \notin Setters /\ \A d \in Setters : Request(d)' = Request(d)
  BY <1>1, <1>2 DEF Setters, Request
<1>4. CASE fd \notin View
  <2>1. \A x \in View : F_GETFL(x)' <=> F_GETFL(x)
    BY <1>1, <1>4 DEF SetMode, F_GETFL, Put, View
  <2>2. Setters' = Setters
    BY <1>1, <1>2, <1>4 DEF Setters
  <2>3. Asked' = Asked
    BY <1>3, <2>2 DEF Asked
  <2> QED
    BY <1>1, <2>1, <2>3 DEF Posix!userVars
<1>5. CASE fd \in View
  <2> DEFINE q == [caller |-> c, fd |-> fd, to |-> b, done |-> fd \in ctx]
  <2>1. Setters' = Setters \cup {c} /\ Request(c)' = q
    BY <1>1, <1>2, <1>5 DEF Setters, Request
  <2>2. Asked' = Asked \cup {q}
    BY <1>3, <2>1 DEF Asked
  <2>3. \A p \in Asked : p.caller # c
    BY <1>3, Requests
  <2>4. CASE fd \in ctx
    <3>1. \A x \in View : F_GETFL(x)' <=> IF x = fd THEN b ELSE F_GETFL(x)
      BY <1>1, <2>4 DEF SetMode, F_GETFL, Put
    <3>2. Posix!Set(fd, b)
      BY <1>1, <1>5, <3>1 DEF Posix!Set
    <3>3. q = [caller |-> c, fd |-> fd, to |-> b, done |-> TRUE]
      BY <2>4
    <3>4. Posix!Asks(c, fd, b)
      BY <1>1, <1>5, <2>2, <2>3, <3>2, <3>3 DEF Posix!Asks
    <3> QED
      BY <3>4 DEF Posix!Next
  <2>5. CASE fd \notin ctx
    <3>1. \A x \in View : F_GETFL(x)' <=> F_GETFL(x)
      BY <1>1, <2>5 DEF SetMode, F_GETFL, Put
    <3>2. UNCHANGED {x \in View : F_GETFL(x)}
      BY <1>1, <3>1
    <3>3. q = [caller |-> c, fd |-> fd, to |-> b, done |-> FALSE]
      <4>1. (fd \in ctx) = FALSE
        BY <2>5
      <4> QED
        BY <4>1, Zenon
    <3>4. Posix!Asks(c, fd, b)
      BY <1>1, <1>5, <2>2, <2>3, <3>2, <3>3 DEF Posix!Asks
    <3> QED
      BY <3>4 DEF Posix!Next
  <2> QED
    BY <2>4, <2>5
<1> QED
  BY <1>4, <1>5

\* The call returns, and without an FdCtx the kernel's step sets the mode.
LEMMA KernelModeMaps ==
    ASSUME IndInv, NEW c \in Callers, fcntl_f(c) \/ ioctl_f(c)
    PROVE  Posix!Next \/ UNCHANGED Posix!userVars
<1>0. TypeOK
  BY DEF IndInv
<1>1. /\ View' = View /\ ctx' = ctx /\ userNonblock' = userNonblock
      /\ arg[c] \in usable /\ arg[c] \in Fds /\ View \subseteq Fds
  BY DEF fcntl_f, ioctl_f, ctxVars, View, IndInv, Exclusive, TypeOK
<1>2. /\ \A x \in Fds \ {arg[c]} : x \in nonblock' <=> x \in nonblock
      /\ arg[c] \notin ctx => (arg[c] \in nonblock' <=> mode[c])
  BY <1>0, <1>1 DEF fcntl_f, ioctl_f, Put, TypeOK
<1>3. /\ pc[c] \in {"F_SETFL", "FIONBIO"} /\ pc'[c] = "out"
      /\ \A d \in Callers \ {c} : pc'[d] = pc[d] /\ arg'[d] = arg[d] /\ mode'[d] = mode[d]
  BY <1>0 DEF fcntl_f, ioctl_f, Return, Goto, TypeOK
<1>4. Setters' = Setters \ {c} /\ \A d \in Setters \ {c} : Request(d)' = Request(d)
  BY <1>1, <1>3 DEF Setters, Request
<1>5. CASE arg[c] \notin View
  <2>1. \A x \in View : F_GETFL(x)' <=> F_GETFL(x)
    BY <1>1, <1>2, <1>5 DEF F_GETFL
  <2>2. Setters' = Setters /\ c \notin Setters
    BY <1>4, <1>5 DEF Setters
  <2>3. Asked' = Asked
    BY <1>4, <2>2 DEF Asked
  <2> QED
    BY <1>1, <2>1, <2>3 DEF Posix!userVars
<1>6. CASE arg[c] \in View
  <2> DEFINE q == Request(c)
  <2>1. c \in Setters /\ q \in Asked
    BY <1>3, <1>6 DEF Setters, Asked
  <2>2. q.fd = arg[c] /\ q.to = mode[c] /\ (q.done <=> arg[c] \in ctx) /\ q.caller = c
    BY Requests
  <2>3. Asked' = Asked \ {q}
    <3>1. \A d \in Setters \ {c} : Request(d) # q
      BY <2>2, Requests DEF Setters
    <3> QED
      BY <1>4, <2>1, <3>1 DEF Asked
  <2>4. CASE arg[c] \in ctx
    <3>1. \A x \in View : F_GETFL(x)' <=> F_GETFL(x)
      BY <1>1, <1>2, <2>4 DEF F_GETFL
    <3>2. Posix!Answers(q)
      BY <1>1, <2>2, <2>3, <2>4, <3>1 DEF Posix!Answers
    <3> QED
      BY <2>1, <3>2 DEF Posix!Next
  <2>5. CASE arg[c] \notin ctx
    <3>1. \A x \in View : F_GETFL(x)' <=> IF x = arg[c] THEN mode[c] ELSE F_GETFL(x)
      BY <1>1, <1>2, <2>5 DEF F_GETFL
    <3>2. Posix!Set(arg[c], mode[c])
      BY <1>0, <1>1, <1>6, <3>1 DEF Posix!Set, TypeOK
    <3>3. Posix!Answers(q)
      BY <1>1, <2>2, <2>3, <2>5, <3>2 DEF Posix!Answers
    <3> QED
      BY <2>1, <3>3 DEF Posix!Next
  <2> QED
    BY <2>4, <2>5
<1> QED
  BY <1>5, <1>6

\* A descriptor that becomes usable is new and in blocking mode.
LEMMA OpenMaps ==
    ASSUME IndInv, NEW fd \in Fds \ usable, usable' = usable \cup {fd}, stale' = stale,
           fd \notin stale => ~F_GETFL(fd)',
           \A x \in usable : F_GETFL(x)' <=> F_GETFL(x), Asked' = Asked
    PROVE  Posix!Next \/ UNCHANGED Posix!userVars
<1>1. CASE fd \in stale
  BY <1>1 DEF View, Posix!userVars
<1>2. CASE fd \notin stale
  <2>1. Posix!Open(fd)
    BY <1>2 DEF View, Posix!Open
  <2> QED
    BY <2>1 DEF Posix!Next
<1> QED
  BY <1>1, <1>2

\* The program has given a descriptor up before the hooks take it apart.
LEMMA CloseMaps ==
    ASSUME IndInv, NEW c \in Callers, NEW fd \in Fds, close(c, fd)
    PROVE  Posix!Next \/ UNCHANGED Posix!userVars
<1>1. /\ usable' = usable \ {fd} /\ stale \subseteq stale' /\ stale' \subseteq stale \cup {fd}
      /\ \A x \in Fds : F_GETFL(x)' <=> F_GETFL(x)
  BY DEF close, F_GETFL, kernelVars, ctxVars
<1>2. View' = View \ {fd} /\ View \subseteq Fds
  BY <1>1 DEF View, IndInv, TypeOK
<1>3. Asked' = Asked
  BY AskedKept
<1>4. CASE fd \in View
  <2>1. \A d \in Setters : arg[d] # fd
    BY DEF close, Setters
  <2>2. \A q \in Asked : q.fd # fd
    BY <2>1, Requests DEF Setters
  <2>3. Posix!Close(fd)
    BY <1>1, <1>2, <1>3, <1>4, <2>2 DEF Posix!Close
  <2> QED
    BY <2>3 DEF Posix!Next
<1>5. CASE fd \notin View
  BY <1>1, <1>2, <1>3, <1>5 DEF Posix!userVars
<1> QED
  BY <1>4, <1>5

\* A step that keeps the mode of the descriptors the program has is none of its business.
LEMMA StutterMaps ==
    ASSUME View' = View, \A x \in View : F_GETFL(x)' <=> F_GETFL(x), Asked' = Asked
    PROVE  UNCHANGED Posix!userVars
  BY DEF Posix!userVars

\* Opening changes nothing for the descriptors the program has already.
LEMMA OpeningMaps ==
    ASSUME IndInv, NEW c \in Callers, NEW fd \in Fds, socket(c, fd) \/ Accepted(c, fd)
    PROVE  Posix!Next \/ UNCHANGED Posix!userVars
<1>1. /\ opener[fd] = "none" /\ nonblock' = nonblock \ {fd} /\ stale' = stale
      /\ ctx' = ctx /\ userNonblock' = userNonblock
  BY DEF socket, Accepted, KernelOpens, ctxVars
<1>2. fd \notin usable /\ fd \notin ctx \ stale
  BY <1>1 DEF IndInv, Exclusive, OwnCtx
<1>3. \A x \in usable : F_GETFL(x)' <=> F_GETFL(x)
  BY <1>1, <1>2 DEF F_GETFL
<1>4. Asked' = Asked
  BY AskedKept
<1>5. CASE usable' = usable
  BY <1>1, <1>3, <1>4, <1>5, StutterMaps DEF View
<1>6. CASE usable' = usable \cup {fd}
  <2>1. fd \notin stale => ~F_GETFL(fd)'
    BY <1>1, <1>2 DEF F_GETFL
  <2> QED
    BY <1>1, <1>2, <1>3, <1>4, <1>6, <2>1, OpenMaps
<1> QED
  BY <1>5, <1>6 DEF socket, Accepted

\* The program gets the descriptor when it has its FdCtx.
LEMMA CreatedMaps ==
    ASSUME IndInv, NEW c \in Callers, Created(c)
    PROVE  Posix!Next \/ UNCHANGED Posix!userVars
<1> PICK fd \in Fds : fd = arg[c]
  BY DEF Created, IndInv, TypeOK
<1>1. /\ fd \in Fds \ usable /\ fd \notin ctx \ stale
      /\ usable' = usable \cup {fd} /\ stale' = stale
  BY DEF Created, IndInv, Exclusive
<1>2. \A x \in usable : F_GETFL(x)' <=> F_GETFL(x)
  BY <1>1 DEF Created, getCreate, ctxVars, F_GETFL
<1>3. fd \notin stale => ~F_GETFL(fd)'
  BY <1>1 DEF Created, getCreate, F_GETFL
<1>4. Asked' = Asked
  BY AskedKept
<1> QED
  BY <1>1, <1>2, <1>3, <1>4, OpenMaps

\* The steps that only move the caller or take apart what the program has given up.
LEMMA InsideMaps ==
    ASSUME IndInv, NEW c \in Callers,
           \/ del(c) \/ close_f(c) \/ Served(c) \/ NotReady(c) \/ Retry(c) \/ GivesUp(c)
           \/ (\E flag \in BOOLEAN : set_hook_enable(c, flag))
           \/ (\E fd \in Fds : do_io(c, fd))
    PROVE  UNCHANGED Posix!userVars
<1>0. Asked' = Asked
  BY AskedKept
<1>1. CASE del(c) \/ close_f(c)
  <2>1. arg[c] \notin usable /\ usable' = usable
    BY <1>1 DEF del, close_f, histVars, IndInv, Exclusive
  <2>2. \A x \in usable : (x \in stale' <=> x \in stale) /\ (F_GETFL(x)' <=> F_GETFL(x))
    BY <1>1, <2>1 DEF del, close_f, F_GETFL, histVars, ctxVars, kernelVars
  <2> QED
    BY <1>0, <2>1, <2>2, StutterMaps DEF View
<1>2. CASE ~del(c) /\ ~close_f(c)
  <2>1. UNCHANGED <<kernelVars, ctxVars, histVars>>
    BY <1>2 DEF Served, NotReady, Retry, GivesUp, set_hook_enable, do_io
  <2> QED
    BY <1>0, <2>1, StutterMaps DEF kernelVars, ctxVars, histVars, F_GETFL, View
<1> QED
  BY <1>1, <1>2

LEMMA StepMaps ==
    ASSUME IndInv, [Next]_vars
    PROVE  Posix!Next \/ UNCHANGED Posix!userVars
<1>1. CASE UNCHANGED vars
  <2>1. Asked' = Asked
    BY <1>1 DEF vars, callVars, ctxVars, histVars, Asked, Request, Setters, View
  <2> QED
    BY <1>1, <2>1, StutterMaps DEF vars, kernelVars, ctxVars, histVars, F_GETFL, View
<1>2. ASSUME NEW c \in Callers, Calls(c) \/ Steps(c)
      PROVE  Posix!Next \/ UNCHANGED Posix!userVars
  <2>1. ASSUME NEW fd \in Fds, socket(c, fd) \/ Accepted(c, fd)
        PROVE  Posix!Next \/ UNCHANGED Posix!userVars
    BY <2>1, OpeningMaps
  <2>2. ASSUME NEW fd \in Fds, close(c, fd)
        PROVE  Posix!Next \/ UNCHANGED Posix!userVars
    BY <2>2, CloseMaps
  <2>3. ASSUME NEW fd \in Fds, NEW b \in BOOLEAN, fcntl(c, fd, b) \/ ioctl(c, fd, b)
        PROVE  Posix!Next \/ UNCHANGED Posix!userVars
    BY <2>3, SetModeMaps DEF fcntl, ioctl
  <2>4. CASE Created(c) \/ fcntl_f(c) \/ ioctl_f(c)
    BY <2>4, CreatedMaps, KernelModeMaps
  <2>5. CASE \/ del(c) \/ close_f(c) \/ Served(c) \/ NotReady(c) \/ Retry(c) \/ GivesUp(c)
             \/ (\E flag \in BOOLEAN : set_hook_enable(c, flag))
             \/ (\E fd \in Fds : do_io(c, fd))
    BY <2>5, InsideMaps
  <2> QED
    BY <1>2, <2>1, <2>2, <2>3, <2>4, <2>5 DEF Calls, Steps
<1> QED
  BY <1>1, <1>2 DEF Next
----------------------------------------------------------------------------
\* The table and its callers keep the invariant.
THEOREM TableHolds == Spec => []IndInv
  BY InitInv, StepInv, PTL DEF Spec

\* The variables keep their types.
THEOREM Typed == Spec => []TypeOK
<1>1. IndInv => TypeOK
  BY DEF IndInv
<1> QED
  BY <1>1, TableHolds, PTL

\* FdMgr's entries belong to the sockets that have their numbers.
THEOREM CtxIsOwn == Spec => []OwnCtx
<1>1. IndInv => OwnCtx
  BY DEF IndInv
<1> QED
  BY <1>1, TableHolds, PTL

\* A hooked call does not block its thread.
THEOREM NoHookedCallBlocks == Spec => []HookedCallsNeverBlock
<1>1. IndInv => HookedCallsNeverBlock
  BY DEF IndInv, CallKeepsCtx, HookedCallsNeverBlock
<1> QED
  BY <1>1, TableHolds, PTL

\* The hooks implement Descriptor: a call that sets a mode takes effect once and as it
\* was asked to, and F_GETFL tells the mode that was set last, whoever else opens,
\* closes and sets modes meanwhile, and whatever the kernel's mode is.
THEOREM HooksAreTransparent == Spec => Transparent
<1>1. Init => Posix!Init
  BY DEF Init, Posix!Init, View, Asked, Setters
<1>2. IndInv /\ [Next]_vars => [Posix!Next]_(Posix!userVars)
  BY StepMaps
<1> QED
  BY <1>1, <1>2, TableHolds, PTL DEF Spec, Transparent, Posix!Spec
=============================================================================
