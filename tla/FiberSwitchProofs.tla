-------------------------- MODULE FiberSwitchProofs --------------------------
(***************************************************************************)
(* Proofs about FiberSwitch.tla, for any number of threads and fibers.     *)
(***************************************************************************)
EXTENDS FiberSwitch, TLAPS

\* Every thread is on its own stack at first, and every fiber fresh.
LEMMA InitInv == Init => IndInv
<1> SUFFICES ASSUME Init PROVE IndInv
  OBVIOUS
<1> USE FiberSwitchAssumption DEF Init, Stacks, Threads
<1>1. TypeOK
  BY DEF TypeOK, Labels
<1>2. Pointers
  BY DEF Pointers
<1>3. Contexts
  BY DEF Contexts, Off
<1>4. Chain
  BY DEF Chain
<1>5. Places
  BY DEF Places, Loops
<1>6. Held
  BY DEF Held, Off
<1>7. Doing
  BY DEF Doing
<1> QED
  BY <1>1, <1>2, <1>3, <1>4, <1>5, <1>6, <1>7 DEF IndInv, Tidy

\* What swapcontext() keeps, whatever it is called with.
LEMMA SwapTypes ==
    ASSUME TypeOK, NEW t \in Threads, NEW s \in Stacks, NEW into \in Stacks \cup {None},
           NEW from, swapcontext(t, s, into, from)
    PROVE  /\ on' \in [Threads -> Stacks] /\ broken' \in BOOLEAN
           /\ m_ctx' \in [Stacks -> Stacks \cup {None}]
           /\ saved' \in [Stacks -> Stacks \cup {None}]
<1> DEFINE c == m_ctx[from]
           loads == c \in Stacks /\ saved[c] = from /\ \A u \in Threads : on[u] # c
<1>1. m_ctx' = [m_ctx EXCEPT ![into] = s]
  BY DEF swapcontext
<1>2. CASE loads
  <2>1. /\ on' = [on EXCEPT ![t] = c] /\ c \in Stacks /\ broken' = broken
        /\ saved' = [saved EXCEPT ![s] = into, ![c] = None]
    BY <1>2 DEF swapcontext
  <2> HIDE DEF c
  <2> QED
    BY <1>1, <2>1 DEF TypeOK
<1>3. CASE ~loads
  <2>1. broken' = TRUE /\ UNCHANGED <<on, saved>>
    BY <1>3 DEF swapcontext
  <2> QED
    BY <1>1, <2>1 DEF TypeOK
<1> QED
  BY <1>2, <1>3

\* The first fiber of a thread is its own stack's.
LEMMA GetRunningFiberStep ==
    ASSUME IndInv, NEW t \in Threads, getRunningFiber(t)
    PROVE  IndInv'
<1> USE FiberSwitchAssumption DEF threadVars, fiberVars, stackVars, Stacks, Threads, Loops
<1>1. TypeOK /\ Pointers
  BY DEF IndInv
<1>2. TypeOK'
  BY <1>1 DEF getRunningFiber, Runs, Goto, TypeOK, Labels, Pointers
<1>3. Pointers'
  BY <1>1 DEF getRunningFiber, Runs, Goto, TypeOK, Pointers
<1>4. ASSUME ~misused' PROVE Tidy'
  <2>0. ~misused /\ ~broken /\ Contexts /\ Chain /\ Places /\ Held /\ Doing
    BY <1>4 DEF IndInv, Tidy, getRunningFiber, Runs, Goto
  <2>1. ~broken'
    BY <1>1, <2>0 DEF getRunningFiber, Runs, Goto, TypeOK, Doing, Held
  <2>2. Contexts'
    BY <1>1, <2>0 DEF getRunningFiber, Runs, Goto, TypeOK, Contexts, Off
  <2>3. Chain'
    BY <1>1, <2>0
    DEF getRunningFiber, Runs, Goto, TypeOK, Chain, Contexts, Places, Landing, Pointers
  <2>4. Places'
    BY <1>1, <2>0 DEF getRunningFiber, Runs, Goto, TypeOK, Places, Off, Contexts
  <2>5. Held'
    BY <1>1, <2>0
    DEF getRunningFiber, Runs, Goto, TypeOK, Held, Off, Contexts, Places, Doing
  <2>6. Doing'
    BY <1>1, <2>0
    DEF getRunningFiber, Runs, Goto, TypeOK, Doing, Off, Contexts, Places, Held,
        ComesBack
  <2> QED
    BY <2>1, <2>2, <2>3, <2>4, <2>5, <2>6 DEF Tidy
<1> QED
  BY <1>2, <1>3, <1>4 DEF IndInv

\* The fiber is READY, and this stack's from now on.
LEMMA LockAndResumeStep ==
    ASSUME IndInv, NEW t \in Threads, NEW s \in Stacks, NEW f \in Fibers, LockAndResume(t, s, f)
    PROVE  IndInv'
<1> USE FiberSwitchAssumption DEF threadVars, fiberVars, stackVars, Stacks, Threads, Loops
<1>1. TypeOK /\ Pointers
  BY DEF IndInv
<1>2. TypeOK'
  BY <1>1 DEF LockAndResume, resume, Runs, Goto, ComesBack, TypeOK, Labels, Pointers
<1>3. Pointers'
  BY <1>1 DEF LockAndResume, resume, Runs, Goto, ComesBack, TypeOK, Pointers
<1>4. ASSUME ~misused' PROVE Tidy'
  <2>0. ~misused /\ ~broken /\ Contexts /\ Chain /\ Places /\ Held /\ Doing
    BY <1>4 DEF IndInv, Tidy, LockAndResume, resume, Runs, Goto, ComesBack
  <2>b. /\ ComesBack(s, f) /\ on[t] = s /\ at[s] \in {"loop", "client", "body"}
        /\ m_mutex[f] = None /\ m_state[f] # "TERM"
    BY <1>4 DEF LockAndResume, resume, Runs
  <2>c. s \notin Fibers
    BY <2>b DEF ComesBack
  <2>d. m_state[f] = "READY" /\ Off(f)
    BY <1>1, <2>0, <2>b DEF Held, TypeOK
  <2>a. /\ ComesBack(s, f) /\ on[t] = s /\ at[s] \in {"loop", "client", "body"}
        /\ s \notin Fibers /\ f # s
        /\ m_mutex[f] = None /\ m_state[f] = "READY"
        /\ Off(f) /\ at[f] \in {"fresh", "body", "ended"}
    BY <2>0, <2>b, <2>c, <2>d DEF Places
  <2>1. ~broken'
    BY <1>1, <2>0, <2>a DEF LockAndResume, resume, Goto, TypeOK, Doing, Held
  <2>2. Contexts'
    BY <1>1, <2>0, <2>a DEF LockAndResume, resume, Goto, TypeOK, Contexts, Off
  <2>3. Chain'
    BY <1>1, <2>0, <2>a
    DEF LockAndResume, resume, Goto, TypeOK, Chain, Contexts, Places, Landing, Pointers
  <2>4. Places'
    BY <1>1, <2>0, <2>a DEF LockAndResume, resume, Goto, TypeOK, Places, Off, Contexts
  <2>5. Held'
    BY <1>1, <2>0, <2>a
    DEF LockAndResume, resume, Goto, TypeOK, Held, Off, Contexts, Places, Doing
  <2>6. Doing'
    <3>1. ASSUME NEW u \in Threads, u # t
          PROVE  /\ on[u] # s /\ on[u] # f
                 /\ at[on[u]] \in {"resume", "resumed"} => self[on[u]] # f
      BY <1>1, <2>0, <2>a, <3>1 DEF Contexts, Held, Off, TypeOK
    <3>2. ASSUME NEW u \in Threads, u # t, at[on[u]] = "resume"
          PROVE  self[on[u]] \in Stacks /\ self[on[u]] # s /\ self[on[u]] # f
      BY <1>1, <2>0, <2>a, <3>1, <3>2 DEF Doing, Off, Held, Pointers, TypeOK
    <3>3. ASSUME NEW u \in Threads, u # t, at[on[u]] = "resumed"
          PROVE  self[on[u]] \in Stacks /\ self[on[u]] # s /\ self[on[u]] # f
      BY <1>1, <2>0, <2>a, <3>1, <3>3 DEF Doing, Off, Held, TypeOK
    <3> QED
      BY <1>1, <2>0, <2>a, <3>1, <3>2, <3>3
      DEF LockAndResume, resume, Goto, TypeOK, Doing, Off, ComesBack
  <2> QED
    BY <2>1, <2>2, <2>3, <2>4, <2>5, <2>6 DEF Tidy
<1> QED
  BY <1>2, <1>3, <1>4 DEF IndInv

\* Root leaves for m_schedulerFiber.
LEMMA ResumeSchedulerStep ==
    ASSUME IndInv, NEW t \in Threads, NEW s \in Stacks, ResumeScheduler(t, s)
    PROVE  IndInv'
<1> USE FiberSwitchAssumption DEF threadVars, fiberVars, stackVars, Stacks, Threads, Loops
<1>1. TypeOK /\ Pointers
  BY DEF IndInv
<1>2. TypeOK'
  BY <1>1 DEF ResumeScheduler, resume, Runs, Goto, ComesBack, TypeOK, Labels, Pointers
<1>3. Pointers'
  BY <1>1 DEF ResumeScheduler, resume, Runs, Goto, ComesBack, TypeOK, Pointers
<1>4. ASSUME ~misused' PROVE Tidy'
  <2>0. ~misused /\ ~broken /\ Contexts /\ Chain /\ Places /\ Held /\ Doing
    BY <1>4 DEF IndInv, Tidy, ResumeScheduler, resume, Runs, Goto, ComesBack
  <2>a. /\ s = Root /\ t = Root /\ on[t] = s /\ at[s] = "client"
        /\ m_state[m_schedulerFiber] = "READY"
        /\ Off(m_schedulerFiber) /\ at[m_schedulerFiber] = "fresh"
        /\ ~m_yieldToSchedulerFiber[m_schedulerFiber]
    BY <1>1, <2>0 DEF ResumeScheduler, Runs, Held, Places, Pointers, TypeOK, Contexts
  <2>1. ~broken'
    BY <1>1, <2>0, <2>a DEF ResumeScheduler, resume, Goto, TypeOK, Doing, Held
  <2>2. Contexts'
    BY <1>1, <2>0, <2>a DEF ResumeScheduler, resume, Goto, TypeOK, Contexts, Off
  <2>3. Chain'
    BY <1>1, <2>0, <2>a
    DEF ResumeScheduler, resume, Goto, TypeOK, Chain, Contexts, Places, Landing,
        Pointers
  <2>4. Places'
    BY <1>1, <2>0, <2>a DEF ResumeScheduler, resume, Goto, TypeOK, Places, Off, Contexts
  <2>5. Held'
    BY <1>1, <2>0, <2>a
    DEF ResumeScheduler, resume, Goto, TypeOK, Held, Off, Contexts, Places, Doing
  <2>6. Doing'
    <3>1. ASSUME NEW u \in Threads, u # t
          PROVE  /\ on[u] # s /\ on[u] # m_schedulerFiber
                 /\ at[on[u]] \in {"resume", "resumed"} => self[on[u]] # m_schedulerFiber
      BY <1>1, <2>0, <2>a, <3>1 DEF Contexts, Held, Off, TypeOK
    <3>2. ASSUME NEW u \in Threads, u # t, at[on[u]] = "resume"
          PROVE  self[on[u]] \in Stacks /\ self[on[u]] # s /\ self[on[u]] # m_schedulerFiber
      BY <1>1, <2>0, <2>a, <3>1, <3>2 DEF Doing, Off, Held, Pointers, TypeOK
    <3>3. ASSUME NEW u \in Threads, u # t, at[on[u]] = "resumed"
          PROVE  self[on[u]] \in Stacks /\ self[on[u]] # s /\ self[on[u]] # m_schedulerFiber
      BY <1>1, <2>0, <2>a, <3>1, <3>3 DEF Doing, Off, Held, TypeOK
    <3> QED
      BY <1>1, <2>0, <2>a, <3>1, <3>2, <3>3
      DEF ResumeScheduler, resume, Goto, TypeOK, Doing, Off, ComesBack
  <2> QED
    BY <2>1, <2>2, <2>3, <2>4, <2>5, <2>6 DEF Tidy
<1> QED
  BY <1>2, <1>3, <1>4 DEF IndInv

\* A resume() saves the context of its stack in that stack's fiber, and the thread goes
\* on on the stack of the fiber.
LEMMA SwapInLands ==
    ASSUME IndInv, ~misused, NEW t \in Threads, NEW s \in Stacks, SwapIn(t, s)
    PROVE  /\ self[s] \in Fibers \cup {m_schedulerFiber} /\ on[t] = s /\ at[s] = "resume"
           /\ s \notin Fibers /\ self[s] # s /\ Off(self[s]) /\ Landing(t, self[s]) = s
           /\ m_state[self[s]] = "RUNNING" /\ _running_fiber[t] = self[s]
           /\ at[self[s]] \in {"fresh", "body", "ended"}
           /\ m_ctx' = [m_ctx EXCEPT ![s] = s] /\ on' = [on EXCEPT ![t] = self[s]]
           /\ saved' = [saved EXCEPT ![s] = s, ![self[s]] = None] /\ broken' = broken
           /\ at' = [at EXCEPT ![s] = "resumed"] /\ self' = self
           /\ UNCHANGED <<_running_fiber, _scheduler_fiber, _main_fiber, m_state, m_mutex,
                          m_yieldToSchedulerFiber>>
<1> USE FiberSwitchAssumption DEF threadVars, fiberVars, stackVars, Stacks, Threads, Loops
<1>1. TypeOK /\ Pointers
  BY DEF IndInv
<1>0. ~misused /\ ~broken /\ Contexts /\ Chain /\ Places /\ Held /\ Doing
  BY DEF IndInv, Tidy
<1> DEFINE f == self[s]
<1>b. /\ f \in Fibers \cup {m_schedulerFiber} /\ on[t] = s /\ at[s] = "resume"
      /\ s \notin Fibers /\ f # s /\ Off(f) /\ ComesBack(s, f)
      /\ m_state[f] = "RUNNING" /\ _running_fiber[t] = f
      /\ at[f] \in {"fresh", "body", "ended"}
  BY <1>1, <1>0 DEF SwapIn, Runs, Doing, Held, Places, TypeOK, Off
<1>c. Landing(t, f) = s
  BY <1>1, <1>0, <1>b DEF Landing, ComesBack, Pointers, Contexts, Held
<1>d. m_ctx[f] = f /\ saved[f] = f
  BY <1>0, <1>b DEF Contexts
<1> QED
  BY <1>b, <1>c, <1>d DEF SwapIn, swapcontext, Off, Goto

\* The thread goes over to the fiber's stack.
LEMMA SwapInStep ==
    ASSUME IndInv, NEW t \in Threads, NEW s \in Stacks, SwapIn(t, s)
    PROVE  IndInv'
<1> USE FiberSwitchAssumption DEF threadVars, fiberVars, stackVars, Stacks, Threads, Loops
<1>1. TypeOK /\ Pointers
  BY DEF IndInv
<1>2. TypeOK'
  <2>1. Landing(t, self[s]) \in Stacks \cup {None} /\ self[s] \in Stacks
    BY <1>1 DEF SwapIn, Runs, Landing, TypeOK, Pointers
  <2>2. /\ on' \in [Threads -> Stacks] /\ broken' \in BOOLEAN
        /\ m_ctx' \in [Stacks -> Stacks \cup {None}]
        /\ saved' \in [Stacks -> Stacks \cup {None}]
    BY <1>1, <2>1, SwapTypes DEF SwapIn
  <2>3. at' \in [Stacks -> Labels] /\ (\A u \in Threads : at'[u] # "begin" => at[u] # "begin")
    BY <1>1 DEF SwapIn, Runs, Goto, TypeOK, Labels
  <2> QED
    BY <1>1, <2>2, <2>3 DEF SwapIn, TypeOK
<1>3. Pointers'
  BY <1>1 DEF SwapIn, Runs, Goto, TypeOK, Pointers, swapcontext
<1>4. ASSUME ~misused' PROVE Tidy'
  <2>0. ~misused /\ ~broken /\ Contexts /\ Chain /\ Places /\ Held /\ Doing
    BY <1>4 DEF IndInv, Tidy, SwapIn, Runs, Goto
  <2> DEFINE f == self[s]
  <2>a. /\ f = self[s] /\ f \in Fibers \cup {m_schedulerFiber} /\ on[t] = s /\ at[s] = "resume"
        /\ s \notin Fibers /\ f # s /\ Off(f) /\ Landing(t, f) = s
        /\ m_state[f] = "RUNNING" /\ _running_fiber[t] = f
        /\ at[f] \in {"fresh", "body", "ended"}
        /\ m_ctx' = [m_ctx EXCEPT ![s] = s] /\ on' = [on EXCEPT ![t] = f]
        /\ saved' = [saved EXCEPT ![s] = s, ![f] = None] /\ broken' = broken
        /\ at' = [at EXCEPT ![s] = "resumed"] /\ self' = self
        /\ UNCHANGED <<_running_fiber, _scheduler_fiber, _main_fiber, m_state, m_mutex,
                       m_yieldToSchedulerFiber>>
    BY <2>0, SwapInLands
  <2>1. ~broken'
    BY <1>1, <2>0, <2>a
  <2> HIDE DEF f
  <2>2. Contexts'
    BY <1>1, <2>0, <2>a DEF TypeOK, Contexts, Off, Held
  <2>3. Chain'
    BY <1>1, <2>0, <2>a DEF TypeOK, Chain, Landing, Pointers, Contexts
  <2>4. Places'
    BY <1>1, <2>0, <2>a DEF TypeOK, Places, Off, Contexts
  <2>5. Held'
    BY <1>1, <2>0, <2>a DEF TypeOK, Held, Off
  <2>6. Doing'
    <3>1. ASSUME NEW u \in Threads, u # t
          PROVE  /\ on'[u] = on[u] /\ on[u] # s /\ at'[on[u]] = at[on[u]]
                 /\ at[on[u]] \in {"resume", "resumed"} => self[on[u]] # f
      BY <1>1, <2>0, <2>a, <3>1 DEF Contexts, Held, TypeOK
    <3>2. on'[t] = f /\ at'[f] = at[f]
      BY <1>1, <2>a DEF TypeOK
    <3>3. \A x \in Stacks \ {f} : Off(x) => Off(x)'
      BY <2>a DEF Off, TypeOK
    <3>4. ASSUME NEW u \in Threads, u # t, at[on[u]] \in {"resume", "resumed"}
          PROVE  self[on[u]] \in Stacks \ {f, s}
      BY <1>1, <2>0, <2>a, <3>1, <3>4 DEF Doing, Off, Held, TypeOK
    <3> QED
      BY <1>1, <2>0, <2>a, <3>1, <3>2, <3>3, <3>4 DEF Doing, ComesBack, TypeOK
  <2> QED
    BY <2>1, <2>2, <2>3, <2>4, <2>5, <2>6 DEF Tidy
<1> QED
  BY <1>2, <1>3, <1>4 DEF IndInv

\* The fiber is free again.
LEMMA ResumedStep ==
    ASSUME IndInv, NEW t \in Threads, NEW s \in Stacks, Resumed(t, s)
    PROVE  IndInv'
<1> USE FiberSwitchAssumption DEF threadVars, fiberVars, stackVars, Stacks, Threads, Loops
<1>1. TypeOK /\ Pointers
  BY DEF IndInv
<1>2. TypeOK'
  BY <1>1 DEF Resumed, Runs, Goto, TypeOK, Labels, Pointers
<1>3. Pointers'
  BY <1>1 DEF Resumed, Runs, Goto, TypeOK, Pointers
<1>4. ASSUME ~misused' PROVE Tidy'
  <2>0. ~misused /\ ~broken /\ Contexts /\ Chain /\ Places /\ Held /\ Doing
    BY <1>4 DEF IndInv, Tidy, Resumed, Runs, Goto
  <2>1. ~broken'
    BY <1>1, <2>0 DEF Resumed, Runs, Goto, TypeOK, Doing, Held
  <2>2. Contexts'
    BY <1>1, <2>0 DEF Resumed, Runs, Goto, TypeOK, Contexts, Off
  <2>3. Chain'
    BY <1>1, <2>0
    DEF Resumed, Runs, Goto, TypeOK, Chain, Contexts, Places, Landing, Pointers
  <2>4. Places'
    BY <1>1, <2>0 DEF Resumed, Runs, Goto, TypeOK, Places, Off, Contexts
  <2>5. Held'
    BY <1>1, <2>0 DEF Resumed, Runs, Goto, TypeOK, Held, Off, Contexts, Places, Doing
  <2>6. Doing'
    BY <1>1, <2>0
    DEF Resumed, Runs, Goto, TypeOK, Doing, Off, Contexts, Places, Held, ComesBack
  <2> QED
    BY <2>1, <2>2, <2>3, <2>4, <2>5, <2>6 DEF Tidy
<1> QED
  BY <1>2, <1>3, <1>4 DEF IndInv

\* MainFunc() finds its own fiber.
LEMMA MainFuncStep ==
    ASSUME IndInv, NEW t \in Threads, NEW s \in Stacks, MainFunc(t, s)
    PROVE  IndInv'
<1> USE FiberSwitchAssumption DEF threadVars, fiberVars, stackVars, Stacks, Threads, Loops
<1>1. TypeOK /\ Pointers
  BY DEF IndInv
<1>2. TypeOK'
  BY <1>1 DEF MainFunc, Runs, Goto, TypeOK, Labels, Pointers
<1>3. Pointers'
  BY <1>1 DEF MainFunc, Runs, Goto, TypeOK, Pointers
<1>4. ASSUME ~misused' PROVE Tidy'
  <2>0. ~misused /\ ~broken /\ Contexts /\ Chain /\ Places /\ Held /\ Doing
    BY <1>4 DEF IndInv, Tidy, MainFunc, Runs, Goto
  <2>1. ~broken'
    BY <1>1, <2>0 DEF MainFunc, Runs, Goto, TypeOK, Doing, Held
  <2>2. Contexts'
    BY <1>1, <2>0 DEF MainFunc, Runs, Goto, TypeOK, Contexts, Off
  <2>3. Chain'
    BY <1>1, <2>0
    DEF MainFunc, Runs, Goto, TypeOK, Chain, Contexts, Places, Landing, Pointers
  <2>4. Places'
    BY <1>1, <2>0 DEF MainFunc, Runs, Goto, TypeOK, Places, Off, Contexts
  <2>5. Held'
    BY <1>1, <2>0 DEF MainFunc, Runs, Goto, TypeOK, Held, Off, Contexts, Places, Doing
  <2>6. Doing'
    BY <1>1, <2>0
    DEF MainFunc, Runs, Goto, TypeOK, Doing, Off, Contexts, Places, Held, ComesBack
  <2> QED
    BY <2>1, <2>2, <2>3, <2>4, <2>5, <2>6 DEF Tidy
<1> QED
  BY <1>2, <1>3, <1>4 DEF IndInv

\* The fiber that yields is the one whose code does.
LEMMA YieldStep ==
    ASSUME IndInv, NEW t \in Threads, NEW s \in Stacks, yield(t, s)
    PROVE  IndInv'
<1> USE FiberSwitchAssumption DEF threadVars, fiberVars, stackVars, Stacks, Threads, Loops
<1>1. TypeOK /\ Pointers
  BY DEF IndInv
<1>2. TypeOK'
  BY <1>1 DEF yield, Runs, Goto, TypeOK, Labels, Pointers
<1>3. Pointers'
  BY <1>1 DEF yield, Runs, Goto, TypeOK, Pointers
<1>4. ASSUME ~misused' PROVE Tidy'
  <2>0. ~misused /\ ~broken /\ Contexts /\ Chain /\ Places /\ Held /\ Doing
    BY <1>4 DEF IndInv, Tidy, yield, Runs, Goto
  <2>1. ~broken'
    BY <1>1, <2>0 DEF yield, Runs, Goto, TypeOK, Doing, Held
  <2>2. Contexts'
    BY <1>1, <2>0 DEF yield, Runs, Goto, TypeOK, Contexts, Off
  <2>3. Chain'
    BY <1>1, <2>0
    DEF yield, Runs, Goto, TypeOK, Chain, Contexts, Places, Landing, Pointers
  <2>4. Places'
    BY <1>1, <2>0 DEF yield, Runs, Goto, TypeOK, Places, Off, Contexts
  <2>5. Held'
    BY <1>1, <2>0 DEF yield, Runs, Goto, TypeOK, Held, Off, Contexts, Places, Doing
  <2>6. Doing'
    BY <1>1, <2>0
    DEF yield, Runs, Goto, TypeOK, Doing, Off, Contexts, Places, Held, ComesBack
  <2> QED
    BY <2>1, <2>2, <2>3, <2>4, <2>5, <2>6 DEF Tidy
<1> QED
  BY <1>2, <1>3, <1>4 DEF IndInv

\* The fiber has ended.
LEMMA MainFuncEndsStep ==
    ASSUME IndInv, NEW t \in Threads, NEW s \in Stacks, MainFuncEnds(t, s)
    PROVE  IndInv'
<1> USE FiberSwitchAssumption DEF threadVars, fiberVars, stackVars, Stacks, Threads, Loops
<1>1. TypeOK /\ Pointers
  BY DEF IndInv
<1>2. TypeOK'
  BY <1>1 DEF MainFuncEnds, Runs, Goto, TypeOK, Labels, Pointers
<1>3. Pointers'
  BY <1>1 DEF MainFuncEnds, Runs, Goto, TypeOK, Pointers
<1>4. ASSUME ~misused' PROVE Tidy'
  <2>0. ~misused /\ ~broken /\ Contexts /\ Chain /\ Places /\ Held /\ Doing
    BY <1>4 DEF IndInv, Tidy, MainFuncEnds, Runs, Goto
  <2>1. ~broken'
    BY <1>1, <2>0 DEF MainFuncEnds, Runs, Goto, TypeOK, Doing, Held
  <2>2. Contexts'
    BY <1>1, <2>0 DEF MainFuncEnds, Runs, Goto, TypeOK, Contexts, Off
  <2>3. Chain'
    BY <1>1, <2>0
    DEF MainFuncEnds, Runs, Goto, TypeOK, Chain, Contexts, Places, Landing, Pointers
  <2>4. Places'
    BY <1>1, <2>0 DEF MainFuncEnds, Runs, Goto, TypeOK, Places, Off, Contexts
  <2>5. Held'
    BY <1>1, <2>0
    DEF MainFuncEnds, Runs, Goto, TypeOK, Held, Off, Contexts, Places, Doing
  <2>6. Doing'
    BY <1>1, <2>0
    DEF MainFuncEnds, Runs, Goto, TypeOK, Doing, Off, Contexts, Places, Held, ComesBack
  <2> QED
    BY <2>1, <2>2, <2>3, <2>4, <2>5, <2>6 DEF Tidy
<1> QED
  BY <1>2, <1>3, <1>4 DEF IndInv

\* A yield() goes on on the stack that is in the resume() of this fiber.
LEMMA SwapOutLands ==
    ASSUME IndInv, ~misused, NEW t \in Threads, NEW s \in Stacks, SwapOut(t, s)
    PROVE  /\ self[s] = s /\ on[t] = s /\ at[s] = "yield" /\ s \notin Threads
           /\ m_state[s] # "RUNNING" /\ at[t] # "begin"
           /\ Landing(t, s) \in Stacks /\ Landing(t, s) # s
           /\ at[Landing(t, s)] = "resumed" /\ self[Landing(t, s)] = s
           /\ Off(Landing(t, s)) /\ Landing(t, s) \notin Fibers
           /\ Landing(t, s) = t \/ (Landing(t, s) = m_schedulerFiber /\ t = Root)
           /\ Landing(t, s) # t => at[t] = "resumed" /\ self[t] = m_schedulerFiber
           /\ m_ctx' = [m_ctx EXCEPT ![s] = s] /\ on' = [on EXCEPT ![t] = Landing(t, s)]
           /\ saved' = [saved EXCEPT ![s] = s, ![Landing(t, s)] = None] /\ broken' = broken
           /\ _running_fiber' = [_running_fiber EXCEPT ![t] = Landing(t, s)]
           /\ at' = [at EXCEPT ![s] = at'[s]] /\ at'[s] \in {"ended", "body"}
           /\ s = m_schedulerFiber => at'[s] = "ended"
           /\ self' = [self EXCEPT ![s] = None]
           /\ UNCHANGED <<_scheduler_fiber, _main_fiber, m_state, m_mutex,
                          m_yieldToSchedulerFiber>>
<1> USE FiberSwitchAssumption DEF threadVars, fiberVars, stackVars, Stacks, Threads, Loops
<1>1. TypeOK /\ Pointers
  BY DEF IndInv
<1>0. ~misused /\ ~broken /\ Contexts /\ Chain /\ Places /\ Held /\ Doing
  BY DEF IndInv, Tidy
<1> DEFINE r == Landing(t, s)
<1>b. /\ self[s] = s /\ on[t] = s /\ at[s] = "yield" /\ s \notin Threads
      /\ m_state[s] # "RUNNING" /\ at[t] # "begin"
  BY <1>1, <1>0 DEF SwapOut, Runs, Doing, Places, Pointers
<1>c. /\ r # s /\ at[r] = "resumed" /\ self[r] = s
      /\ r # t => at[t] = "resumed" /\ self[t] = m_schedulerFiber
  BY <1>0, <1>b DEF Chain
<1>d. r = t \/ (r = m_schedulerFiber /\ t = Root)
  BY <1>1, <1>b DEF Landing, Pointers
<1>e. Off(r)
  BY <1>1, <1>0, <1>b, <1>c, <1>d DEF Off, Contexts, TypeOK
<1>f. m_ctx[r] = r /\ saved[r] = r
  BY <1>0, <1>d, <1>e DEF Contexts
<1> QED
  <2>1. s = m_schedulerFiber => m_state[s] = "TERM"
    BY <1>1, <1>0, <1>b DEF Held, TypeOK
  <2>2. swapcontext(t, s, s, r)
    BY <1>b DEF SwapOut
  <2> HIDE DEF r
  <2>3. /\ m_ctx' = [m_ctx EXCEPT ![s] = s] /\ on' = [on EXCEPT ![t] = r]
        /\ saved' = [saved EXCEPT ![s] = s, ![r] = None] /\ broken' = broken
    BY <1>d, <1>e, <1>f, <2>2 DEF swapcontext, Off
  <2>4. _running_fiber' = [_running_fiber EXCEPT ![t] = r]
    BY <1>b DEF SwapOut, r
  <2> QED
    <3>1. r \in Stacks /\ r \notin Fibers
      BY <1>1, <1>d, FiberSwitchAssumption DEF Pointers
    <3>2. /\ at' = [at EXCEPT ![s] = at'[s]] /\ at'[s] \in {"ended", "body"}
          /\ s = m_schedulerFiber => at'[s] = "ended"
          /\ self' = [self EXCEPT ![s] = None]
          /\ UNCHANGED <<_scheduler_fiber, _main_fiber, m_state, m_mutex,
                         m_yieldToSchedulerFiber>>
      BY <1>1, <1>b, <2>1 DEF SwapOut, Goto, TypeOK
    <3> QED
      BY <1>b, <1>c, <1>d, <1>e, <2>3, <2>4, <3>1, <3>2 DEF r

\* The thread goes back to the stack that resumed the fiber.
LEMMA SwapOutStep ==
    ASSUME IndInv, NEW t \in Threads, NEW s \in Stacks, SwapOut(t, s)
    PROVE  IndInv'
<1> USE FiberSwitchAssumption DEF threadVars, fiberVars, stackVars, Stacks, Threads, Loops
<1>1. TypeOK /\ Pointers
  BY DEF IndInv
<1>2. TypeOK'
  <2>1. Landing(t, self[s]) \in Stacks /\ self[s] \in Stacks
    BY <1>1 DEF SwapOut, Runs, Landing, TypeOK, Pointers
  <2>2. /\ on' \in [Threads -> Stacks] /\ broken' \in BOOLEAN
        /\ m_ctx' \in [Stacks -> Stacks \cup {None}]
        /\ saved' \in [Stacks -> Stacks \cup {None}]
    BY <1>1, <2>1, SwapTypes DEF SwapOut
  <2>3. at' \in [Stacks -> Labels] /\ (\A u \in Threads : at'[u] # "begin" => at[u] # "begin")
    BY <1>1 DEF SwapOut, Runs, Goto, TypeOK, Labels
  <2>4. _running_fiber' \in [Threads -> Stacks \cup {None}]
        /\ \A u \in Threads : _running_fiber'[u] = None => _running_fiber[u] = None
    BY <1>1, <2>1 DEF SwapOut, TypeOK
  <2> QED
    BY <1>1, <2>2, <2>3, <2>4 DEF SwapOut, TypeOK
<1>3. Pointers'
  BY <1>1 DEF SwapOut, Runs, Goto, TypeOK, Pointers, swapcontext
<1>4. ASSUME ~misused' PROVE Tidy'
  <2>0. ~misused /\ ~broken /\ Contexts /\ Chain /\ Places /\ Held /\ Doing
    BY <1>4 DEF IndInv, Tidy, SwapOut, Runs, Goto
  <2> DEFINE r == Landing(t, s)
  <2>a. /\ self[s] = s /\ on[t] = s /\ at[s] = "yield" /\ s \notin Threads
        /\ m_state[s] # "RUNNING" /\ at[t] # "begin"
        /\ r \in Stacks /\ r # s /\ at[r] = "resumed" /\ self[r] = s /\ Off(r) /\ r \notin Fibers
        /\ r = t \/ (r = m_schedulerFiber /\ t = Root)
        /\ r # t => at[t] = "resumed" /\ self[t] = m_schedulerFiber
        /\ m_ctx' = [m_ctx EXCEPT ![s] = s] /\ on' = [on EXCEPT ![t] = r]
        /\ saved' = [saved EXCEPT ![s] = s, ![r] = None] /\ broken' = broken
        /\ _running_fiber' = [_running_fiber EXCEPT ![t] = r]
        /\ at' = [at EXCEPT ![s] = at'[s]] /\ at'[s] \in {"ended", "body"}
        /\ s = m_schedulerFiber => at'[s] = "ended"
        /\ self' = [self EXCEPT ![s] = None]
        /\ UNCHANGED <<_scheduler_fiber, _main_fiber, m_state, m_mutex,
                       m_yieldToSchedulerFiber>>
    BY <2>0, SwapOutLands
  <2> HIDE DEF r
  <2>1. ~broken'
    BY <1>1, <2>0, <2>a
  <2>2. Contexts'
    BY <1>1, <2>0, <2>a DEF TypeOK, Contexts, Off, Held
  <2>3. Chain'
    BY <1>1, <2>0, <2>a DEF TypeOK, Chain, Landing, Pointers, Contexts
  <2>4. Places'
    BY <1>1, <2>0, <2>a DEF TypeOK, Places, Off, Contexts
  <2>5. Held'
    BY <1>1, <2>0, <2>a DEF TypeOK, Held, Off
  <2>6. Doing'
    <3>1. ASSUME NEW u \in Threads, u # t
          PROVE  /\ on'[u] = on[u] /\ on[u] # s /\ at'[on[u]] = at[on[u]]
                 /\ at[on[u]] \in {"resume", "resumed"} => self[on[u]] # r
                 /\ self'[on[u]] = self[on[u]]
      BY <1>1, <2>0, <2>a, <3>1 DEF Contexts, Held, TypeOK
    <3>2. on'[t] = r /\ at'[r] = "resumed" /\ self'[r] = s
      BY <1>1, <2>a DEF TypeOK
    <3>3. \A x \in Stacks \ {r} : Off(x) => Off(x)'
      BY <2>a DEF Off, TypeOK
    <3>4. ASSUME NEW u \in Threads, u # t, at[on[u]] \in {"resume", "resumed"}
          PROVE  self[on[u]] \in Stacks \ {r, s}
      BY <1>1, <2>0, <2>a, <3>1, <3>4 DEF Doing, Off, Held, TypeOK
    <3>5. Off(s)'
      BY <1>1, <2>0, <2>a DEF Off, Contexts, TypeOK
    <3> QED
      BY <1>1, <2>0, <2>a, <3>1, <3>2, <3>3, <3>4, <3>5 DEF Doing, ComesBack, TypeOK
  <2> QED
    BY <2>1, <2>2, <2>3, <2>4, <2>5, <2>6 DEF Tidy
<1> QED
  BY <1>2, <1>3, <1>4 DEF IndInv

\* A fiber that was reset counts as misused: its m_ctx is no context of its own stack.
LEMMA ResetStep ==
    ASSUME IndInv, NEW t \in Threads, NEW s \in Stacks, NEW f \in Fibers, reset(t, s, f)
    PROVE  IndInv'
<1> USE FiberSwitchAssumption DEF threadVars, fiberVars, stackVars, Stacks, Threads, Loops
<1>1. TypeOK /\ Pointers
  BY DEF IndInv
<1>2. TypeOK'
  BY <1>1 DEF reset, Runs, Goto, TypeOK, Labels, Pointers
<1>3. Pointers'
  BY <1>1 DEF reset, Runs, Goto, TypeOK, Pointers
<1>4. misused'
  BY DEF reset
<1> QED
  BY <1>2, <1>3, <1>4 DEF IndInv

\* The thread ends on the fiber's stack.
LEMMA MainFuncReturnsStep ==
    ASSUME IndInv, NEW t \in Threads, NEW s \in Stacks, MainFuncReturns(t, s)
    PROVE  IndInv'
<1> USE FiberSwitchAssumption DEF threadVars, fiberVars, stackVars, Stacks, Threads, Loops
<1>1. TypeOK /\ Pointers
  BY DEF IndInv
<1>2. TypeOK'
  BY <1>1 DEF MainFuncReturns, Runs, Goto, TypeOK, Labels, Pointers
<1>3. Pointers'
  BY <1>1 DEF MainFuncReturns, Runs, Goto, TypeOK, Pointers
<1>4. ASSUME ~misused' PROVE Tidy'
  <2>0. ~misused /\ ~broken /\ Contexts /\ Chain /\ Places /\ Held /\ Doing
    BY <1>4 DEF IndInv, Tidy, MainFuncReturns, Runs, Goto
  <2>1. ~broken'
    BY <1>1, <2>0 DEF MainFuncReturns, Runs, Goto, TypeOK, Doing, Held
  <2>2. Contexts'
    BY <1>1, <2>0 DEF MainFuncReturns, Runs, Goto, TypeOK, Contexts, Off
  <2>3. Chain'
    BY <1>1, <2>0
    DEF MainFuncReturns, Runs, Goto, TypeOK, Chain, Contexts, Places, Landing, Pointers
  <2>4. Places'
    BY <1>1, <2>0 DEF MainFuncReturns, Runs, Goto, TypeOK, Places, Off, Contexts
  <2>5. Held'
    BY <1>1, <2>0
    DEF MainFuncReturns, Runs, Goto, TypeOK, Held, Off, Contexts, Places, Doing
  <2>6. Doing'
    BY <1>1, <2>0
    DEF MainFuncReturns, Runs, Goto, TypeOK, Doing, Off, Contexts, Places, Held,
        ComesBack
  <2> QED
    BY <2>1, <2>2, <2>3, <2>4, <2>5, <2>6 DEF Tidy
<1> QED
  BY <1>2, <1>3, <1>4 DEF IndInv

\* The thread ends on its own stack.
LEMMA RunReturnsStep ==
    ASSUME IndInv, NEW t \in Threads, RunReturns(t)
    PROVE  IndInv'
<1> USE FiberSwitchAssumption DEF threadVars, fiberVars, stackVars, Stacks, Threads, Loops
<1>1. TypeOK /\ Pointers
  BY DEF IndInv
<1>2. TypeOK'
  BY <1>1 DEF RunReturns, Runs, Goto, TypeOK, Labels, Pointers
<1>3. Pointers'
  BY <1>1 DEF RunReturns, Runs, Goto, TypeOK, Pointers
<1>4. ASSUME ~misused' PROVE Tidy'
  <2>0. ~misused /\ ~broken /\ Contexts /\ Chain /\ Places /\ Held /\ Doing
    BY <1>4 DEF IndInv, Tidy, RunReturns, Runs, Goto
  <2>1. ~broken'
    BY <1>1, <2>0 DEF RunReturns, Runs, Goto, TypeOK, Doing, Held
  <2>2. Contexts'
    BY <1>1, <2>0 DEF RunReturns, Runs, Goto, TypeOK, Contexts, Off
  <2>3. Chain'
    BY <1>1, <2>0
    DEF RunReturns, Runs, Goto, TypeOK, Chain, Contexts, Places, Landing, Pointers
  <2>4. Places'
    BY <1>1, <2>0 DEF RunReturns, Runs, Goto, TypeOK, Places, Off, Contexts
  <2>5. Held'
    BY <1>1, <2>0 DEF RunReturns, Runs, Goto, TypeOK, Held, Off, Contexts, Places, Doing
  <2>6. Doing'
    BY <1>1, <2>0
    DEF RunReturns, Runs, Goto, TypeOK, Doing, Off, Contexts, Places, Held, ComesBack
  <2> QED
    BY <2>1, <2>2, <2>3, <2>4, <2>5, <2>6 DEF Tidy
<1> QED
  BY <1>2, <1>3, <1>4 DEF IndInv

LEMMA StepInv == IndInv /\ [Next]_vars => IndInv'
<1> SUFFICES ASSUME IndInv, [Next]_vars PROVE IndInv'
  OBVIOUS
<1>1. CASE UNCHANGED vars
  BY <1>1 DEF IndInv, TypeOK, Pointers, Tidy, Contexts, Chain, Places, Held, Doing, Off,
     Landing, ComesBack, vars, threadVars, fiberVars, stackVars
<1>2. ASSUME NEW t \in Threads, getRunningFiber(t) \/ RunReturns(t) PROVE IndInv'
  BY <1>2, GetRunningFiberStep, RunReturnsStep
<1>3. ASSUME NEW t \in Threads, NEW s \in Stacks, Step(t, s) PROVE IndInv'
  <2>1. ASSUME NEW f \in Fibers, LockAndResume(t, s, f) \/ reset(t, s, f) PROVE IndInv'
    BY <2>1, LockAndResumeStep, ResetStep
  <2> QED
    BY <1>3, <2>1, ResumeSchedulerStep, SwapInStep, ResumedStep, MainFuncStep,
       YieldStep,
       MainFuncEndsStep, SwapOutStep, MainFuncReturnsStep DEF Step
<1> QED
  BY <1>1, <1>2, <1>3 DEF Next
----------------------------------------------------------------------------
\* The threads and their fibers keep the invariant.
THEOREM SwitchHolds == Spec => []IndInv
  BY InitInv, StepInv, PTL DEF Spec

\* The variables keep their types.
THEOREM Typed == Spec => []TypeOK
<1>1. IndInv => TypeOK
  BY DEF IndInv
<1> QED
  BY <1>1, SwitchHolds, PTL

\* No stale context is loaded, no stack is run on twice and no assertion fails.
THEOREM NothingDoesBreak == Spec => []NothingBreaks
<1>1. IndInv => NothingBreaks
  BY DEF IndInv, Tidy, NothingBreaks
<1> QED
  BY <1>1, SwitchHolds, PTL

\* getRunningFiber() tells the fiber that is running.
THEOREM RunningFiberRuns == Spec => []RunningFiberIsOn
<1>1. IndInv => RunningFiberIsOn
  BY DEF IndInv, Tidy, Doing, RunningFiberIsOn
<1> QED
  BY <1>1, SwitchHolds, PTL

\* A resume() goes to its fiber, and the fiber's yield() back to that resume().
THEOREM SwitchesDoLand == Spec => SwitchesLand
<1>1. IndInv /\ [Next]_vars => [SwitchStepLands]_vars
  <2> SUFFICES ASSUME IndInv, ~misused, NEW t \in Threads, NEW s \in Stacks
               PROVE  /\ SwapOut(t, s) => at[on'[t]] = "resumed" /\ self[on'[t]] = s
                      /\ SwapIn(t, s) => on'[t] = self[s]
    BY DEF SwitchStepLands
  <2>1. on \in [Threads -> Stacks]
    BY DEF IndInv, TypeOK
  <2> QED
    BY <2>1, SwapInLands, SwapOutLands
<1> QED
  BY <1>1, SwitchHolds, PTL DEF Spec, SwitchesLand
----------------------------------------------------------------------------
\* In the hands of the scheduler alone a fiber is never misused.
Orderly == ~misused /\ \A f \in Fibers : m_yieldToSchedulerFiber[f]

LEMMA OrderlyStep ==
    ASSUME IndInv, Orderly, Next, OnlyRunResumes
    PROVE  Orderly'
<1> USE FiberSwitchAssumption DEF Orderly
<1>1. m_yieldToSchedulerFiber' = m_yieldToSchedulerFiber
  BY DEF Next, Step, getRunningFiber, RunReturns, LockAndResume, ResumeScheduler, resume,
     SwapIn, SwapOut, Resumed, MainFunc, yield, MainFuncEnds, MainFuncReturns, reset,
     fiberVars
<1>2. ASSUME NEW t \in Threads, NEW s \in Stacks, NEW f \in Fibers, LockAndResume(t, s, f)
      PROVE  ~misused'
  <2>1. s \in Loops
    BY <1>2 DEF OnlyRunResumes
  <2> QED
    BY <1>2, <2>1 DEF LockAndResume, resume, ComesBack
<1>3. ASSUME NEW t \in Threads, NEW s \in Stacks, ResumeScheduler(t, s) PROVE ~misused'
  <2>1. s = Root
    BY <1>3 DEF ResumeScheduler, Runs, IndInv, Tidy, Places, Stacks, Threads
  <2> QED
    BY <1>3, <2>1 DEF ResumeScheduler, resume, ComesBack, IndInv, Pointers, Threads
<1>4. ASSUME NEW t \in Threads,
             \/ getRunningFiber(t) \/ RunReturns(t)
             \/ \E s \in Stacks : \/ SwapIn(t, s) \/ SwapOut(t, s) \/ Resumed(t, s)
                                 \/ MainFunc(t, s) \/ yield(t, s) \/ MainFuncEnds(t, s)
                                 \/ MainFuncReturns(t, s)
      PROVE  ~misused'
  BY <1>4 DEF getRunningFiber, RunReturns, SwapIn, SwapOut, Resumed, MainFunc, yield,
     MainFuncEnds, MainFuncReturns
<1> QED
  BY <1>1, <1>2, <1>3, <1>4 DEF Next, Step, OnlyRunResumes

\* The rule that makes resume() safe is kept by the scheduler: fibers that run() alone
\* resumes never go wrong, on whatever threads they go on.
THEOREM SchedulerNeverBreaks == Spec /\ SchedulerUse => [](~misused /\ ~broken)
<1>1. Init /\ (\A f \in Fibers : m_yieldToSchedulerFiber[f]) => Orderly
  BY DEF Init, Orderly
<1>2. IndInv /\ Orderly /\ [Next]_vars /\ [OnlyRunResumes]_vars => Orderly'
  <2>1. ASSUME Orderly, UNCHANGED vars PROVE Orderly'
    BY <2>1 DEF Orderly, vars, fiberVars
  <2> QED
    BY <2>1, OrderlyStep
<1>3. IndInv /\ Orderly => ~misused /\ ~broken
  BY DEF IndInv, Orderly, Tidy
<1> QED
  BY <1>1, <1>2, <1>3, SwitchHolds, PTL DEF Spec, SchedulerUse
=============================================================================
