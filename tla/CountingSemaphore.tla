------------------------- MODULE CountingSemaphore -------------------------
(***************************************************************************)
(* What sylar::Semaphore promises, with neither mutex nor condition        *)
(* variable: a V() adds one to the value of its semaphore, a P() takes one *)
(* away and does so only when there is one to take.  A request is made,    *)
(* and takes effect at one moment some time after it.                      *)
(* Semaphore.tla is shown to implement this specification.                 *)
(***************************************************************************)
EXTENDS Naturals

CONSTANTS
    Procs,      \* the threads
    Semaphores

VARIABLES
    value,      \* value[s] of semaphore s
    request     \* request[s][p]: what p has asked of s and not been given yet

semVars == <<value, request>>

Init ==
    /\ value = [s \in Semaphores |-> 0]
    /\ request = [s \in Semaphores |-> [p \in Procs |-> "none"]]

Ask(s, p, r) ==
    /\ request[s][p] = "none"
    /\ request' = [request EXCEPT ![s][p] = r]
    /\ UNCHANGED value

P(s, p) ==
    /\ request[s][p] = "P" /\ value[s] > 0
    /\ value' = [value EXCEPT ![s] = value[s] - 1]
    /\ request' = [request EXCEPT ![s][p] = "none"]

V(s, p) ==
    /\ request[s][p] = "V"
    /\ value' = [value EXCEPT ![s] = value[s] + 1]
    /\ request' = [request EXCEPT ![s][p] = "none"]

\* A semaphore nobody uses may be destroyed and another made in its place.
Renew(s) ==
    /\ \A p \in Procs : request[s][p] = "none"
    /\ value' = [value EXCEPT ![s] = 0]
    /\ UNCHANGED request

Next ==
    \E s \in Semaphores :
        \/ Renew(s)
        \/ \E p \in Procs : P(s, p) \/ V(s, p) \/ Ask(s, p, "P") \/ Ask(s, p, "V")

Spec == Init /\ [][Next]_semVars
=============================================================================
