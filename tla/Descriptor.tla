----------------------------- MODULE Descriptor -----------------------------
(***************************************************************************)
(* A socket as the program sees it, hooks or no hooks.  A new one is in    *)
(* blocking mode.  A call that sets the mode takes effect once, at some    *)
(* time between its beginning and its return, and does what it was asked,  *)
(* and nothing else changes the mode until the descriptor is closed: so    *)
(* fcntl(F_GETFL) tells the mode the call that took effect last asked for. *)
(* FdTable.tla is shown to implement this specification.                   *)
(***************************************************************************)
CONSTANTS
    Callers,
    Fds

VARIABLES
    usable,         \* descriptors the program has opened and not closed
    nonblocking,    \* of those, the ones F_GETFL says are in non-blocking mode
    asked           \* calls that set a mode: [caller, fd, to, done]

userVars == <<usable, nonblocking, asked>>

Init == usable = {} /\ nonblocking = {} /\ asked = {}

Open(fd) ==
    /\ fd \notin usable
    /\ usable' = usable \cup {fd}
    /\ UNCHANGED <<nonblocking, asked>>

Set(fd, to) ==
    nonblocking' = IF to THEN nonblocking \cup {fd} ELSE nonblocking \ {fd}

\* Caller c asks for fd to be non-blocking or not; the mode may be set at once.
Asks(c, fd, to) ==
    /\ fd \in usable
    /\ \A q \in asked : q.caller # c
    /\ \E done \in BOOLEAN :
          /\ asked' = asked \cup {[caller |-> c, fd |-> fd, to |-> to, done |-> done]}
          /\ IF done THEN Set(fd, to) ELSE UNCHANGED nonblocking
    /\ UNCHANGED usable

\* The call returns, and if it had not set the mode yet it has now.
Answers(q) ==
    /\ asked' = asked \ {q}
    /\ IF q.done THEN UNCHANGED nonblocking ELSE Set(q.fd, q.to)
    /\ UNCHANGED usable

\* A descriptor is not closed while its mode is being set.
Close(fd) ==
    /\ fd \in usable
    /\ \A q \in asked : q.fd # fd
    /\ usable' = usable \ {fd}
    /\ nonblocking' = nonblocking \ {fd}
    /\ UNCHANGED asked

Next ==
    \/ \E fd \in Fds : Open(fd) \/ Close(fd)
    \/ \E c \in Callers, fd \in Fds, to \in BOOLEAN : Asks(c, fd, to)
    \/ \E q \in asked : Answers(q)

Spec == Init /\ [][Next]_userVars
=============================================================================
