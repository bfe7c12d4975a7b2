---------------------------- MODULE BlockingCall ----------------------------
(***************************************************************************)
(* The calls that block, of which hook.cpp makes the hooked ones: a read   *)
(* or write returns when the socket serves it, a connect when the peer has *)
(* granted or refused the connection it was asked for, a sleep when its    *)
(* time has passed, and ETIMEDOUT is returned to a caller whose own time   *)
(* has run out.  An error has its reason: the descriptor is closed, or the *)
(* connection is not one the call can be made on.  There are no fibers,    *)
(* events, timers or callbacks here, only calls, the time and one socket.  *)
(*                                                                         *)
(* IoWait.tla is shown to implement this specification but for two steps   *)
(* that it names.                                                          *)
(***************************************************************************)
CONSTANTS
    Callers,
    Connector   \* the caller that may connect the socket

VARIABLES
    open,       \* open[f]: "none", or the call f is in: "io", "sleep", "connect" and,
                \* once the peer has been asked and may take its time, "connecting"
    limited,    \* the call has a timeout, or is a sleep
    due,        \* the time of the call has run out
    result,     \* what the last call returned
    ready,      \* the socket would serve f
    conn,       \* the state of the connection
    fd          \* how far close() has come

socketVars == <<ready, conn, fd>>
blockingVars == <<open, limited, due, result, socketVars>>

Init ==
    /\ open = [f \in Callers |-> "none"]
    /\ limited = [f \in Callers |-> FALSE]
    /\ due = [f \in Callers |-> FALSE]
    /\ result = [f \in Callers |-> "none"]
    /\ ready = [f \in Callers |-> FALSE]
    /\ conn \in {"none", "up"}
    /\ fd = "open"

Begins(f, call, finite) ==
    /\ open[f] = "none"
    /\ call = "connect" => f = Connector
    /\ call = "sleep" => finite
    /\ call # "sleep" => fd # "closed"
    /\ open' = [open EXCEPT ![f] = call]
    /\ limited' = [limited EXCEPT ![f] = finite]
    /\ due' = [due EXCEPT ![f] = FALSE]
    /\ result' = [result EXCEPT ![f] = "none"]
    /\ UNCHANGED socketVars

\* Time runs out for a call, which may return for another reason even so.
RunsOut(f) ==
    /\ open[f] # "none" /\ limited[f]
    /\ due' = [due EXCEPT ![f] = TRUE]
    /\ UNCHANGED <<open, limited, result, socketVars>>

Returns(f, value) ==
    /\ open' = [open EXCEPT ![f] = "none"]
    /\ result' = [result EXCEPT ![f] = value]
    /\ UNCHANGED <<limited, due>>

\* The socket serves the call, which uses up what made it ready.
IsServed(f) ==
    /\ open[f] = "io" /\ ready[f]
    /\ fd # "closed" /\ conn \notin {"none", "refused"}
    /\ Returns(f, "ok")
    /\ ready' = [ready EXCEPT ![f] = FALSE]
    /\ UNCHANGED <<conn, fd>>

TimesOut(f) ==
    /\ open[f] \in {"io", "connecting"} /\ limited[f] /\ due[f]
    /\ Returns(f, "timeout")
    /\ UNCHANGED socketVars

Sleeps(f) ==
    /\ open[f] = "sleep" /\ due[f]
    /\ Returns(f, "ok")
    /\ UNCHANGED socketVars

\* The descriptor is closed, or the call is not one for this connection: nothing is
\* read from a socket without one, and none is begun where there is one already.
Fails(f) ==
    /\ \/ fd = "closed" /\ open[f] \in {"io", "connect", "connecting"}
       \/ open[f] = "io" /\ conn \in {"none", "refused"}
       \/ open[f] = "connect" /\ conn # "none"
    /\ Returns(f, "error")
    /\ UNCHANGED socketVars

\* The peer is asked for a connection: it grants or refuses it at once, or later.
Asks(f) ==
    /\ open[f] = "connect" /\ conn = "none" /\ fd # "closed"
    /\ \/ conn' = "up" /\ Returns(f, "ok")
       \/ UNCHANGED conn /\ Returns(f, "error")
       \/ /\ conn' = "pending"
          /\ open' = [open EXCEPT ![f] = "connecting"]
          /\ UNCHANGED <<limited, due, result>>
    /\ UNCHANGED <<ready, fd>>

\* The connection is there.
Connects(f) ==
    /\ open[f] = "connecting" /\ conn = "up" /\ fd # "closed"
    /\ Returns(f, "ok")
    /\ UNCHANGED socketVars

\* A refusal is reported once.
IsRefused(f) ==
    /\ open[f] = "connecting" /\ conn = "refused" /\ fd # "closed"
    /\ Returns(f, "error")
    /\ conn' = "none"
    /\ UNCHANGED <<ready, fd>>

PeerSends(f) ==
    /\ conn = "up"
    /\ ready' = [ready EXCEPT ![f] = TRUE]
    /\ UNCHANGED <<open, limited, due, result, conn, fd>>

PeerAnswers ==
    /\ conn = "pending" /\ fd # "closed"
    /\ \/ conn' = "up" /\ ready' = [ready EXCEPT ![Connector] = TRUE]
       \/ conn' = "refused" /\ ready' = [f \in Callers |-> TRUE]
    /\ UNCHANGED <<open, limited, due, result, fd>>

Closes ==
    /\ \/ fd = "open" /\ fd' = "closing"
       \/ fd = "closing" /\ fd' = "closed"
    /\ UNCHANGED <<open, limited, due, result, ready, conn>>

Next ==
    \/ \E f \in Callers :
          \/ \E call \in {"io", "connect", "sleep"}, finite \in BOOLEAN :
                Begins(f, call, finite)
          \/ RunsOut(f) \/ TimesOut(f) \/ Fails(f) \/ Sleeps(f) \/ IsServed(f)
          \/ Asks(f) \/ Connects(f) \/ IsRefused(f)
          \/ PeerSends(f)
    \/ PeerAnswers
    \/ Closes

Spec == Init /\ [][Next]_blockingVars
=============================================================================
