------------------------------ MODULE ProcessStop ------------------------------
(***************************************************************************)
(* What shutdownWhen promises of a server process's end, whatever else the *)
(* process does: the journal gets its line first, then the stats socket    *)
(* closes, then the listener, and only then do the requests that were let  *)
(* in have their last chance.  At any moment the process may also be gone  *)
(* at once, and a new one may be started when it is.                       *)
(*                                                                         *)
(* ServerProcess implements it with its goroutines, StatsReport with the   *)
(* store it counts.                                                        *)
(***************************************************************************)
CONSTANT Requests

VARIABLES
    stop,       \* what the process has left to do: "up" until it is told to end
    noted,      \* stopNotice was logged
    inflight    \* requests that were let in and are not answered

vars == <<stop, noted, inflight>>

Init == stop = "up" /\ noted = FALSE /\ inflight = {}

Advance(from, to) == stop = from /\ stop' = to

Notice == Advance("up", "close") /\ noted' = TRUE /\ UNCHANGED inflight

CloseStats == Advance("close", "drain") /\ UNCHANGED <<noted, inflight>>

CloseListener == Advance("drain", "wait") /\ UNCHANGED <<noted, inflight>>

Accept(r) ==
    /\ stop \in {"up", "close", "drain"}
    /\ inflight' = inflight \cup {r}
    /\ UNCHANGED <<stop, noted>>

Finish(r) ==
    /\ stop # "gone"
    /\ inflight' = inflight \ {r}
    /\ UNCHANGED <<stop, noted>>

\* runServer returns, out of patience or with nothing left to do.
Exit == Advance("wait", "gone") /\ inflight' = {} /\ UNCHANGED noted

\* A signal nobody takes, SIGKILL, a panic, log.Fatal.
Crash == stop # "gone" /\ stop' = "gone" /\ inflight' = {} /\ UNCHANGED noted

Restart == Advance("gone", "up") /\ noted' = FALSE /\ inflight' = {}

Next ==
    \/ Notice \/ CloseStats \/ CloseListener \/ Exit \/ Crash \/ Restart
    \/ \E r \in Requests : Accept(r) \/ Finish(r)

Spec == Init /\ [][Next]_vars
=============================================================================
