------------------------------ MODULE AdminSocket ------------------------------
(***************************************************************************)
(* admin/admin.go: how server instances share the path of the stats        *)
(* socket.  Every system call is a step of its own, so another instance,   *)
(* an administrator or a crash can come between any two of them.           *)
(*                                                                         *)
(* What the file system does is modelled as Linux does it: bind creates    *)
(* the file, connections are accepted from listen on, a closed listener    *)
(* leaves its file behind, and an inode number is free for another file as *)
(* soon as neither the path nor an open socket refers to it.               *)
(***************************************************************************)
EXTENDS Integers, FiniteSets

CONSTANTS
    Instances,  \* server processes that were given the same -stats-socket
    Inodes,     \* inode numbers
    None,       \* nothing at the path; no listener
    Plain,      \* a file at the path that is not a socket
    MaxOverlap, \* bound: instances that start or stop at the same time
    MaxStarts   \* bound: how often Serve is called

ASSUME SocketAssumption ==
    /\ None \notin Inodes /\ Plain \notin Inodes /\ None # Plain
    /\ IsFiniteSet(Instances)
    /\ MaxOverlap \in Nat /\ MaxStarts \in Nat

VARIABLES
    file,       \* what the path refers to
    locked,     \* the inodes whose mode is socketMode
    sock,       \* sock[p]: the inode p's open socket is bound to
    id,         \* Server.id
    pc,         \* where p is in Serve or Close
    outcome,    \* what p's last Serve returned
    starts,     \* calls of Serve so far
    \* History:
    untidy,     \* an instance crashed or closed a nameless listener
    together    \* two instances were starting or stopping at the same time

vars == <<file, locked, sock, id, pc, outcome, starts, untidy, together>>

Busy == {p \in Instances : pc[p] \notin {"off", "serving"}}

\* Who answers a connection: listen(2) has been called, the socket is open.
Listening(p) == sock[p] # None /\ pc[p] \in {"ident", "chmod", "serving"}

Goto(p, label) == pc' = [pc EXCEPT ![p] = label]

\* Serve returns an error; the caller logs it and goes on without a socket.
Fail(p, why) == outcome' = [outcome EXCEPT ![p] = why] /\ Goto(p, "off")

\* p is about to start or stop, maybe while others do.
Join == together' = (together \/ Busy # {})

Unused == {i \in Inodes : i # file /\ \A p \in Instances : sock[p] # i}

-----------------------------------------------------------------------------
(* clearStaleSocket *)

Start(p) ==
    /\ pc[p] = "off"
    /\ starts < MaxStarts /\ Cardinality(Busy) < MaxOverlap
    /\ starts' = starts + 1
    /\ outcome' = [outcome EXCEPT ![p] = "none"]
    /\ Goto(p, "lstat") /\ Join
    /\ UNCHANGED <<file, locked, sock, id, untidy>>

\* Mutant: anything at the path is taken for a socket.
AnythingClearable == TRUE

IsSocket == file \in Inodes

Lstat(p) ==
    /\ pc[p] = "lstat"
    /\ \/ file = None /\ Goto(p, "bind") /\ UNCHANGED outcome
       \/ file # None /\ IsSocket /\ Goto(p, "dial") /\ UNCHANGED outcome
       \/ file # None /\ ~IsSocket /\ Fail(p, "notsocket")
       \/ Fail(p, "unclear")
    /\ UNCHANGED <<file, locked, sock, id, starts, untidy, together>>

\* Mutant: a socket is stale as soon as it is there.
NobodyAnswers == FALSE

Answered == \E q \in Instances : Listening(q) /\ sock[q] = file

\* A connection, a refusal (also by what is no socket, and between another
\* instance's bind and its listen) or no file any more; and now and then an
\* error that tells nothing.
Dial(p) ==
    /\ pc[p] = "dial"
    /\ \/ Answered /\ Fail(p, "live")
       \/ ~Answered /\ Goto(p, "clear") /\ UNCHANGED outcome
       \/ file # None /\ Fail(p, "unclear")
    /\ UNCHANGED <<file, locked, sock, id, starts, untidy, together>>

\* Mutant: the stale socket is recognised but left where it is.
LeftInPlace == file

Cleared == None

\* os.Remove, whose error is the result of clearStaleSocket.
Clear(p) ==
    /\ pc[p] = "clear"
    /\ \/ file # None /\ file' = Cleared /\ Goto(p, "bind") /\ UNCHANGED outcome
       \/ file = None /\ Fail(p, "vanished") /\ UNCHANGED file
    /\ UNCHANGED <<locked, sock, id, starts, untidy, together>>

-----------------------------------------------------------------------------
(* Serve *)

\* net.Listen also fails when the directory is missing or not writable.
Bind(p) ==
    /\ pc[p] = "bind"
    /\ \/ /\ file = None
          /\ \E i \in Unused :
                /\ file' = i
                /\ sock' = [sock EXCEPT ![p] = i]
                /\ locked' = locked \ {i}
          /\ Goto(p, "listen") /\ UNCHANGED outcome
       \/ /\ \/ file # None /\ Fail(p, "inuse")
             \/ Fail(p, "nobind")
          /\ UNCHANGED <<file, sock, locked>>
    /\ UNCHANGED <<id, starts, untidy, together>>

Listen(p) ==
    /\ pc[p] = "listen"
    /\ Goto(p, "ident")
    /\ UNCHANGED <<file, locked, sock, id, outcome, starts, untidy, together>>

\* Mutant: the error return forgets the listener.
LeftOpen(p) == sock

Closed(p) == [sock EXCEPT ![p] = None]

\* fileID; without an identity the listener is closed and the path left alone.
Ident(p) ==
    /\ pc[p] = "ident"
    /\ \/ /\ file # None
          /\ id' = [id EXCEPT ![p] = file]
          /\ Goto(p, "chmod") /\ UNCHANGED <<sock, outcome, untidy>>
       \/ /\ Fail(p, "noid")
          /\ sock' = Closed(p)
          /\ untidy' = TRUE /\ UNCHANGED id
    /\ UNCHANGED <<file, locked, starts, together>>

\* Mutant: the mode is left to the umask.
NotChmodded == {}

Chmodded == {file} \ {None, Plain}

\* os.Chmod can fail for reasons of its own; then the listener is closed and
\* the file removed as in Close.
Chmod(p) ==
    /\ pc[p] = "chmod"
    /\ \/ /\ file # None
          /\ locked' = locked \cup Chmodded
          /\ outcome' = [outcome EXCEPT ![p] = "ok"]
          /\ Goto(p, "serving") /\ UNCHANGED sock
       \/ /\ sock' = Closed(p)
          /\ outcome' = [outcome EXCEPT ![p] = "nochmod"]
          /\ Goto(p, "stat") /\ UNCHANGED locked
    /\ UNCHANGED <<file, id, starts, untidy, together>>

-----------------------------------------------------------------------------
(* Close *)

\* srv.Shutdown closes the listener, which does not unlink the path.
Shutdown(p) ==
    /\ pc[p] = "serving"
    /\ Cardinality(Busy) < MaxOverlap
    /\ sock' = Closed(p)
    /\ Goto(p, "stat") /\ Join
    /\ UNCHANGED <<file, locked, id, outcome, starts, untidy>>

\* Mutant: the file is never taken for one's own.
NeverOurs(p) == FALSE

Ours(p) == file = id[p]

\* removeIfOurs, before and after its comparison.
Stat(p) ==
    /\ pc[p] = "stat"
    /\ Goto(p, IF Ours(p) THEN "unlink" ELSE "off")
    /\ UNCHANGED <<file, locked, sock, id, outcome, starts, untidy, together>>

Unlink(p) ==
    /\ pc[p] = "unlink"
    /\ file' = None
    /\ Goto(p, "off")
    /\ UNCHANGED <<locked, sock, id, outcome, starts, untidy, together>>

\* SIGKILL, a panic, log.Fatal: the kernel closes the socket, the file stays.
Crash(p) ==
    /\ pc[p] # "off"
    /\ sock' = [sock EXCEPT ![p] = None]
    /\ untidy' = TRUE
    /\ Goto(p, "off")
    /\ UNCHANGED <<file, locked, id, outcome, starts, together>>

\* Somebody creates a file where the flag points.
PutFile ==
    /\ file = None
    /\ file' = Plain
    /\ UNCHANGED <<locked, sock, id, pc, outcome, starts, untidy, together>>

Init ==
    /\ file = None /\ locked = {}
    /\ sock = [p \in Instances |-> None]
    /\ id = [p \in Instances |-> None]
    /\ pc = [p \in Instances |-> "off"]
    /\ outcome = [p \in Instances |-> "none"]
    /\ starts = 0 /\ untidy = FALSE /\ together = FALSE

Next ==
    \/ PutFile
    \/ \E p \in Instances :
          \/ Start(p) \/ Lstat(p) \/ Dial(p) \/ Clear(p)
          \/ Bind(p) \/ Listen(p) \/ Ident(p) \/ Chmod(p)
          \/ Shutdown(p) \/ Stat(p) \/ Unlink(p)
          \/ Crash(p)

Spec == Init /\ [][Next]_vars

-----------------------------------------------------------------------------
(* Properties *)

\* Besides the types: a process has the socket open exactly while it is setting
\* it up or serving on it, whichever error ended its Serve.
TypeOK ==
    /\ file \in Inodes \cup {None, Plain} /\ locked \subseteq Inodes
    /\ sock \in [Instances -> Inodes \cup {None}]
    /\ id \in [Instances -> Inodes \cup {None, Plain}]
    /\ pc \in [Instances -> {"off", "lstat", "dial", "clear", "bind", "listen",
                             "ident", "chmod", "serving", "stat", "unlink"}]
    /\ outcome \in [Instances ->
           {"none", "notsocket", "live", "unclear", "vanished", "inuse",
            "nobind", "noid", "nochmod", "ok"}]
    /\ starts \in Nat /\ untidy \in BOOLEAN /\ together \in BOOLEAN
    /\ \A p \in Instances :
          sock[p] # None <=> pc[p] \in {"listen", "ident", "chmod", "serving"}

\* A running instance is never silently detached: the path leads to it until
\* it closes, whoever else starts, stops or crashes meanwhile (the comments on
\* clearStaleSocket and removeIfOurs).
ServingReachable ==
    \A p \in Instances : pc[p] = "serving" => file = sock[p]

\* This holds of instances that start and stop one after the other.
ReachableAlone == ~together => ServingReachable

\* A file that is not a socket is never deleted: a typo in a flag must not
\* turn into data loss.  (While two instances are at it, the socket that one of
\* them looked at can have given way to such a file.)
PlainFileKept == [][~together /\ file = Plain => file' = Plain]_vars

\* An instance that serves and can be reached has its socket locked down to its
\* owner, although Chmod goes by path and may have met another instance's file
\* there.  Before it serves, from listen to chmod, the code leaves it open.
ServedIsLocked ==
    \A p \in Instances :
        pc[p] = "serving" /\ file = sock[p] => file \in locked

\* A stale socket does not keep the next start from getting its path: unless it
\* met another start, it finds the path taken only by a file that is no socket.
StaleNeverBlocks ==
    [][\A p \in Instances :
          ~together /\ outcome'[p] = "inuse" /\ outcome[p] # "inuse"
              => file = Plain]_vars

\* Once everybody has stopped in an orderly way, nothing is left behind, even
\* when starts and stops ran into each other: who found which file, and which
\* of them another one has cleared or unlinked meanwhile.
NothingLeftBehind ==
    (\A p \in Instances : pc[p] = "off") /\ ~untidy => file \notin Inodes

\* "the file may have gone between the stat and the dial" means nobody is
\* home, so a start should go on as if the path had been free.
VanishedIsFree == \A p \in Instances : outcome[p] # "vanished"
=============================================================================
