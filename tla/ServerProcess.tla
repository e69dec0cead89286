---------------------------- MODULE ServerProcess ----------------------------
(***************************************************************************)
(* cmd/server.go with fileio/file.go: the life of one server process.      *)
(*                                                                         *)
(* The main goroutine reads the configuration, registers for signals,      *)
(* listens and serves.  One goroutine reloads the configuration on SIGHUP, *)
(* another performs the orderly stop on SIGTERM or SIGINT (both "a TERM"   *)
(* here).  An administrator edits files and sends signals at any time.     *)
(*                                                                         *)
(* A file is looked for in several directories and opened twice, once to   *)
(* find it and once to read it; each is a step.  The store is reduced to   *)
(* whether it holds anything, the admin socket to whether it is served.    *)
(***************************************************************************)
EXTENDS Integers, FiniteSets

CONSTANTS
    NumFiles,   \* the files updateFiles reads, numbered in its order
    NumDirs,    \* the directories TryFile tries, numbered in its order
    Auth,       \* the number of auth.db
    Contents,   \* what a file may contain
    Empty,      \* nothing
    WellFormed, \* the contents MakeTokenDB accepts
    Absent,     \* there is no such file
    Builtin,    \* the embedded default; for auth.db the nil TokenDB
    StartDisks, \* what the directories may contain when the process starts
    Requests,   \* request slots
    MaxEdits,   \* bound: how often files are edited
    MaxHups     \* bound: how often SIGHUP is sent

Files == 1..NumFiles
Dirs == 1..NumDirs

ASSUME ProcessAssumption ==
    /\ NumFiles \in Nat \ {0} /\ NumDirs \in Nat \ {0}
    /\ Auth \in Files
    /\ Empty \in Contents /\ Absent \notin Contents /\ Builtin \notin Contents
    /\ WellFormed \subseteq Contents \ {Empty}
    /\ StartDisks \subseteq [Files -> [Dirs -> Contents \cup {Absent}]]
    /\ MaxEdits \in Nat /\ MaxHups \in Nat

VARIABLES
    disk,       \* disk[f][d]: what file f contains in directory d
    live,       \* currentAssets, the values in use
    got,        \* the values updateFiles has read so far
    reload,     \* where reload is
    file, dir,  \* the file it is at, the directory it tries or has chosen
    hup,        \* signals buffered in the channel sighup
    main,       \* where runServer is
    stopper,    \* where the goroutine of shutdownWhen is
    term,       \* signals buffered in the channel sig
    stats,      \* admin.Server
    inflight,   \* requests being handled
    holding,    \* the store is not empty
    \* History:
    noticed,    \* stopNotice was logged
    gaveUp,     \* srv.Shutdown ended by its deadline
    stale,      \* files edited since the last SIGHUP was sent
    edits, hups \* counted against the bounds

configVars == <<disk, stale, edits>>
reloadVars == <<live, got, reload, file, dir>>
stopVars == <<stopper, stats, noticed, gaveUp>>
vars == <<configVars, reloadVars, stopVars, hup, hups, main, term, inflight,
          holding>>

Ended == {"exited", "killed", "fatal"}
Up == main \notin Ended

-----------------------------------------------------------------------------
(* Files *)

\* What TryReadFile returns when nobody edits meanwhile: the first directory
\* that has the file counts, even if the file there is empty.
Found(row) == {d \in Dirs : row[d] # Absent}
First(row) == CHOOSE d \in Found(row) : \A e \in Found(row) : d <= e
Visible(row) == IF Found(row) = {} THEN Empty ELSE row[First(row)]
Effective(f) == Visible(disk[f])

\* MakeTokenDB rejects the whole file; FileOrFunc and FileOrConst fall back on
\* what is embedded.
Accepted(f) == IF f = Auth THEN WellFormed ELSE Contents \ {Empty}
Value(f, c) == IF c \in Accepted(f) THEN c ELSE Builtin

\* The administrator writes, empties, creates or removes a file.
Edit ==
    /\ edits < MaxEdits
    /\ \E f \in Files, d \in Dirs, c \in Contents \cup {Absent} :
          /\ disk[f][d] # c
          /\ disk' = [disk EXCEPT ![f][d] = c]
          /\ stale' = stale \cup {f}
    /\ edits' = edits + 1
    /\ UNCHANGED <<reloadVars, stopVars, hup, hups, main, term, inflight, holding>>

-----------------------------------------------------------------------------
(* reload *)

\* TryFile, one directory: past the last one it returns "".
TryDir ==
    /\ Up /\ reload = "try"
    /\ IF dir > NumDirs \/ (dir \in Dirs /\ disk[file][dir] # Absent)
       THEN reload' = "read" /\ UNCHANGED dir
       ELSE dir' = dir + 1 /\ UNCHANGED reload
    /\ UNCHANGED <<configVars, live, got, file, stopVars, hup, hups, main,
                   term, inflight, holding>>

\* os.ReadFile on what TryFile found, whatever is there by now.
Contained == IF dir \in Dirs /\ disk[file][dir] # Absent
             THEN disk[file][dir] ELSE Empty

ReadFile ==
    /\ Up /\ reload = "read"
    /\ got' = [got EXCEPT ![file] = Value(file, Contained)]
    /\ IF file < NumFiles
       THEN file' = file + 1 /\ dir' = 1 /\ reload' = "try"
       ELSE reload' = "publish" /\ UNCHANGED <<file, dir>>
    /\ UNCHANGED <<configVars, live, stopVars, hup, hups, main, term, inflight,
                   holding>>

\* currentAssets.Store; the first reload is runServer's own.
Publish ==
    /\ Up /\ reload = "publish"
    /\ live' = got
    /\ reload' = "idle"
    /\ main' = IF main = "load" THEN "notifyhup" ELSE main
    /\ UNCHANGED <<configVars, got, file, dir, stopVars, hup, hups, term,
                   inflight, holding>>

\* Mutant: the loop over the channel is an if, served once.
FirstHupOnly == hups = 1

HupLoop == TRUE

\* "for range sighup": the goroutine takes the next signal and calls reload.
TakeHup ==
    /\ Up /\ main \notin {"load", "notifyhup"}
    /\ reload = "idle" /\ hup > 0 /\ HupLoop
    /\ hup' = hup - 1
    /\ reload' = "try" /\ file' = 1 /\ dir' = 1
    /\ UNCHANGED <<configVars, live, got, stopVars, hups, main, term, inflight,
                   holding>>

-----------------------------------------------------------------------------
(* Signals *)

\* Mutants: a channel without a buffer loses what comes while its reader is
\* busy; a channel whose buffer is counted on without a limit.
HupUnbuffered == IF reload = "idle" THEN 1 ELSE hup
HupUnlimited == hup + 1

\* The runtime never waits for a full channel: the signal is dropped.
HupBuffered == 1

\* Until signal.Notify has been called a SIGHUP ends the process.
SendHup ==
    /\ Up /\ hups < MaxHups
    /\ hups' = hups + 1 /\ stale' = {}
    /\ IF main \in {"load", "notifyhup"}
       THEN main' = "killed" /\ UNCHANGED hup
       ELSE hup' = HupBuffered /\ UNCHANGED main
    /\ UNCHANGED <<disk, edits, reloadVars, stopVars, term, inflight, holding>>

\* Mutant: the signals are handed back as soon as the first one is taken.
DefaultOnceTaken == stopper \in {"none", "notice", "stats", "drain", "wait",
                                 "release", "close", "done"}

\* Before signal.Notify and after signal.Stop a TERM ends the process.
TermIsDefault == stopper \in {"none", "close", "done"}
TermBuffered == 1

SendTerm ==
    /\ Up
    /\ IF TermIsDefault
       THEN main' = "killed" /\ UNCHANGED term
       ELSE term' = TermBuffered /\ UNCHANGED main
    /\ UNCHANGED <<configVars, reloadVars, stopVars, hup, hups, inflight,
                   holding>>

-----------------------------------------------------------------------------
(* shutdownWhen *)

Stopper(from, to) == Up /\ stopper = from /\ stopper' = to

\* The goroutine is started, but need not run at once.
BeginAwait ==
    /\ Stopper("spawned", "await")
    /\ UNCHANGED <<configVars, reloadVars, stats, noticed, gaveUp, hup, hups,
                   main, term, inflight, holding>>

TakeTerm ==
    /\ term > 0
    /\ Stopper("await", "notice")
    /\ term' = term - 1
    /\ UNCHANGED <<configVars, reloadVars, stats, noticed, gaveUp, hup, hups,
                   main, inflight, holding>>

Notice ==
    /\ Stopper("notice", "stats")
    /\ noticed' = TRUE
    /\ UNCHANGED <<configVars, reloadVars, stats, gaveUp, hup, hups, main,
                   term, inflight, holding>>

\* stats.Close; a deadline of its own bounds it.  Close of a nil Server does
\* nothing.
CloseStats ==
    /\ Stopper("stats", "drain")
    /\ stats' = "off"
    /\ UNCHANGED <<configVars, reloadVars, noticed, gaveUp, hup, hups, main,
                   term, inflight, holding>>

\* srv.Shutdown closes the listener first; from then on nothing is accepted.
BeginDrain ==
    /\ Stopper("drain", "wait")
    /\ UNCHANGED <<configVars, reloadVars, stats, noticed, gaveUp, hup, hups,
                   main, term, inflight, holding>>

Drained ==
    /\ inflight = {}
    /\ Stopper("wait", "release")
    /\ UNCHANGED <<configVars, reloadVars, stats, noticed, gaveUp, hup, hups,
                   main, term, inflight, holding>>

\* Mutant: no deadline.
NeverOver == FALSE

GraceOver == inflight # {}

\* The context of shutdownGrace expires with requests still in flight.
GiveUp ==
    /\ GraceOver
    /\ Stopper("wait", "release")
    /\ gaveUp' = TRUE
    /\ UNCHANGED <<configVars, reloadVars, stats, noticed, hup, hups, main,
                   term, inflight, holding>>

\* The deferred calls: signal.Stop, then close(done).
Release ==
    /\ Stopper("release", "close")
    /\ UNCHANGED <<configVars, reloadVars, stats, noticed, gaveUp, hup, hups,
                   main, term, inflight, holding>>

CloseDone ==
    /\ Stopper("close", "done")
    /\ UNCHANGED <<configVars, reloadVars, stats, noticed, gaveUp, hup, hups,
                   main, term, inflight, holding>>

\* Mutant: Shutdown closes the listener when the requests have drained.
ShuttingDownLate == stopper \in {"release", "close", "done"}

ShuttingDown == stopper \in {"wait", "release", "close", "done"}

-----------------------------------------------------------------------------
(* runServer *)

\* signal.Notify for SIGHUP and the reloading goroutine.
NotifyHup ==
    /\ main = "notifyhup"
    /\ main' = "notifyterm"
    /\ UNCHANGED <<configVars, reloadVars, stopVars, hup, hups, term, inflight,
                   holding>>

\* shutdownOnSignal
NotifyTerm ==
    /\ main = "notifyterm"
    /\ main' = "listen"
    /\ stopper' = "spawned"
    /\ UNCHANGED <<configVars, reloadVars, stats, noticed, gaveUp, hup, hups,
                   term, inflight, holding>>

\* ListenAndServe: after Shutdown it returns ErrServerClosed.
Listen ==
    /\ main = "listen"
    /\ main' = IF ShuttingDown THEN "closed" ELSE "serving"
    /\ UNCHANGED <<configVars, reloadVars, stopVars, hup, hups, term, inflight,
                   holding>>

\* log.Fatal: no certificate, the address is taken, Accept fails for good.
\* Nothing that was deferred or is served elsewhere gets closed.
Fatal ==
    /\ main = "listen" \/ (main = "serving" /\ ~ShuttingDown)
    /\ main' = "fatal"
    /\ UNCHANGED <<configVars, reloadVars, stopVars, hup, hups, term, inflight,
                   holding>>

ServerClosed ==
    /\ main = "serving" /\ ShuttingDown
    /\ main' = "closed"
    /\ UNCHANGED <<configVars, reloadVars, stopVars, hup, hups, term, inflight,
                   holding>>

\* Mutant: runServer returns as soon as ListenAndServe does.
NotWaitedFor == TRUE

Stopped == stopper = "done"

\* "<-stopped"; when main returns, the process is gone.
Return ==
    /\ main = "closed" /\ Stopped
    /\ main' = "exited"
    /\ UNCHANGED <<configVars, reloadVars, stopVars, hup, hups, term, inflight,
                   holding>>

\* A request is accepted; it ends having created or claimed a secret, or not.
Accept(r) ==
    /\ main = "serving" /\ ~ShuttingDown
    /\ r \notin inflight
    /\ inflight' = inflight \cup {r}
    /\ UNCHANGED <<configVars, reloadVars, stopVars, hup, hups, main, term,
                   holding>>

Finish(r) ==
    /\ Up /\ r \in inflight
    /\ inflight' = inflight \ {r}
    /\ holding' \in BOOLEAN
    /\ UNCHANGED <<configVars, reloadVars, stopVars, hup, hups, main, term>>

\* runServer begins with the files as they are and starts its first reload.
Init ==
    /\ disk \in StartDisks
    /\ live = [f \in Files |-> Builtin]
    /\ got = [f \in Files |-> Builtin]
    /\ reload = "try" /\ file = 1 /\ dir = 1
    /\ main = "load" /\ stopper = "none"
    /\ hup = 0 /\ term = 0
    /\ stats \in {"off", "serving"}
    /\ inflight = {} /\ holding = FALSE
    /\ noticed = FALSE /\ gaveUp = FALSE
    /\ stale = {} /\ edits = 0 /\ hups = 0

Reload == TryDir \/ ReadFile \/ Publish \/ TakeHup
Stop == BeginAwait \/ TakeTerm \/ Notice \/ CloseStats \/ BeginDrain
        \/ Drained \/ GiveUp \/ Release \/ CloseDone
Main == NotifyHup \/ NotifyTerm \/ Listen \/ Fatal \/ ServerClosed \/ Return

Next ==
    \/ Edit \/ SendHup \/ SendTerm
    \/ Reload \/ Stop \/ Main
    \/ \E r \in Requests : Accept(r) \/ Finish(r)

Spec == Init /\ [][Next]_vars

\* The Go scheduler runs every goroutine that can run, and the deadline of
\* srv.Shutdown does come.  Requests may take for ever; nobody has to edit
\* files or send signals; nothing has to fail.
FairSpec ==
    /\ Spec
    /\ WF_vars(Reload) /\ WF_vars(Stop)
    /\ WF_vars(NotifyHup \/ NotifyTerm \/ Listen \/ ServerClosed \/ Return)

-----------------------------------------------------------------------------
(* Properties *)

TypeOK ==
    /\ disk \in [Files -> [Dirs -> Contents \cup {Absent}]]
    /\ live \in [Files -> Contents \cup {Builtin}]
    /\ got \in [Files -> Contents \cup {Builtin}]
    /\ reload \in {"idle", "try", "read", "publish"}
    /\ file \in Files /\ dir \in 1..NumDirs + 1
    /\ hup \in 0..1 /\ term \in 0..1
    /\ main \in {"load", "notifyhup", "notifyterm", "listen", "serving",
                 "closed"} \cup Ended
    /\ stopper \in {"none", "spawned", "await", "notice", "stats", "drain",
                    "wait", "release", "close", "done"}
    /\ stats \in {"off", "serving"}
    /\ inflight \subseteq Requests /\ holding \in BOOLEAN
    /\ noticed \in BOOLEAN /\ gaveUp \in BOOLEAN
    /\ stale \subseteq Files
    /\ edits \in Nat /\ hups \in Nat

\* A file is settled when nobody edited it since the last SIGHUP, every SIGHUP
\* has been taken from the channel and no reload is under way.  Then the value
\* in use is the one the file stands for: a token that was taken out of auth.db
\* is refused, one that was put in is accepted, whatever was edited or signalled
\* while earlier reloads were running.
SettledIsCurrent ==
    \A f \in Files :
        Up /\ f \notin stale /\ hup = 0 /\ reload = "idle"
            => live[f] = Value(f, Effective(f))

\* A configuration that was signalled gets into use, unless somebody edits the
\* file again or the process ends: no SIGHUP is lost for good.
HupHeeded ==
    \A f \in Files :
        f \notin stale ~> (live[f] = Value(f, Effective(f)) \/ f \in stale \/ ~Up)

\* A TERM the process has taken charge of ends it, however long a request lasts.
EveryTermStops == (term > 0) ~> ~Up

\* Returning from runServer is an orderly stop: the loss was written to the
\* journal, the stats socket is closed, and only a request that outlasted the
\* grace period is cut off.
ExitIsOrderly ==
    main = "exited" =>
        noticed /\ stats = "off" /\ (inflight # {} => gaveUp)

\* No SIGHUP, SIGTERM or SIGINT destroys secrets without the line that says so:
\* before the line is written, these end the process only while there is nothing
\* to lose.  (Of a signal the process does not ask for, nothing is said.)
LossIsNoted == main = "killed" /\ holding => noticed

\* The stop as ProcessStop has it: draining, handing the signals back and
\* closing the channel are all part of the wait.
Ending ==
    CASE ~Up -> "gone"
      [] Up /\ stopper \in {"none", "spawned", "await", "notice"} -> "up"
      [] Up /\ stopper = "stats" -> "close"
      [] Up /\ stopper = "drain" -> "drain"
      [] OTHER -> "wait"

Promised == INSTANCE ProcessStop
                WITH stop <- Ending, noted <- noticed,
                     inflight <- IF Up THEN inflight ELSE {}

\* Whatever the goroutines of the process do in which order, and whichever
\* signals come meanwhile: first the line, then the stats socket, then the
\* listener, and no request is let in after that.
ImplementsStop == Promised!Spec
=============================================================================
