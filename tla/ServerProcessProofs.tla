------------------------- MODULE ServerProcessProofs -------------------------
(* Theorems about ServerProcess, for any number of files, directories,      *)
(* requests, edits and signals.                                             *)
EXTENDS ServerProcess, LeastElements, TLAPS

ConfigOK ==
    /\ disk \in [Files -> [Dirs -> Contents \cup {Absent}]]
    /\ stale \subseteq Files /\ edits \in Nat /\ hups \in Nat

AssetsOK ==
    /\ live \in [Files -> Contents \cup {Builtin}]
    /\ got \in [Files -> Contents \cup {Builtin}]

PlaceOK ==
    /\ reload \in {"idle", "try", "read", "publish"}
    /\ file \in Files /\ dir \in 1..NumDirs + 1
    /\ hup \in 0..1 /\ term \in 0..1

RunOK ==
    /\ main \in {"load", "notifyhup", "notifyterm", "listen", "serving",
                 "closed"} \cup Ended
    /\ stopper \in {"none", "spawned", "await", "notice", "stats", "drain",
                    "wait", "release", "close", "done"}
    /\ stats \in {"off", "serving"}
    /\ inflight \subseteq Requests /\ holding \in BOOLEAN
    /\ noticed \in BOOLEAN /\ gaveUp \in BOOLEAN

LEMMA TypeParts == TypeOK <=> ConfigOK /\ AssetsOK /\ PlaceOK /\ RunOK
  BY DEF TypeOK, ConfigOK, AssetsOK, PlaceOK, RunOK

LEMMA ValueType ==
    ASSUME NEW f \in Files, NEW c
    PROVE  Value(f, c) \in Contents \cup {Builtin}
  BY ProcessAssumption DEF Value, Accepted

\* The process's type invariant.
THEOREM TypeCorrect == Spec => []TypeOK
<1> USE ProcessAssumption DEF Files, Dirs
<1>1. Init => TypeOK
  <2> SUFFICES ASSUME Init PROVE TypeOK
    OBVIOUS
  <2>1. ConfigOK
    BY DEF Init, ConfigOK
  <2>2. AssetsOK /\ PlaceOK
    BY DEF Init, AssetsOK, PlaceOK
  <2>3. RunOK
    BY DEF Init, RunOK
  <2> QED
    BY <2>1, <2>2, <2>3, TypeParts
<1>2. TypeOK /\ [Next]_vars => TypeOK'
  <2> SUFFICES ASSUME ConfigOK, AssetsOK, PlaceOK, RunOK, [Next]_vars
               PROVE  (ConfigOK /\ AssetsOK /\ PlaceOK /\ RunOK)'
    BY TypeParts DEF ConfigOK, AssetsOK, PlaceOK, RunOK, TypeOK
  <2>1. CASE UNCHANGED vars
    BY <2>1 DEF vars, configVars, reloadVars, stopVars, ConfigOK, AssetsOK,
                PlaceOK, RunOK
  <2>2. CASE Edit
    <3>1. ConfigOK'
      BY <2>2 DEF Edit, ConfigOK
    <3> QED
      BY <3>1, <2>2 DEF Edit, reloadVars, stopVars, AssetsOK, PlaceOK, RunOK
  <2>3. CASE SendHup \/ SendTerm
    <3>1. ConfigOK'
      <4>1. CASE SendHup
        BY <4>1 DEF SendHup, ConfigOK
      <4>2. CASE SendTerm
        BY <4>2 DEF SendTerm, configVars, ConfigOK
      <4> QED
        BY <2>3, <4>1, <4>2
    <3>2. AssetsOK' /\ PlaceOK'
      BY <2>3 DEF SendHup, SendTerm, HupBuffered, TermBuffered, reloadVars,
                  AssetsOK, PlaceOK
    <3>3. RunOK'
      BY <2>3, Zenon DEF SendHup, SendTerm, stopVars, RunOK, Ended
    <3> QED
      BY <3>1, <3>2, <3>3
  <2>4. CASE Reload
    <3>1. CASE TryDir
      BY <3>1 DEF TryDir, configVars, stopVars, ConfigOK, AssetsOK, PlaceOK,
                  RunOK
    <3>2. CASE ReadFile
      <4>1. AssetsOK'
        BY <3>2, ValueType DEF ReadFile, AssetsOK, PlaceOK
      <4> QED
        BY <3>2, <4>1 DEF ReadFile, configVars, stopVars, ConfigOK, PlaceOK,
                          RunOK
    <3>3. CASE Publish \/ TakeHup
      <4>1. ConfigOK' /\ AssetsOK'
        BY <3>3 DEF Publish, TakeHup, configVars, ConfigOK, AssetsOK
      <4>2. PlaceOK'
        BY <3>3 DEF Publish, TakeHup, PlaceOK
      <4>3. RunOK'
        BY <3>3 DEF Publish, TakeHup, stopVars, RunOK, Ended
      <4> QED
        BY <4>1, <4>2, <4>3
    <3> QED
      BY <2>4, <3>1, <3>2, <3>3 DEF Reload
  <2>5. CASE Stop
    <3> USE <2>5 DEF Stop, Stopper, BeginAwait, TakeTerm, Notice, CloseStats,
                     BeginDrain, Drained, GiveUp, Release, CloseDone
    <3>1. ConfigOK' /\ AssetsOK'
      BY DEF configVars, reloadVars, ConfigOK, AssetsOK
    <3>2. PlaceOK'
      BY DEF reloadVars, PlaceOK
    <3>3. RunOK'
      BY DEF RunOK
    <3> QED
      BY <3>1, <3>2, <3>3
  <2>6. CASE Main
    <3> USE <2>6 DEF Main, NotifyHup, NotifyTerm, Listen, Fatal, ServerClosed,
                     Return
    <3>1. ConfigOK' /\ AssetsOK'
      BY DEF configVars, reloadVars, ConfigOK, AssetsOK
    <3>2. PlaceOK'
      BY DEF reloadVars, PlaceOK
    <3>3. RunOK'
      BY DEF stopVars, RunOK, Ended
    <3> QED
      BY <3>1, <3>2, <3>3
  <2>7. ASSUME NEW r \in Requests, Accept(r) \/ Finish(r)
        PROVE  (ConfigOK /\ AssetsOK /\ PlaceOK /\ RunOK)'
    BY <2>7 DEF Accept, Finish, configVars, reloadVars, stopVars, ConfigOK,
                AssetsOK, PlaceOK, RunOK
  <2> QED
    BY <2>1, <2>2, <2>3, <2>4, <2>5, <2>6, <2>7 DEF Next
<1> QED
  BY <1>1, <1>2, PTL DEF Spec

-----------------------------------------------------------------------------
(* The configuration in use *)

\* What a look through the directories finds.
LEMMA FirstOneCounts ==
    ASSUME NEW row, NEW d \in Dirs, row[d] # Absent,
           \A e \in Dirs : e < d => row[e] = Absent
    PROVE  Visible(row) = row[d]
<1> USE ProcessAssumption DEF Dirs
<1>1. d \in Found(row) /\ \A e \in Found(row) : d <= e
  BY DEF Found
<1>2. \A c \in Found(row) : (\A e \in Found(row) : c <= e) => c = d
  BY <1>1 DEF Found
<1>3. First(row) = d
  BY <1>1, <1>2 DEF First
<1> QED
  BY <1>1, <1>3 DEF Visible

\* If any directory has the file, one is the first that has it, and Visible is
\* what stands there.
LEMMA VisibleIsFirst ==
    ASSUME NEW row
    PROVE  IF \E d \in Dirs : row[d] # Absent
           THEN \E d \in Dirs : /\ row[d] # Absent /\ Visible(row) = row[d]
                                /\ \A e \in Dirs : e < d => row[e] = Absent
           ELSE Visible(row) = Empty
<1>1. CASE Found(row) = {}
  BY <1>1 DEF Visible, Found
<1>2. CASE Found(row) # {}
  <2>1. Found(row) \in SUBSET Nat
    BY DEF Found, Dirs
  <2>2. PICK d \in Found(row) : \A e \in Found(row) : d <= e
    BY <1>2, <2>1, LeastOne
  <2>3. d \in Dirs /\ row[d] # Absent
    BY DEF Found
  <2>4. \A e \in Dirs : e < d => row[e] = Absent
    BY <2>2 DEF Found, Dirs
  <2> QED
    BY <2>3, <2>4, FirstOneCounts
<1> QED
  BY <1>1, <1>2 DEF Found

LEMMA NoneIsEmpty ==
    ASSUME NEW row, \A e \in Dirs : row[e] = Absent
    PROVE  Visible(row) = Empty
  BY DEF Visible, Found

\* How far the reload has come with file f, as far as f was left alone since
\* the last SIGHUP and none is waiting in the channel.
Reached(f) ==
    /\ reload = "idle" => live[f] = Value(f, Effective(f))
    /\ reload = "publish" => got[f] = Value(f, Effective(f))
    /\ reload \in {"try", "read"} =>
          /\ f < file => got[f] = Value(f, Effective(f))
          /\ f = file => \A e \in Dirs : e < dir => disk[f][e] = Absent
    /\ reload = "read" /\ f = file =>
          dir = NumDirs + 1 \/ disk[f][dir] # Absent

ReloadOK ==
    \A f \in Files : Up /\ f \notin stale /\ hup = 0 => Reached(f)

LEMMA ReloadOKInit == Init => ReloadOK
  BY ProcessAssumption DEF Init, ReloadOK, Reached, Files, Dirs

LEMMA ReloadOKNext == TypeOK /\ ReloadOK /\ [Next]_vars => ReloadOK'
<1> SUFFICES ASSUME TypeOK, ReloadOK, [Next]_vars, NEW f \in Files,
                    Up', f \notin stale', hup' = 0
             PROVE  Reached(f)'
  BY DEF ReloadOK
<1> USE ProcessAssumption
<1>0. /\ file \in Nat /\ f \in Nat /\ f <= NumFiles /\ file <= NumFiles
      /\ f >= 1 /\ file >= 1
      /\ dir \in Nat /\ dir >= 1 /\ dir <= NumDirs + 1
      /\ NumDirs \in Nat /\ NumFiles \in Nat
  BY DEF TypeOK, Files
<1>1. ASSUME Up, f \notin stale, hup = 0,
             disk'[f] = disk[f], UNCHANGED <<live, got, reload, file, dir>>
      PROVE  Reached(f)'
  BY <1>1 DEF ReloadOK, Reached, Effective
<1>2. CASE UNCHANGED vars
  BY <1>1, <1>2 DEF vars, configVars, reloadVars, Up
<1>3. CASE Edit
  <2>1. PICK g \in Files, d \in Dirs, c \in Contents \cup {Absent} :
           disk' = [disk EXCEPT ![g][d] = c] /\ stale' = stale \cup {g}
    BY <1>3 DEF Edit
  <2>2. disk'[f] = disk[f] /\ f \notin stale
    BY <2>1 DEF TypeOK
  <2> QED
    BY <1>1, <1>3, <2>2 DEF Edit, reloadVars, Up
<1>4. CASE SendHup
  BY <1>4 DEF SendHup, HupBuffered, Up, Ended
<1>5. CASE SendTerm
  BY <1>1, <1>5 DEF SendTerm, configVars, reloadVars
<1>6. CASE TryDir
  <2>1. Reached(f) /\ UNCHANGED <<disk, live, got, file>>
    BY <1>6 DEF TryDir, configVars, ReloadOK, Up
  <2>2. CASE dir > NumDirs \/ (dir \in Dirs /\ disk[file][dir] # Absent)
    <3>1. reload' = "read" /\ dir' = dir /\ reload = "try"
      BY <1>6, <2>2 DEF TryDir
    <3>2. dir = NumDirs + 1 \/ disk[file][dir] # Absent
      BY <1>0, <2>2
    <3> QED
      BY <2>1, <3>1, <3>2 DEF Reached, Effective
  <2>3. CASE ~(dir > NumDirs \/ (dir \in Dirs /\ disk[file][dir] # Absent))
    <3>1. dir' = dir + 1 /\ reload' = "try" /\ reload = "try"
      BY <1>6, <2>3 DEF TryDir
    <3>2. dir \in Dirs /\ disk[file][dir] = Absent
      BY <1>0, <2>3 DEF Dirs
    <3>3. ASSUME f = file, NEW e \in Dirs, e < dir + 1
          PROVE  disk[f][e] = Absent
      <4>1. e < dir \/ e = dir
        BY <1>0, <3>3 DEF Dirs
      <4> QED
        BY <4>1, <2>1, <3>1, <3>2, <3>3 DEF Reached
    <3> QED
      BY <2>1, <3>1, <3>3 DEF Reached, Effective
  <2> QED
    BY <2>2, <2>3
<1>7. CASE ReadFile
  <2>1. Reached(f) /\ UNCHANGED <<disk, live>> /\ reload = "read"
        /\ got' = [got EXCEPT ![file] = Value(file, Contained)]
    BY <1>7 DEF ReadFile, configVars, ReloadOK, Up
  <2>2. ASSUME f = file PROVE Contained = Effective(f)
    <3>1. \A e \in Dirs : e < dir => disk[f][e] = Absent
      BY <2>1, <2>2 DEF Reached
    <3>2. CASE dir \in Dirs
      <4>1. disk[f][dir] # Absent
        BY <1>0, <2>1, <2>2, <3>2 DEF Reached, Dirs
      <4> QED
        BY <2>2, <3>1, <3>2, <4>1, FirstOneCounts DEF Contained, Effective
    <3>3. CASE dir \notin Dirs
      <4>1. \A e \in Dirs : disk[f][e] = Absent
        BY <1>0, <3>1, <3>3 DEF Dirs
      <4> QED
        BY <3>3, <4>1, NoneIsEmpty DEF Contained, Effective
    <3> QED
      BY <3>2, <3>3
  <2>3. ASSUME f <= file PROVE got'[f] = Value(f, Effective(f))
    <3>1. CASE f = file
      BY <2>1, <2>2, <3>1 DEF TypeOK
    <3>2. CASE f < file
      BY <2>1, <3>2, <1>0 DEF Reached, TypeOK
    <3> QED
      BY <1>0, <2>3, <3>1, <3>2
  <2>4. CASE file < NumFiles
    <3>1. file' = file + 1 /\ dir' = 1 /\ reload' = "try"
      BY <1>7, <2>4 DEF ReadFile
    <3>2. f < file + 1 => f <= file
      BY <1>0
    <3>3. \A e \in Dirs : ~(e < 1)
      BY DEF Dirs
    <3> QED
      BY <2>1, <2>3, <3>1, <3>2, <3>3 DEF Reached, Effective
  <2>5. CASE ~(file < NumFiles)
    <3>1. reload' = "publish" /\ f <= file
      BY <1>0, <1>7, <2>5 DEF ReadFile
    <3> QED
      BY <2>1, <2>3, <3>1 DEF Reached, Effective
  <2> QED
    BY <2>4, <2>5
<1>8. CASE Publish
  <2>1. Reached(f)
    BY <1>8 DEF Publish, configVars, ReloadOK
  <2> QED
    BY <1>8, <2>1 DEF Publish, configVars, Reached, Effective
<1>9. CASE TakeHup
  BY <1>9, <1>0 DEF TakeHup, Reached, Dirs
<1>10. CASE Stop
  <2>1. Up /\ UNCHANGED <<configVars, reloadVars, hup>>
    BY <1>10 DEF Stop, Stopper, BeginAwait, TakeTerm, Notice, CloseStats,
                 BeginDrain, Drained, GiveUp, Release, CloseDone
  <2> QED
    BY <1>1, <2>1 DEF configVars, reloadVars
<1>11. CASE Main
  <2>1. Up /\ UNCHANGED <<configVars, reloadVars, hup>>
    BY <1>11 DEF Main, NotifyHup, NotifyTerm, Listen, Fatal, ServerClosed,
                 Return, Up, Ended
  <2> QED
    BY <1>1, <2>1 DEF configVars, reloadVars
<1>12. ASSUME NEW r \in Requests, Accept(r) \/ Finish(r)
       PROVE  Reached(f)'
  BY <1>1, <1>12 DEF Accept, Finish, configVars, reloadVars, Up
<1> QED
  BY <1>2, <1>3, <1>4, <1>5, <1>6, <1>7, <1>8, <1>9, <1>10, <1>11, <1>12
     DEF Next, Reload

\* Whatever was edited and signalled while reloads were running: once the last
\* SIGHUP is dealt with, a file that was left alone since is in use.
THEOREM ConfigurationSettles == Spec => []SettledIsCurrent
<1>1. ReloadOK => SettledIsCurrent
  BY DEF ReloadOK, Reached, SettledIsCurrent
<1> QED
  BY <1>1, ReloadOKInit, ReloadOKNext, TypeCorrect, PTL DEF Spec

\* The same without the operators the model looks up a file with: the value of a
\* settled file is made of what stands in the one directory that TryFile's loop
\* stops at, even if the file is empty there, and is the embedded one only if no
\* directory has the file or what was found is not accepted.
FirstDirectoryInUse ==
    \A f \in Files :
        Up /\ f \notin stale /\ hup = 0 /\ reload = "idle" =>
            \/ \E d \in Dirs : /\ disk[f][d] # Absent
                              /\ \A e \in Dirs : e < d => disk[f][e] = Absent
                              /\ live[f] = IF disk[f][d] \in Accepted(f)
                                             THEN disk[f][d] ELSE Builtin
            \/ /\ \A d \in Dirs : disk[f][d] = Absent
               /\ live[f] = Builtin

\* For any number of directories, edits and signals, what a reload's steps end up
\* with is the file in the first directory that has it: neither a file found in a
\* later directory nor one that was gone when it was read stays in use.
THEOREM FirstDirectoryIsUsed == Spec => []FirstDirectoryInUse
<1>1. SettledIsCurrent => FirstDirectoryInUse
  <2> SUFFICES ASSUME NEW f \in Files, live[f] = Value(f, Visible(disk[f]))
               PROVE  \/ \E d \in Dirs :
                            /\ disk[f][d] # Absent
                            /\ \A e \in Dirs : e < d => disk[f][e] = Absent
                            /\ live[f] = IF disk[f][d] \in Accepted(f)
                                           THEN disk[f][d] ELSE Builtin
                      \/ /\ \A d \in Dirs : disk[f][d] = Absent
                         /\ live[f] = Builtin
    BY DEF SettledIsCurrent, FirstDirectoryInUse, Effective
  <2>1. CASE \E d \in Dirs : disk[f][d] # Absent
    <3>1. PICK d \in Dirs : /\ disk[f][d] # Absent
                            /\ Visible(disk[f]) = disk[f][d]
                            /\ \A e \in Dirs : e < d => disk[f][e] = Absent
      BY <2>1, VisibleIsFirst
    <3> QED
      BY <3>1 DEF Value
  <2>2. CASE \A d \in Dirs : disk[f][d] = Absent
    <3>1. Visible(disk[f]) = Empty
      BY <2>2, NoneIsEmpty
    <3>2. Empty \notin Accepted(f)
      BY ProcessAssumption DEF Accepted
    <3> QED
      BY <2>2, <3>1, <3>2 DEF Value
  <2> QED
    BY <2>1, <2>2
<1> QED
  BY <1>1, ConfigurationSettles, PTL

-----------------------------------------------------------------------------
(* The orderly stop *)

\* Where the stopping goroutine is tells what has happened: nothing was served
\* before it existed, and each step of the stop finds the ones before it done.
StopOK ==
    /\ Up => (stopper = "none"
                <=> main \in {"load", "notifyhup", "notifyterm"})
    /\ stopper = "none" => inflight = {} /\ ~holding
    /\ stopper \in {"stats", "drain", "wait", "release", "close", "done"}
          => noticed
    /\ stopper \in {"drain", "wait", "release", "close", "done"}
          => stats = "off"
    /\ stopper \in {"release", "close", "done"} => inflight = {} \/ gaveUp
    /\ main = "exited" => stopper = "done"

LEMMA StopOKNext ==
    TypeOK /\ StopOK /\ LossIsNoted /\ [Next]_vars => (StopOK /\ LossIsNoted)'
<1> SUFFICES ASSUME TypeOK, StopOK, LossIsNoted, [Next]_vars
             PROVE  StopOK' /\ LossIsNoted'
  OBVIOUS
<1> USE DEF StopOK, LossIsNoted, Up, Ended
<1>1. CASE UNCHANGED vars \/ Edit
  BY <1>1 DEF vars, Edit, stopVars
<1>2. CASE SendHup
  BY <1>2 DEF SendHup, stopVars
<1>3. CASE SendTerm
  BY <1>3 DEF SendTerm, TermIsDefault, stopVars
<1>4. CASE Reload
  BY <1>4 DEF Reload, TryDir, ReadFile, Publish, TakeHup, stopVars
<1>5. CASE Stop
  BY <1>5 DEF Stop, Stopper, BeginAwait, TakeTerm, Notice, CloseStats,
              BeginDrain, Drained, GiveUp, Release, CloseDone
<1>6. CASE Main
  BY <1>6 DEF Main, NotifyHup, NotifyTerm, Listen, Fatal, ServerClosed,
              Return, Stopped, ShuttingDown, stopVars
<1>7. ASSUME NEW r \in Requests, Accept(r) \/ Finish(r)
      PROVE  StopOK' /\ LossIsNoted'
  BY <1>7 DEF Accept, Finish, ShuttingDown, stopVars
<1> QED
  BY <1>1, <1>2, <1>3, <1>4, <1>5, <1>6, <1>7 DEF Next

LEMMA StopInvariant == Spec => [](StopOK /\ LossIsNoted)
<1>1. Init => StopOK /\ LossIsNoted
  BY DEF Init, StopOK, LossIsNoted, Up, Ended
<1> QED
  BY <1>1, StopOKNext, TypeCorrect, PTL DEF Spec

\* Whenever runServer returns, the loss was logged, the stats socket is closed,
\* and a request is cut off only because it outlasted the grace period.
THEOREM StopIsOrderly == Spec => []ExitIsOrderly
<1>1. StopOK => ExitIsOrderly
  BY DEF StopOK, ExitIsOrderly
<1> QED
  BY <1>1, StopInvariant, PTL

\* No SIGHUP, SIGTERM or SIGINT, at whatever moment, destroys secrets without
\* the line that says so.
THEOREM SignalsAreNoted == Spec => []LossIsNoted
  BY StopInvariant, PTL

-----------------------------------------------------------------------------
(* ServerProcess implements ProcessStop. *)

\* Who may still be let in, as ProcessStop sees it.
LEMMA EndingOf ==
    ASSUME RunOK
    PROVE  /\ Ending = "gone" <=> ~Up
           /\ Up => /\ Ending = "up" <=>
                         stopper \in {"none", "spawned", "await", "notice"}
                    /\ Ending = "close" <=> stopper = "stats"
                    /\ Ending = "drain" <=> stopper = "drain"
                    /\ Ending = "wait" <=> ShuttingDown
           /\ Ending \in {"up", "close", "drain", "wait", "gone"}
<1>1. CASE ~Up
  BY <1>1 DEF Ending
<1>2. CASE Up
  BY <1>2 DEF Ending, RunOK, ShuttingDown
<1> QED
  BY <1>1, <1>2

\* What does not touch the stop does not touch ProcessStop's either.
LEMMA SameEnding ==
    ASSUME UNCHANGED <<stopper, noticed>>, Up' <=> Up,
           Up => inflight' = inflight
    PROVE  UNCHANGED Promised!vars
<1>1. Ending' = Ending
  BY DEF Ending
<1> QED
  BY <1>1 DEF Promised!vars

\* A process that ends at once takes its requests with it.
LEMMA EndsAtOnce ==
    ASSUME RunOK, RunOK', Up, ~Up', noticed' = noticed
    PROVE  Promised!Next
<1>1. Ending # "gone" /\ Ending' = "gone"
  BY EndingOf DEF Ending
<1>2. Promised!Crash
  BY <1>1 DEF Promised!Crash
<1> QED
  BY <1>2 DEF Promised!Next

LEMMA StopRefines ==
    ASSUME TypeOK, TypeOK', StopOK, [Next]_vars
    PROVE  [Promised!Next]_(Promised!vars)
<1>0. RunOK /\ RunOK'
  BY TypeParts DEF TypeOK, RunOK
<1>1. CASE UNCHANGED vars \/ Edit \/ Reload
  <2>1. UNCHANGED <<stopper, noticed, inflight>> /\ (Up' <=> Up)
    BY <1>1 DEF vars, stopVars, Edit, Reload, TryDir, ReadFile, Publish,
                TakeHup, Up, Ended
  <2> QED
    BY <2>1, SameEnding
<1>2. CASE SendHup \/ SendTerm
  <2>1. Up /\ UNCHANGED <<stopper, noticed, inflight>>
    BY <1>2 DEF SendHup, SendTerm, stopVars
  <2>2. CASE Up'
    BY <2>1, <2>2, SameEnding
  <2>3. CASE ~Up'
    BY <1>0, <2>1, <2>3, EndsAtOnce
  <2> QED
    BY <2>2, <2>3
<1>3. CASE Stop
  <2>0. Up /\ Up' /\ inflight' = inflight
    BY <1>3 DEF Stop, Stopper, BeginAwait, TakeTerm, Notice, CloseStats,
                BeginDrain, Drained, GiveUp, Release, CloseDone, Up
  <2>1. CASE Notice
    <3>1. stopper = "notice" /\ stopper' = "stats" /\ noticed' = TRUE
      BY <2>1 DEF Notice, Stopper
    <3>2. Ending = "up" /\ Ending' = "close"
      BY <2>0, <3>1 DEF Ending
    <3> QED
      BY <2>0, <3>1, <3>2 DEF Promised!Next, Promised!Notice, Promised!Advance
  <2>2. CASE CloseStats
    <3>1. stopper = "stats" /\ stopper' = "drain" /\ noticed' = noticed
      BY <2>2 DEF CloseStats, Stopper
    <3>2. Ending = "close" /\ Ending' = "drain"
      BY <2>0, <3>1 DEF Ending
    <3> QED
      BY <2>0, <3>1, <3>2
         DEF Promised!Next, Promised!CloseStats, Promised!Advance
  <2>3. CASE BeginDrain
    <3>1. stopper = "drain" /\ stopper' = "wait" /\ noticed' = noticed
      BY <2>3 DEF BeginDrain, Stopper
    <3>2. Ending = "drain" /\ Ending' = "wait"
      BY <2>0, <3>1 DEF Ending
    <3> QED
      BY <2>0, <3>1, <3>2
         DEF Promised!Next, Promised!CloseListener, Promised!Advance
  <2>4. CASE BeginAwait \/ TakeTerm \/ Drained \/ GiveUp \/ Release \/ CloseDone
    <3>1. noticed' = noticed
      BY <2>4 DEF BeginAwait, TakeTerm, Drained, GiveUp, Release, CloseDone
    <3>2. Ending' = Ending
      BY <2>0, <2>4 DEF BeginAwait, TakeTerm, Drained, GiveUp, Release,
                        CloseDone, Stopper, Ending
    <3> QED
      BY <2>0, <3>1, <3>2 DEF Promised!vars
  <2> QED
    BY <1>3, <2>1, <2>2, <2>3, <2>4 DEF Stop
<1>4. CASE NotifyTerm
  <2>1. /\ Up /\ Up' /\ UNCHANGED <<noticed, inflight>>
        /\ stopper = "none" /\ stopper' = "spawned"
    BY <1>4 DEF NotifyTerm, StopOK, Up, Ended
  <2> QED
    BY <2>1 DEF Ending, Promised!vars
<1>5. CASE NotifyHup \/ Listen \/ ServerClosed
  <2>1. /\ Up /\ Up' /\ UNCHANGED <<stopper, noticed, inflight>>
    BY <1>5 DEF NotifyHup, Listen, ServerClosed, stopVars, Up, Ended
  <2> QED
    BY <2>1, SameEnding
<1>6. CASE Fatal
  BY <1>0, <1>6, EndsAtOnce DEF Fatal, stopVars, Up, Ended
<1>7. CASE Return
  <2>1. /\ Up /\ ~Up' /\ noticed' = noticed /\ stopper = "done"
    BY <1>7 DEF Return, Stopped, stopVars, Up, Ended
  <2>2. Ending = "wait" /\ Ending' = "gone"
    BY <2>1 DEF Ending
  <2> QED
    BY <2>1, <2>2 DEF Promised!Next, Promised!Exit, Promised!Advance
<1>8. ASSUME NEW r \in Requests, Accept(r) PROVE Promised!Next
  <2>1. /\ Up /\ Up' /\ UNCHANGED <<stopper, noticed>> /\ ~ShuttingDown
        /\ inflight' = inflight \cup {r}
    BY <1>8 DEF Accept, stopVars, Up, Ended
  <2>2. Ending \in {"up", "close", "drain"} /\ Ending' = Ending
    BY <1>0, <2>1, EndingOf DEF Ending
  <2>3. Promised!Accept(r)
    BY <2>1, <2>2 DEF Promised!Accept
  <2> QED
    BY <2>3 DEF Promised!Next
<1>9. ASSUME NEW r \in Requests, Finish(r) PROVE Promised!Next
  <2>1. /\ Up /\ Up' /\ UNCHANGED <<stopper, noticed>>
        /\ inflight' = inflight \ {r}
    BY <1>9 DEF Finish, stopVars, Up
  <2>2. Ending # "gone" /\ Ending' = Ending
    BY <1>0, <2>1, EndingOf DEF Ending
  <2>3. Promised!Finish(r)
    BY <2>1, <2>2 DEF Promised!Finish
  <2> QED
    BY <2>3 DEF Promised!Next
<1> QED
  BY <1>1, <1>2, <1>3, <1>4, <1>5, <1>6, <1>7, <1>8, <1>9 DEF Next, Main

\* For any number of requests, files, edits and signals, the process ends as
\* ProcessStop says.
THEOREM StopImplemented == Spec => ImplementsStop
<1>1. Init => Promised!Init
  BY DEF Init, Promised!Init, Ending, Up, Ended
<1>2. TypeOK /\ TypeOK' /\ StopOK /\ [Next]_vars
          => [Promised!Next]_(Promised!vars)
  BY StopRefines
<1> QED
  BY <1>1, <1>2, StopInvariant, TypeCorrect, PTL
     DEF Spec, ImplementsStop, Promised!Spec
=============================================================================
