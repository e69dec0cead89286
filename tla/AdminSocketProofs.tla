-------------------------- MODULE AdminSocketProofs --------------------------
(* Theorems about AdminSocket, for any number of instances and however many *)
(* of them start, stop and crash at the same time.                          *)
EXTENDS AdminSocket, TLAPS

\* AdminSocket's type invariant: types, and who has its socket open.
THEOREM TypeCorrect == Spec => []TypeOK
<1>1. Init => TypeOK
  <2> SUFFICES ASSUME Init PROVE TypeOK
    OBVIOUS
  <2>1. \A p \in Instances : sock[p] = None /\ pc[p] = "off"
    BY DEF Init
  <2>2. /\ file \in Inodes \cup {None, Plain} /\ locked \subseteq Inodes
        /\ sock \in [Instances -> Inodes \cup {None}]
        /\ id \in [Instances -> Inodes \cup {None, Plain}]
        /\ starts \in Nat /\ untidy \in BOOLEAN /\ together \in BOOLEAN
    BY DEF Init
  <2>3. /\ \A p \in Instances : pc[p] = "off" /\ outcome[p] = "none"
        /\ pc = [p \in Instances |-> pc[p]]
        /\ outcome = [p \in Instances |-> outcome[p]]
    BY DEF Init
  <2> QED
    BY <2>1, <2>2, <2>3 DEF TypeOK
<1>2. TypeOK /\ [Next]_vars => TypeOK'
  <2> SUFFICES ASSUME TypeOK, [Next]_vars PROVE TypeOK'
    OBVIOUS
  <2> USE SocketAssumption
  <2>1. CASE UNCHANGED vars
    BY <2>1 DEF vars, TypeOK
  <2>2. CASE PutFile
    BY <2>2 DEF PutFile, TypeOK
  <2>3. ASSUME NEW p \in Instances, Start(p) PROVE TypeOK'
    BY <2>3 DEF Start, Join, Goto, TypeOK
  <2>4. ASSUME NEW p \in Instances, Lstat(p) \/ Dial(p) \/ Clear(p)
        PROVE  TypeOK'
    BY <2>4 DEF Lstat, Dial, Clear, Cleared, Fail, Goto, TypeOK
  <2>5. ASSUME NEW p \in Instances, Bind(p) PROVE TypeOK'
    BY <2>5 DEF Bind, Unused, Fail, Goto, TypeOK
  <2>6. ASSUME NEW p \in Instances, Listen(p) \/ Ident(p) PROVE TypeOK'
    BY <2>6 DEF Listen, Ident, Closed, Fail, Goto, TypeOK
  <2>7. ASSUME NEW p \in Instances, Chmod(p) PROVE TypeOK'
    BY <2>7 DEF Chmod, Chmodded, Closed, Goto, TypeOK
  <2>8. ASSUME NEW p \in Instances,
               Shutdown(p) \/ Stat(p) \/ Unlink(p) \/ Crash(p)
        PROVE  TypeOK'
    BY <2>8 DEF Shutdown, Join, Stat, Unlink, Crash, Closed, Goto, TypeOK
  <2> QED
    BY <2>1, <2>2, <2>3, <2>4, <2>5, <2>6, <2>7, <2>8 DEF Next
<1> QED
  BY <1>1, <1>2, PTL DEF Spec

-----------------------------------------------------------------------------

\* Nothing but a bind takes an inode out of the locked ones, and that one is
\* nobody's socket.
LEMMA ModeIsKept ==
    ASSUME TypeOK, [Next]_vars, NEW p \in Instances, sock[p] \in locked,
           sock'[p] = sock[p]
    PROVE  sock[p] \in locked'
<1>1. CASE UNCHANGED vars \/ PutFile
  BY <1>1 DEF vars, PutFile
<1>2. ASSUME NEW q \in Instances, Bind(q) PROVE sock[p] \in locked'
  BY <1>2, SocketAssumption DEF Bind, Unused, TypeOK
<1>3. ASSUME NEW q \in Instances, Chmod(q) PROVE sock[p] \in locked'
  BY <1>3 DEF Chmod
<1>4. ASSUME NEW q \in Instances,
             \/ Start(q) \/ Lstat(q) \/ Dial(q) \/ Clear(q) \/ Listen(q)
             \/ Ident(q) \/ Shutdown(q) \/ Stat(q) \/ Unlink(q) \/ Crash(q)
      PROVE  sock[p] \in locked'
  BY <1>4 DEF Start, Lstat, Dial, Clear, Listen, Ident, Shutdown, Stat, Unlink,
              Crash
<1> QED
  BY <1>1, <1>2, <1>3, <1>4 DEF Next

\* An instance that serves and can be reached at the path admits its owner only,
\* although Chmod goes by the path and not by the socket.
THEOREM ReachableIsLocked == Spec => []ServedIsLocked
<1>1. Init => ServedIsLocked
  BY DEF Init, ServedIsLocked
<1>2. TypeOK /\ TypeOK' /\ ServedIsLocked /\ [Next]_vars => ServedIsLocked'
  <2> SUFFICES ASSUME TypeOK, TypeOK', ServedIsLocked, [Next]_vars,
                      NEW p \in Instances,
                      pc'[p] = "serving", file' = sock'[p]
               PROVE  file' \in locked'
    BY DEF ServedIsLocked
  <2> USE SocketAssumption
  <2>1. sock'[p] \in Inodes /\ file' \in Inodes
    BY DEF TypeOK
  <2>2. CASE pc[p] = "serving" /\ sock'[p] = sock[p] /\ file = file'
    BY <2>2, ModeIsKept DEF ServedIsLocked
  <2>3. CASE UNCHANGED vars \/ PutFile
    BY <2>1, <2>2, <2>3 DEF vars, PutFile
  <2>4. ASSUME NEW q \in Instances, Bind(q) PROVE file' \in locked'
    \* The file is q's new one, or there is none that p could serve.
    BY <2>1, <2>2, <2>4 DEF Bind, Unused, Fail, Goto, TypeOK
  <2>5. ASSUME NEW q \in Instances, Chmod(q) PROVE file' \in locked'
    BY <2>1, <2>2, <2>5 DEF Chmod, Chmodded, Closed, Goto, TypeOK
  <2>6. ASSUME NEW q \in Instances, Clear(q) \/ Unlink(q)
        PROVE  file' \in locked'
    BY <2>1, <2>2, <2>6 DEF Clear, Cleared, Unlink, Fail, Goto, TypeOK
  <2>7. ASSUME NEW q \in Instances,
               Start(q) \/ Lstat(q) \/ Dial(q) \/ Listen(q) \/ Ident(q)
        PROVE  file' \in locked'
    BY <2>1, <2>2, <2>7 DEF Start, Lstat, Dial, Listen, Ident, Closed, Fail,
                            Goto, TypeOK
  <2>8. ASSUME NEW q \in Instances, Shutdown(q) \/ Stat(q) \/ Crash(q)
        PROVE  file' \in locked'
    BY <2>1, <2>2, <2>8 DEF Shutdown, Stat, Crash, Closed, Goto, TypeOK
  <2> QED
    BY <2>3, <2>4, <2>5, <2>6, <2>7, <2>8 DEF Next
<1> QED
  BY <1>1, <1>2, TypeCorrect, PTL DEF Spec

-----------------------------------------------------------------------------

\* Who answers for the socket at the path: who bound it and has not asked for
\* its identity yet, and who took it for the file of its own listener.
Answers(p) ==
    \/ pc[p] \in {"listen", "ident"} /\ file = sock[p]
    \/ pc[p] \in {"chmod", "serving", "stat", "unlink"} /\ file = id[p]

OwnerKnown == file \in Inodes => untidy \/ \E p \in Instances : Answers(p)

\* Instances that stop in an orderly way leave no socket behind, however many of
\* them start and stop at once and whichever error a start ended with.
THEOREM StopsAreTidy == Spec => []NothingLeftBehind
<1>1. Init => OwnerKnown
  BY SocketAssumption DEF Init, OwnerKnown
<1>2. TypeOK /\ OwnerKnown /\ [Next]_vars => OwnerKnown'
  <2> SUFFICES ASSUME TypeOK, OwnerKnown, [Next]_vars,
                      file' \in Inodes, ~untidy'
               PROVE  \E p \in Instances : Answers(p)'
    BY DEF OwnerKnown
  <2> USE SocketAssumption
  <2>1. CASE UNCHANGED vars \/ PutFile
    BY <2>1 DEF vars, PutFile, OwnerKnown, Answers
  <2>2. ASSUME NEW q \in Instances, Bind(q), file = None
        PROVE  Answers(q)'
    BY <2>2 DEF Bind, Goto, Answers, TypeOK
  <2>3. ASSUME NEW q \in Instances, Clear(q) \/ Unlink(q), file' # file
        PROVE  FALSE
    BY <2>3 DEF Clear, Cleared, Unlink
  <2>4. ASSUME NEW q \in Instances, file' = file, untidy' = untidy,
               \/ Start(q) \/ Lstat(q) \/ Dial(q) \/ Clear(q) \/ Bind(q)
               \/ Listen(q) \/ Ident(q) \/ Chmod(q)
               \/ Shutdown(q) \/ Stat(q) \/ Unlink(q)
        PROVE  \E p \in Instances : Answers(p)'
    <3>1. PICK p \in Instances : Answers(p)
      BY <2>4 DEF OwnerKnown
    <3>2. CASE p # q
      <4>1. pc'[p] = pc[p] /\ sock'[p] = sock[p] /\ id'[p] = id[p]
        BY <2>4, <3>2
        DEF Start, Lstat, Dial, Clear, Bind, Listen, Ident, Chmod, Shutdown,
            Stat, Unlink, Closed, Fail, Goto, TypeOK
      <4> QED
        BY <2>4, <3>1, <4>1 DEF Answers
    <3>3. CASE p = q
      <4>1. Answers(q)'
        BY <2>4, <3>1, <3>3
        DEF Answers, Start, Lstat, Dial, Clear, Cleared, Bind, Listen, Ident,
            Chmod, Shutdown, Stat, Ours, Unlink, Closed, Fail, Goto, TypeOK
      <4> QED
        BY <4>1
    <3> QED
      BY <3>2, <3>3
  <2>5. ASSUME NEW q \in Instances, Crash(q) PROVE FALSE
    BY <2>5 DEF Crash
  <2>6. ASSUME NEW q \in Instances, Ident(q), untidy' # untidy PROVE FALSE
    BY <2>6 DEF Ident, TypeOK
  <2> QED
    BY <2>1, <2>2, <2>3, <2>4, <2>5, <2>6
    DEF Next, Start, Lstat, Dial, Clear, Bind, Listen, Ident, Chmod, Shutdown,
        Stat, Unlink
<1>3. OwnerKnown => NothingLeftBehind
  BY DEF OwnerKnown, Answers, NothingLeftBehind
<1> QED
  BY <1>1, <1>2, <1>3, TypeCorrect, PTL DEF Spec

-----------------------------------------------------------------------------
(* Until two instances start or stop at the same time: what the comments in  *)
(* admin.go promise holds of instances that take turns, and admin_detached    *)
(* and admin_vanished show that it does not hold beyond.                      *)

\* Alone, an instance knows what the path refers to at each of its steps, and
\* once it has found the path free or stale nobody is serving on it.
PlaceOK(p) ==
    /\ pc[p] \in {"dial", "clear"} => file \in Inodes
    /\ pc[p] = "bind" => file \in {None, Plain}
    /\ pc[p] \in {"listen", "ident", "chmod", "serving"} => file = sock[p]
    /\ pc[p] \in {"chmod", "serving", "stat", "unlink"}
          => file = id[p] /\ file \in Inodes
    /\ pc[p] \notin {"off", "lstat", "dial"} =>
          \A q \in Instances \ {p} : pc[q] # "serving"

AloneInv ==
    /\ \A p, q \in Busy : p = q
    /\ \A p \in Instances : PlaceOK(p)

\* One that starts or stops meets nobody, or the two are together from then on.
LEMMA AloneStep ==
    ASSUME TypeOK, TypeOK', ~together', AloneInv, [Next]_vars
    PROVE  AloneInv'
<1> USE SocketAssumption
<1>1. CASE UNCHANGED vars
  BY <1>1 DEF vars, AloneInv, PlaceOK, Busy
<1>2. CASE PutFile
  BY <1>2 DEF PutFile, AloneInv, PlaceOK, Busy, TypeOK
<1>3. ASSUME NEW p \in Instances, Start(p) \/ Shutdown(p) PROVE AloneInv'
  <2>1. \A q \in Instances : pc[q] \in {"off", "serving"}
    BY <1>3 DEF Start, Shutdown, Join, Busy
  <2> QED
    BY <1>3, <2>1 DEF Start, Shutdown, Closed, Goto, AloneInv, PlaceOK, Busy,
                      TypeOK
<1>4. ASSUME NEW p \in Instances, pc[p] \notin {"off", "serving"},
             \/ Lstat(p) \/ Dial(p) \/ Clear(p) \/ Bind(p) \/ Listen(p)
             \/ Ident(p) \/ Chmod(p) \/ Stat(p) \/ Unlink(p)
      PROVE  AloneInv'
  <2>1. \A q \in Instances \ {p} : pc[q] \in {"off", "serving"}
    BY <1>4 DEF AloneInv, Busy
  <2> USE <2>1 DEF Goto, Fail, AloneInv, PlaceOK, Busy, TypeOK
  <2>2. CASE Lstat(p)
    BY <1>4, <2>2 DEF Lstat, IsSocket
  <2>3. CASE Dial(p)
    BY <1>4, <2>3 DEF Dial, Answered, Listening
  <2>4. CASE Clear(p)
    BY <1>4, <2>4 DEF Clear, Cleared
  <2>5. CASE Bind(p)
    BY <1>4, <2>5 DEF Bind, Unused
  <2>6. CASE Listen(p)
    BY <1>4, <2>6 DEF Listen
  <2>7. CASE Ident(p)
    BY <1>4, <2>7 DEF Ident, Closed
  <2>8. CASE Chmod(p)
    BY <1>4, <2>8 DEF Chmod, Closed
  <2>9. CASE Stat(p) \/ Unlink(p)
    BY <1>4, <2>9 DEF Stat, Ours, Unlink
  <2> QED
    BY <1>4, <2>2, <2>3, <2>4, <2>5, <2>6, <2>7, <2>8, <2>9
<1>5. ASSUME NEW p \in Instances, Crash(p) PROVE AloneInv'
  BY <1>5 DEF Crash, Goto, AloneInv, PlaceOK, Busy, TypeOK
<1>6. ASSUME NEW p \in Instances,
             \/ Lstat(p) \/ Dial(p) \/ Clear(p) \/ Bind(p) \/ Listen(p)
             \/ Ident(p) \/ Chmod(p) \/ Stat(p) \/ Unlink(p)
      PROVE  pc[p] \notin {"off", "serving"}
  BY <1>6 DEF Lstat, Dial, Clear, Bind, Listen, Ident, Chmod, Stat, Unlink
<1> QED
  BY <1>1, <1>2, <1>3, <1>4, <1>5, <1>6 DEF Next

\* Those who have been together stay so.
LEMMA TogetherStays == TypeOK /\ [Next]_vars => (~together' => ~together)
BY DEF Next, vars, PutFile, Start, Join, Lstat, Dial, Clear, Bind, Listen,
       Ident, Chmod, Shutdown, Stat, Unlink, Crash, TypeOK

LEMMA AloneAlways == Spec => [](TypeOK /\ (~together => AloneInv))
<1>1. Init => (~together => AloneInv)
  BY SocketAssumption DEF Init, AloneInv, PlaceOK, Busy
<1>2. TypeOK /\ TypeOK' /\ (~together => AloneInv) /\ [Next]_vars
          => (~together => AloneInv)'
  BY TogetherStays, AloneStep
<1> QED
  BY <1>1, <1>2, TypeCorrect, PTL DEF Spec

\* A running instance can be reached at the path as long as it runs, whoever
\* starts, stops or crashes after it, until two do at the same time.
THEOREM AloneIsReachable == Spec => []ReachableAlone
<1>1. (~together => AloneInv) => ReachableAlone
  BY DEF AloneInv, PlaceOK, ReachableAlone, ServingReachable
<1> QED
  BY <1>1, AloneAlways, PTL

\* A file that is no socket is kept, whatever the path was mistaken for.
THEOREM AloneIsCareful == Spec => PlainFileKept
<1>1. TypeOK /\ (~together => AloneInv) /\ [Next]_vars
          => [~together /\ file = Plain => file' = Plain]_vars
  <2> SUFFICES ASSUME TypeOK, AloneInv, Next, file = Plain, file' # file
               PROVE  FALSE
    OBVIOUS
  <2> QED
    BY SocketAssumption
    DEF Next, AloneInv, PlaceOK, PutFile, Start, Lstat, Dial, Clear, Bind,
        Listen, Ident, Chmod, Shutdown, Stat, Unlink, Crash
<1> QED
  BY <1>1, AloneAlways, PTL DEF Spec, PlainFileKept

\* What a crashed instance left behind keeps no later one from its path.
THEOREM AloneIsUnblocked == Spec => StaleNeverBlocks
<1>1. TypeOK /\ (~together => AloneInv) /\ [Next]_vars
          => [\A p \in Instances :
                 ~together /\ outcome'[p] = "inuse" /\ outcome[p] # "inuse"
                     => file = Plain]_vars
  <2> SUFFICES ASSUME TypeOK, AloneInv, Next, NEW p \in Instances,
                      outcome'[p] = "inuse", outcome[p] # "inuse"
               PROVE  file = Plain
    OBVIOUS
  <2>1. CASE Bind(p)
    BY <2>1 DEF Bind, Fail, AloneInv, PlaceOK, TypeOK
  <2>2. ASSUME NEW q \in Instances, q # p, Bind(q) PROVE FALSE
    BY <2>2 DEF Bind, Fail, TypeOK
  <2>3. ASSUME NEW q \in Instances,
               \/ Start(q) \/ Lstat(q) \/ Dial(q) \/ Clear(q) \/ Listen(q)
               \/ Ident(q) \/ Chmod(q)
        PROVE  FALSE
    BY <2>3 DEF Start, Lstat, Dial, Clear, Listen, Ident, Chmod, Fail, TypeOK
  <2>4. ASSUME NEW q \in Instances,
               PutFile \/ Shutdown(q) \/ Stat(q) \/ Unlink(q) \/ Crash(q)
        PROVE  FALSE
    BY <2>4 DEF PutFile, Shutdown, Stat, Unlink, Crash
  <2> QED
    BY <2>1, <2>2, <2>3, <2>4 DEF Next
<1> QED
  BY <1>1, AloneAlways, PTL DEF Spec, StaleNeverBlocks

\* The file a start has looked at is still there when it goes to clear it: the
\* error of a start that met another one is a matter of the overlap alone.
THEOREM AloneNeverVanishes == Spec => [](~together => VanishedIsFree)
<1>1. Init => VanishedIsFree
  BY DEF Init, VanishedIsFree
<1>2. ASSUME TypeOK, AloneInv, VanishedIsFree, [Next]_vars
      PROVE  VanishedIsFree'
  <2>1. CASE UNCHANGED outcome
    BY <1>2, <2>1 DEF VanishedIsFree
  <2>2. ASSUME NEW p \in Instances, Clear(p) PROVE VanishedIsFree'
    BY <1>2, <2>2, SocketAssumption DEF Clear, AloneInv, PlaceOK, VanishedIsFree
  <2>3. ASSUME NEW p \in Instances,
               Start(p) \/ Lstat(p) \/ Dial(p) \/ Bind(p) \/ Ident(p) \/ Chmod(p)
        PROVE  VanishedIsFree'
    BY <1>2, <2>3 DEF Start, Lstat, Dial, Bind, Ident, Chmod, Fail,
                      VanishedIsFree, TypeOK
  <2> QED
    BY <1>2, <2>1, <2>2, <2>3
    DEF Next, vars, PutFile, Listen, Shutdown, Stat, Unlink, Crash
<1>3. TypeOK /\ (~together => AloneInv) /\ (~together => VanishedIsFree)
          /\ [Next]_vars => (~together => VanishedIsFree)'
  BY <1>2, TogetherStays
<1> QED
  BY <1>1, <1>3, AloneAlways, PTL DEF Spec
=============================================================================
