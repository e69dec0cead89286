--------------------------- MODULE SecretStoreProofs ---------------------------
(***************************************************************************)
(* What TLAPS proves of SecretStore, for every number of goroutines, ids   *)
(* and entries.  The inductive invariant comes in layers, each proved with *)
(* the help of those before it: the types and the shape of a call's        *)
(* locals, the mutex, then the data the mutex protects.                    *)
(***************************************************************************)
EXTENDS SecretStore, FiniteSetTheorems, TLAPS

\* The entry AddEntry has put together before it takes the mutex.
Prepared(e) ==
    e \in Entry /\ e.clicks = 0 /\ e.max \in Budgets /\ e.valid \in Validities

\* What a call's locals hold at each of its steps.
CallOK ==
    /\ op[Sweeper] \in {"none", "sweep"}
    /\ \A i \in DOMAIN entries : entries[i].valid \in Validities
    /\ \A p \in Threads :
          /\ op[p] = "add" /\ pc[p] \in {"lock", "drain", "crit", "write"} =>
                Prepared(arg[p])
          /\ op[p] = "add" /\ pc[p] \in {"lock", "drain", "crit"} =>
                tgt[p] \in CallerIds \cup {None}
          /\ op[p] = "claim" => tgt[p] \in Ids
          /\ pc[p] = "write" =>
                /\ op[p] \in {"add", "claim"}
                /\ tgt[p] \in Ids
                /\ arg[p] \in Entry /\ arg[p].valid \in Validities
          /\ pc[p] = "list" => report[p] \in Report

ShapeOK == TypeOK /\ CallOK

LEMMA CapacityPositive == Capacity \in Nat \ {0}
  BY StoreAssumption DEF Capacity

LEMMA SizeOfEntries ==
  ASSUME TypeOK
  PROVE  IsFiniteSet(DOMAIN entries) /\ Cardinality(DOMAIN entries) \in Nat
  BY StoreAssumption, FS_Subset, FS_CardinalityType DEF TypeOK

\* TypeOK of the specification: types and locals are as the module says.
LEMMA ShapeInit == Init => ShapeOK
  BY StoreAssumption DEF Init, ShapeOK, TypeOK, CallOK, Threads, Entry, Report

LEMMA ShapeStep == ShapeOK /\ [Next]_vars => ShapeOK'
  <1> SUFFICES ASSUME TypeOK, CallOK, [Next]_vars
               PROVE  TypeOK' /\ CallOK'
    BY DEF ShapeOK
  <1> USE StoreAssumption
  <1>1. CASE Tick
    BY <1>1 DEF Tick, TypeOK, CallOK, Prepared, storeVars, lockVars, callVars,
                sweepVars, historyVars
  <1>2. CASE UNCHANGED vars
    BY <1>2 DEF vars, TypeOK, CallOK, Prepared, storeVars, lockVars, callVars,
                sweepVars, historyVars
  <1>3. ASSUME NEW p \in Goroutines, NEW bytes \in SecretLens,
               RejectAdd(p, bytes)
        PROVE  TypeOK' /\ CallOK'
    BY <1>3 DEF RejectAdd, Call, Goto, TypeOK, CallOK, Prepared, Threads,
                storeVars, lockVars, sweepVars, historyVars
  <1>4. ASSUME NEW p \in Goroutines, NEW bytes \in SecretLens,
               NEW clicks \in ClickArgs, NEW days \in DayArgs,
               NEW i \in CallerIds \cup {None},
               BeginAdd(p, bytes, clicks, days, i)
        PROVE  TypeOK' /\ CallOK'
    BY <1>4 DEF BeginAdd, Call, Goto, TypeOK, CallOK, Prepared, Threads,
                storeVars, lockVars, sweepVars, historyVars, Unacceptable,
                ClicksGranted, DaysGranted, Budgets, Validities, Entry,
                defaultMaxClicks
  <1>5. ASSUME NEW p \in Goroutines, NEW i \in Ids,
               BeginClaim(p, i) \/ BeginGet(p, i)
        PROVE  TypeOK' /\ CallOK'
    BY <1>5 DEF BeginClaim, BeginGet, Call, Goto, TypeOK, CallOK, Prepared,
                Threads, storeVars, lockVars, sweepVars, historyVars
  <1>6. ASSUME NEW p \in Goroutines, BeginStats(p)
        PROVE  TypeOK' /\ CallOK'
    BY <1>6 DEF BeginStats, Call, Goto, TypeOK, CallOK, Prepared,
                Threads, storeVars, lockVars, sweepVars, historyVars
  <1>7. CASE BeginSweep
    BY <1>7 DEF BeginSweep, TimeOfSweep, Call, Goto, TypeOK, CallOK, Prepared,
                Threads, storeVars, lockVars, sweepVars, historyVars
  <1>8. ASSUME NEW p \in Threads, Lock(p) \/ Enter(p) \/ RLock(p) \/ RUnlock(p)
        PROVE  TypeOK' /\ CallOK'
    BY <1>8 DEF Lock, Enter, RLock, RUnlock, Goto, TypeOK, CallOK, Prepared,
                Threads, storeVars, lockVars, sweepVars, historyVars
  <1>9. ASSUME NEW p \in Threads, Unlock(p)
        PROVE  TypeOK' /\ CallOK'
    BY <1>9 DEF Unlock, Awaiting, TypeOK, CallOK, Prepared,
                Threads, storeVars, lockVars, sweepVars, historyVars
  <1>10. ASSUME NEW p \in Threads, NEW i \in Ids, AddReserve(p, i)
         PROVE  TypeOK' /\ CallOK'
    BY <1>10 DEF AddReserve, Answer, Goto, TypeOK, CallOK, Prepared,
                 Threads, storeVars, lockVars, sweepVars, historyVars
  <1>11. ASSUME NEW p \in Threads, AddNoId(p)
         PROVE  TypeOK' /\ CallOK'
    BY <1>11 DEF AddNoId, Answer, Goto, TypeOK, CallOK, Prepared,
                 Threads, storeVars, lockVars, sweepVars, historyVars
  <1>12. ASSUME NEW p \in Threads, AddInsert(p)
         PROVE  TypeOK' /\ CallOK'
    BY <1>12 DEF AddInsert, With, Answer, Goto, TypeOK, CallOK, Prepared,
                 Threads, lockVars, sweepVars, Entry
  <1>13. ASSUME NEW p \in Threads, ClaimLookup(p)
         PROVE  TypeOK' /\ CallOK'
    BY <1>13 DEF ClaimLookup, Answer, Goto, TypeOK, CallOK, Prepared,
                 Threads, storeVars, lockVars, sweepVars, historyVars, Entry
  <1>14. ASSUME NEW p \in Threads, ClaimCount(p)
         PROVE  TypeOK' /\ CallOK'
    BY <1>14 DEF ClaimCount, ClaimTotal, With, Without, Answer, Goto, TypeOK, CallOK,
                 Prepared, Threads, lockVars, sweepVars
  <1>15. ASSUME NEW p \in Threads, GetRead(p)
         PROVE  TypeOK' /\ CallOK'
    BY <1>15 DEF GetRead, Answer, Goto, TypeOK, CallOK, Prepared,
                 Threads, storeVars, lockVars, sweepVars, historyVars
  <1>16. ASSUME NEW p \in Threads, StatsCount(p) \/ StatsList(p)
         PROVE  TypeOK' /\ CallOK'
    BY <1>16, SizeOfEntries
       DEF StatsCount, StatsList, Answer, Goto, TypeOK, CallOK, Prepared,
           Threads, storeVars, lockVars, sweepVars, historyVars, Report
  <1>17. ASSUME NEW i \in Ids, SweepDelete(i)
         PROVE  TypeOK' /\ CallOK'
    BY <1>17 DEF SweepDelete, Without, TypeOK, CallOK, Prepared,
                 Threads, lockVars, callVars, historyVars
  <1>18. CASE SweepEnd
    BY <1>18 DEF SweepEnd, SweepTotal, Goto, TypeOK, CallOK, Prepared,
                 Threads, lockVars, historyVars
  <1>. QED
    BY <1>1, <1>2, <1>3, <1>4, <1>5, <1>6, <1>7, <1>8, <1>9, <1>10, <1>11,
       <1>12, <1>13, <1>14, <1>15, <1>16, <1>17, <1>18
       DEF Next, Request, Proceed, SweepStep

LEMMA ShapeAlways == Spec => []ShapeOK
  BY ShapeInit, ShapeStep, PTL DEF Spec

\* Every state of the store has the types TypeOK gives it.
THEOREM TypeCorrect == Spec => []TypeOK
  BY ShapeAlways, PTL DEF ShapeOK

-----------------------------------------------------------------------------
(* The mutex *)

Announced(p) == pc[p] \in {"drain", "crit", "write", "unlock"}
Inside(p) == pc[p] \in {"crit", "write", "unlock"}

\* Whoever is past Lock's first half is the announced writer; a writer inside
\* has waited for all readers; a goroutine between RLock and RUnlock is
\* registered as a reader.
LockOK ==
    \A p \in Threads :
        /\ Announced(p) => writer = p
        /\ Inside(p) => readers = {}
        /\ pc[p] \in {"read", "list", "runlock"} => p \in readers

LEMMA LockInit == Init => LockOK
  BY DEF Init, LockOK, Announced, Inside

\* Steps that take or release the mutex; any other step of a call stays on
\* the side of the mutex it is on.
LEMMA LockStep == ShapeOK /\ LockOK /\ [Next]_vars => LockOK'
  <1> SUFFICES ASSUME TypeOK, LockOK, [Next]_vars PROVE LockOK'
    BY DEF ShapeOK
  <1> USE StoreAssumption DEF LockOK, Announced, Inside, TypeOK, Threads
  <1>1. CASE Tick \/ UNCHANGED vars
    BY <1>1 DEF Tick, vars, lockVars, callVars
  <1>2. ASSUME NEW p \in Goroutines, Request(p)
        PROVE  LockOK'
    <2>1. lockVars' = lockVars
          /\ \E label \in {"idle", "lock", "rlock"} :
                pc[p] = "idle" /\ Goto(p, label)
      BY <1>2 DEF Request, RejectAdd, BeginAdd, BeginClaim, BeginGet,
                  BeginStats, Call
    <2>. QED
      BY <2>1 DEF Goto, lockVars
  <1>3. CASE BeginSweep
    BY <1>3 DEF BeginSweep, Call, Goto, lockVars
  <1>4. ASSUME NEW p \in Threads, Lock(p)
        PROVE  LockOK'
    BY <1>4 DEF Lock, LockFree, Goto
  <1>5. ASSUME NEW p \in Threads, Enter(p)
        PROVE  LockOK'
    BY <1>5 DEF Enter, Drained, Goto, lockVars
  <1>6. ASSUME NEW p \in Threads, Unlock(p)
        PROVE  LockOK'
    BY <1>6 DEF Unlock, Awaiting
  <1>7. ASSUME NEW p \in Threads, RLock(p)
        PROVE  LockOK'
    BY <1>7 DEF RLock, Goto
  <1>8. ASSUME NEW p \in Threads, RUnlock(p)
        PROVE  LockOK'
    BY <1>8 DEF RUnlock, Goto
  <1>9. ASSUME NEW p \in Threads,
               \/ \E i \in Ids : AddReserve(p, i)
               \/ AddNoId(p) \/ AddInsert(p) \/ ClaimLookup(p) \/ ClaimCount(p)
        PROVE  LockOK'
    <2>1. lockVars' = lockVars /\ pc[p] \in {"crit", "write"}
          /\ \E label \in {"write", "unlock"} : Goto(p, label)
      BY <1>9 DEF AddReserve, AddNoId, AddInsert, ClaimLookup, ClaimCount
    <2>. QED
      BY <2>1 DEF Goto, lockVars
  <1>10. ASSUME NEW p \in Threads, GetRead(p) \/ StatsCount(p) \/ StatsList(p)
         PROVE  LockOK'
    <2>1. lockVars' = lockVars /\ pc[p] \in {"read", "list"}
          /\ \E label \in {"list", "runlock"} : Goto(p, label)
      BY <1>10 DEF GetRead, StatsCount, StatsList
    <2>. QED
      BY <2>1 DEF Goto, lockVars
  <1>11. CASE SweepStep
    BY <1>11 DEF SweepStep, SweepDelete, SweepEnd, Goto, lockVars, callVars
  <1>. QED
    BY <1>1, <1>2, <1>3, <1>4, <1>5, <1>6, <1>7, <1>8, <1>9, <1>10, <1>11
       DEF Next, Proceed

LEMMA LockAlways == Spec => []LockOK
  BY LockInit, LockStep, ShapeAlways, PTL DEF Spec

LEMMA LockExcludes == LockOK => NoConcurrentMapAccess
  BY DEF LockOK, NoConcurrentMapAccess, Writing, Reading, Announced, Inside

\* sync.RWMutex as the methods use it keeps the map free of data races.
THEOREM MutualExclusion == Spec => []NoConcurrentMapAccess
  BY LockAlways, LockExcludes, PTL

\* The converse: who is registered is on the way to its release, and nobody is
\* parked unless a writer is there to let it in.
WaitOK ==
    \A p \in Threads :
        /\ p \in readers => pc[p] \in {"read", "list", "runlock"}
        /\ writer = p => Announced(p)
        /\ pc[p] = "parked" => writer # None

LEMMA WaitInit == Init => WaitOK
  BY StoreAssumption DEF Init, WaitOK

LEMMA WaitStep == ShapeOK /\ LockOK /\ WaitOK /\ [Next]_vars => WaitOK'
  <1> SUFFICES ASSUME TypeOK, LockOK, WaitOK, [Next]_vars PROVE WaitOK'
    BY DEF ShapeOK
  <1> USE StoreAssumption DEF LockOK, WaitOK, Announced, TypeOK, Threads
  <1>1. CASE Tick \/ UNCHANGED vars
    BY <1>1 DEF Tick, vars, lockVars, callVars
  <1>2. ASSUME NEW p \in Goroutines, Request(p)
        PROVE  WaitOK'
    <2>1. lockVars' = lockVars
          /\ \E label \in {"idle", "lock", "rlock"} :
                pc[p] = "idle" /\ Goto(p, label)
      BY <1>2 DEF Request, RejectAdd, BeginAdd, BeginClaim, BeginGet,
                  BeginStats, Call
    <2>. QED
      BY <2>1 DEF Goto, lockVars
  <1>3. CASE BeginSweep
    BY <1>3 DEF BeginSweep, Call, Goto, lockVars
  <1>4. ASSUME NEW p \in Threads, Lock(p) \/ Enter(p)
        PROVE  WaitOK'
    BY <1>4 DEF Lock, LockFree, Enter, Goto, lockVars
  <1>5. ASSUME NEW p \in Threads, Unlock(p)
        PROVE  WaitOK'
    BY <1>5 DEF Unlock, Awaiting
  <1>6. ASSUME NEW p \in Threads, RLock(p) \/ RUnlock(p)
        PROVE  WaitOK'
    BY <1>6 DEF RLock, RUnlock, Goto
  <1>7. ASSUME NEW p \in Threads,
               \/ \E i \in Ids : AddReserve(p, i)
               \/ AddNoId(p) \/ AddInsert(p) \/ ClaimLookup(p) \/ ClaimCount(p)
        PROVE  WaitOK'
    <2>1. lockVars' = lockVars /\ pc[p] \in {"crit", "write"}
          /\ \E label \in {"write", "unlock"} : Goto(p, label)
      BY <1>7 DEF AddReserve, AddNoId, AddInsert, ClaimLookup, ClaimCount
    <2>. QED
      BY <2>1 DEF Goto, lockVars
  <1>8. ASSUME NEW p \in Threads, GetRead(p) \/ StatsCount(p) \/ StatsList(p)
        PROVE  WaitOK'
    <2>1. lockVars' = lockVars /\ pc[p] \in {"read", "list"}
          /\ \E label \in {"list", "runlock"} : Goto(p, label)
      BY <1>8 DEF GetRead, StatsCount, StatsList
    <2>. QED
      BY <2>1 DEF Goto, lockVars
  <1>9. CASE SweepStep
    BY <1>9 DEF SweepStep, SweepDelete, SweepEnd, Goto, lockVars, callVars
  <1>. QED
    BY <1>1, <1>2, <1>3, <1>4, <1>5, <1>6, <1>7, <1>8, <1>9 DEF Next, Proceed

\* However many goroutines queue for the mutex, whoever waits waits for somebody
\* who goes on: there is no deadlock among the store's methods and no reader
\* that nobody wakes.
THEOREM NoDeadlock == Spec => []WaitsEnd
  <1>1. TypeOK /\ LockOK /\ WaitOK => WaitsEnd
    BY StoreAssumption
       DEF TypeOK, LockOK, WaitOK, WaitsEnd, WaitsFor, Holds, Writing, Reading,
           Announced, Inside, Threads
  <1>. QED
    BY <1>1, WaitInit, WaitStep, ShapeAlways, LockAlways, PTL DEF Spec, ShapeOK

-----------------------------------------------------------------------------
(* The entries *)

\* What AddEntry and Claim have established by the time they write: the room
\* for a new entry is still there, and the local copy is still the entry's,
\* one click later.
AboutToWrite(p) ==
    /\ op[p] = "add" =>
          /\ tgt[p] \notin DOMAIN entries =>
                Cardinality(DOMAIN entries) < Capacity
          /\ tgt[p] \notin CallerIds => budget[tgt[p]] = 0
    /\ op[p] = "claim" =>
          /\ tgt[p] \in DOMAIN entries
          /\ arg[p].clicks = entries[tgt[p]].clicks + 1
          /\ arg[p].max = entries[tgt[p]].max
          /\ arg[p].valid = entries[tgt[p]].valid

WritesOK == \A p \in Threads : pc[p] = "write" => AboutToWrite(p)

DataOK == ViewsWithinBudget /\ CapacityHeld /\ WritesOK

LEMMA DataInit == Init => DataOK
  <1> SUFFICES ASSUME Init PROVE DataOK
    OBVIOUS
  <1>1. DOMAIN entries = {}
    BY DEF Init
  <1>2. Cardinality(DOMAIN entries) = 0
    BY <1>1, FS_EmptySet
  <1>. QED
    BY <1>1, <1>2, CapacityPositive
       DEF Init, DataOK, ViewsWithinBudget, CapacityHeld, WritesOK

\* Only the writer is about to write.
LEMMA OneWriter ==
  ASSUME LockOK, NEW p \in Threads, Announced(p),
         NEW q \in Threads, pc[q] = "write"
  PROVE  p = q
  BY DEF LockOK, Announced

\* Adding or deleting an entry moves the size by one.
LEMMA SizeWith ==
  ASSUME TypeOK, NEW i \in Ids, NEW e \in Entry
  PROVE  /\ DOMAIN With(entries, i, e) = DOMAIN entries \cup {i}
         /\ With(entries, i, e)[i] = e
         /\ \A j \in DOMAIN entries \ {i} : With(entries, i, e)[j] = entries[j]
         /\ Cardinality(DOMAIN With(entries, i, e)) =
               IF i \in DOMAIN entries THEN Cardinality(DOMAIN entries)
               ELSE Cardinality(DOMAIN entries) + 1
  <1>1. DOMAIN With(entries, i, e) = DOMAIN entries \cup {i}
    BY DEF With
  <1>2. Cardinality(DOMAIN entries \cup {i}) =
           IF i \in DOMAIN entries THEN Cardinality(DOMAIN entries)
           ELSE Cardinality(DOMAIN entries) + 1
    BY SizeOfEntries, FS_AddElement
  <1>. QED
    BY <1>1, <1>2 DEF With

LEMMA SizeWithout ==
  ASSUME TypeOK, NEW i \in DOMAIN entries
  PROVE  /\ DOMAIN Without(entries, i) = DOMAIN entries \ {i}
         /\ \A j \in DOMAIN entries \ {i} : Without(entries, i)[j] = entries[j]
         /\ Cardinality(DOMAIN Without(entries, i)) =
               Cardinality(DOMAIN entries) - 1
  <1>1. DOMAIN Without(entries, i) = DOMAIN entries \ {i}
    BY DEF Without
  <1>2. Cardinality(DOMAIN entries \ {i}) = Cardinality(DOMAIN entries) - 1
    BY SizeOfEntries, FS_RemoveElement
  <1>. QED
    BY <1>1, <1>2 DEF Without

\* A step that leaves the entries alone and brings nobody to a write.
LEMMA DataFrame ==
  ASSUME DataOK, UNCHANGED <<entries, budget, views>>,
         \A q \in Threads : pc'[q] = "write" =>
            pc[q] = "write" /\ UNCHANGED <<op[q], tgt[q], arg[q]>>
  PROVE  DataOK'
  BY DEF DataOK, ViewsWithinBudget, CapacityHeld, WritesOK, AboutToWrite

LEMMA DataStep == ShapeOK /\ LockOK /\ DataOK /\ [Next]_vars => DataOK'
  <1> SUFFICES ASSUME ShapeOK, LockOK, DataOK, [Next]_vars PROVE DataOK'
    OBVIOUS
  <1> USE StoreAssumption, CapacityPositive
  <1>. TypeOK /\ CallOK
    BY DEF ShapeOK
  <1>1. CASE Tick \/ UNCHANGED vars
    BY <1>1, DataFrame DEF Tick, vars, storeVars, callVars, historyVars
  <1>2. ASSUME NEW p \in Threads,
               \/ p \in Goroutines /\ Request(p)
               \/ p = Sweeper /\ BeginSweep
        PROVE  DataOK'
    <2>1. /\ UNCHANGED <<entries, budget, views>>
          /\ \E name, i, local, how :
                \E label \in {"idle", "lock", "rlock"} :
                    Call(p, name, i, local, how, label)
      BY <1>2 DEF Request, RejectAdd, BeginAdd, BeginClaim, BeginGet,
                  BeginStats, BeginSweep, storeVars, historyVars
    <2>. QED
      BY <2>1, DataFrame DEF Call, Goto, TypeOK
  <1>3. ASSUME NEW p \in Threads,
               Lock(p) \/ Enter(p) \/ Unlock(p) \/ RLock(p) \/ RUnlock(p)
        PROVE  DataOK'
    <2>1. UNCHANGED <<entries, budget, views, op, tgt, arg>>
      BY <1>3 DEF Lock, Enter, Unlock, RLock, RUnlock, storeVars, historyVars
    <2>2. \A q \in Threads : pc'[q] = "write" => pc[q] = "write"
      BY <1>3 DEF Lock, Enter, Unlock, RLock, RUnlock, Goto, TypeOK
    <2>. QED
      BY <2>1, <2>2, DataFrame
  <1>4. ASSUME NEW p \in Threads,
               GetRead(p) \/ StatsCount(p) \/ StatsList(p) \/ AddNoId(p)
        PROVE  DataOK'
    <2>1. UNCHANGED <<entries, budget, views, op, tgt>>
      BY <1>4 DEF GetRead, StatsCount, StatsList, AddNoId, storeVars,
                  historyVars
    <2>2. \A q \in Threads : pc'[q] = "write" =>
             pc[q] = "write" /\ UNCHANGED arg[q]
      BY <1>4 DEF GetRead, StatsCount, StatsList, AddNoId, Goto, TypeOK
    <2>. QED
      BY <2>1, <2>2, DataFrame
  <1>5. ASSUME NEW p \in Threads, NEW i \in Ids, AddReserve(p, i)
        PROVE  DataOK'
    <2>1. UNCHANGED <<entries, budget, views, op, arg>>
      BY <1>5 DEF AddReserve, storeVars, historyVars
    <2>2. \A q \in Threads : q # p => UNCHANGED <<pc[q], tgt[q]>>
      BY <1>5 DEF AddReserve, Goto, TypeOK
    <2>3. pc'[p] = "write" => AboutToWrite(p)'
      BY <1>5, <2>1, SizeOfEntries
         DEF AddReserve, AboutToWrite, FreshIds, IsFull, Goto, TypeOK, CallOK
    <2>. QED
      BY <2>1, <2>2, <2>3
         DEF DataOK, ViewsWithinBudget, CapacityHeld, WritesOK, AboutToWrite
  <1>6. ASSUME NEW p \in Threads, AddInsert(p)
        PROVE  DataOK'
    <2>1. /\ tgt[p] \in Ids /\ AboutToWrite(p) /\ Prepared(arg[p])
          /\ pc[p] = "write" /\ op[p] = "add"
      BY <1>6 DEF AddInsert, CallOK, DataOK, WritesOK
    <2>2. \A q \in Threads : pc'[q] # "write"
      BY <1>6, <2>1, OneWriter DEF AddInsert, Goto, TypeOK, Announced
    <2>3. entries' = With(entries, tgt[p], arg[p])
      BY <1>6 DEF AddInsert
    <2>4. /\ DOMAIN entries' = DOMAIN entries \cup {tgt[p]}
          /\ entries'[tgt[p]] = arg[p]
          /\ \A j \in DOMAIN entries \ {tgt[p]} : entries'[j] = entries[j]
          /\ Cardinality(DOMAIN entries') =
                IF tgt[p] \in DOMAIN entries THEN Cardinality(DOMAIN entries)
                ELSE Cardinality(DOMAIN entries) + 1
      <3>. arg[p] \in Entry /\ tgt[p] \in Ids
        BY <2>1 DEF Prepared
      <3>1. DOMAIN entries' = DOMAIN entries \cup {tgt[p]}
            /\ entries'[tgt[p]] = arg[p]
            /\ \A j \in DOMAIN entries \ {tgt[p]} : entries'[j] = entries[j]
        BY <2>3 DEF With
      <3>2. Cardinality(DOMAIN entries') =
              IF tgt[p] \in DOMAIN entries THEN Cardinality(DOMAIN entries)
              ELSE Cardinality(DOMAIN entries) + 1
        BY <2>3, SizeWith, Zenon
      <3>. QED
        BY <3>1, <3>2
    <2>5. CapacityHeld'
      BY <2>1, <2>4, SizeOfEntries DEF CapacityHeld, DataOK, AboutToWrite
    <2>6. /\ budget' = [budget EXCEPT ![tgt[p]] = arg[p].max]
          /\ views' = [views EXCEPT ![tgt[p]] = 0]
          /\ arg[p].max \in Nat \ {0} /\ arg[p].clicks = 0
      BY <1>6, <2>1 DEF AddInsert, Prepared, Entry
    <2>7. ViewsWithinBudget'
      BY <2>1, <2>4, <2>6 DEF ViewsWithinBudget, DataOK, TypeOK
    <2>. QED
      BY <2>2, <2>5, <2>7 DEF DataOK, WritesOK
  <1>7. ASSUME NEW p \in Threads, ClaimLookup(p)
        PROVE  DataOK'
    <2>1. UNCHANGED <<entries, budget, views, op, tgt>>
      BY <1>7 DEF ClaimLookup, storeVars, historyVars
    <2>2. \A q \in Threads : q # p => UNCHANGED <<pc[q], arg[q]>>
      BY <1>7 DEF ClaimLookup, Goto, TypeOK
    <2>3. pc'[p] = "write" => AboutToWrite(p)'
      <3>1. CASE tgt[p] \in DOMAIN entries
        <4>1. arg'[p] = [entries[tgt[p]] EXCEPT !.clicks = @ + 1]
          BY <1>7, <3>1 DEF ClaimLookup, TypeOK
        <4>2. entries[tgt[p]] \in Entry
          BY <3>1 DEF TypeOK
        <4>. QED
          BY <1>7, <2>1, <3>1, <4>1, <4>2
             DEF ClaimLookup, AboutToWrite, Entry
      <3>2. CASE tgt[p] \notin DOMAIN entries
        BY <1>7, <3>2 DEF ClaimLookup, Goto, TypeOK
      <3>. QED
        BY <3>1, <3>2
    <2>. QED
      BY <2>1, <2>2, <2>3
         DEF DataOK, ViewsWithinBudget, CapacityHeld, WritesOK, AboutToWrite
  <1>8. ASSUME NEW p \in Threads, ClaimCount(p)
        PROVE  DataOK'
    <2>1. /\ tgt[p] \in Ids /\ AboutToWrite(p)
          /\ pc[p] = "write" /\ op[p] = "claim"
          /\ arg[p] \in Entry
      BY <1>8 DEF ClaimCount, CallOK, DataOK, WritesOK
    <2>2. \A q \in Threads : pc'[q] # "write"
      BY <1>8, <2>1, OneWriter DEF ClaimCount, Goto, TypeOK, Announced
    <2>3. tgt[p] \in DOMAIN entries
      BY <2>1 DEF AboutToWrite
    <2>4. /\ views' = [views EXCEPT ![tgt[p]] = views[tgt[p]] + 1]
          /\ UNCHANGED budget
          /\ arg[p].clicks = views[tgt[p]] + 1 /\ arg[p].max = budget[tgt[p]]
          /\ views[tgt[p]] < budget[tgt[p]]
      BY <1>8, <2>1 DEF ClaimCount, AboutToWrite, DataOK, ViewsWithinBudget
    <2>5. \A i \in Ids : views'[i] <= budget'[i]
      BY <2>1, <2>4 DEF DataOK, ViewsWithinBudget, TypeOK
    <2>6. CASE Outlives(arg[p])
      <3>1. entries' = With(entries, tgt[p], arg[p])
        BY <1>8, <2>6 DEF ClaimCount
      <3>2. /\ DOMAIN entries' = DOMAIN entries
            /\ entries'[tgt[p]] = arg[p]
            /\ \A j \in DOMAIN entries \ {tgt[p]} : entries'[j] = entries[j]
        <4>. arg[p] \in Entry /\ tgt[p] \in Ids
          BY <2>1
        <4>. QED
          BY <2>3, <3>1, SizeWith
      <3>3. ViewsWithinBudget'
        BY <2>1, <2>4, <2>5, <2>6, <3>2
           DEF ViewsWithinBudget, DataOK, Outlives, TypeOK
      <3>4. CapacityHeld'
        BY <3>2 DEF CapacityHeld, DataOK
      <3>. QED
        BY <2>2, <3>3, <3>4 DEF DataOK, WritesOK
    <2>7. CASE ~Outlives(arg[p])
      <3>1. entries' = Without(entries, tgt[p])
        BY <1>8, <2>7 DEF ClaimCount
      <3>2. /\ DOMAIN entries' = DOMAIN entries \ {tgt[p]}
            /\ \A j \in DOMAIN entries' : entries'[j] = entries[j]
            /\ Cardinality(DOMAIN entries') = Cardinality(DOMAIN entries) - 1
        BY <2>3, <3>1, SizeWithout
      <3>3. \A j \in DOMAIN entries' : UNCHANGED <<views[j], budget[j]>>
        BY <2>4, <3>2 DEF TypeOK
      <3>4. ViewsWithinBudget'
        BY <2>5, <3>2, <3>3 DEF ViewsWithinBudget, DataOK
      <3>5. CapacityHeld'
        BY <3>2, SizeOfEntries DEF CapacityHeld, DataOK
      <3>. QED
        BY <2>2, <3>4, <3>5 DEF DataOK, WritesOK
    <2>. QED
      BY <2>6, <2>7
  <1>9. ASSUME NEW i \in Ids, SweepDelete(i)
        PROVE  DataOK'
    <2>1. /\ i \in DOMAIN entries /\ entries' = Without(entries, i)
          /\ UNCHANGED <<budget, views, pc>> /\ pc[Sweeper] = "crit"
      BY <1>9 DEF SweepDelete, callVars, historyVars
    <2>2. WritesOK'
      BY <2>1, OneWriter DEF WritesOK, Announced, Threads
    <2>3. /\ DOMAIN entries' = DOMAIN entries \ {i}
          /\ \A j \in DOMAIN entries' : entries'[j] = entries[j]
          /\ Cardinality(DOMAIN entries') = Cardinality(DOMAIN entries) - 1
      BY <2>1, SizeWithout
    <2>4. CapacityHeld'
      BY <2>3, SizeOfEntries DEF DataOK, CapacityHeld
    <2>5. ViewsWithinBudget'
      BY <2>1, <2>3 DEF DataOK, ViewsWithinBudget
    <2>. QED
      BY <2>2, <2>4, <2>5 DEF DataOK
  <1>10. CASE SweepEnd
    <2>1. UNCHANGED <<entries, budget, views, op, tgt, arg>>
      BY <1>10 DEF SweepEnd, historyVars
    <2>2. \A q \in Threads : pc'[q] = "write" => pc[q] = "write"
      BY <1>10 DEF SweepEnd, Goto, TypeOK
    <2>. QED
      BY <2>1, <2>2, DataFrame
  <1>. QED
    BY <1>1, <1>2, <1>3, <1>4, <1>5, <1>6, <1>7, <1>8, <1>9, <1>10
       DEF Next, Proceed, SweepStep, Threads

LEMMA DataAlways == Spec => []DataOK
  BY DataInit, DataStep, ShapeAlways, LockAlways, PTL DEF Spec

\* No secret is handed out more often than it was created for, and a live
\* entry's Clicks counts its views: the model of "one-time" in one-time link.
THEOREM BudgetKept == Spec => []ViewsWithinBudget
  BY DataAlways, PTL DEF DataOK

\* The store never holds more entries than New was told.
THEOREM CapacityKept == Spec => []CapacityHeld
  BY DataAlways, PTL DEF DataOK

\* What the entries of S hold fits into as many rows of m bytes.
LEMMA BytesFit ==
  ASSUME NEW S, IsFiniteSet(S), NEW m \in Nat,
         NEW B, \A x \in B : \E i \in S, b \in 1..m : x = <<i, b>>
  PROVE  /\ IsFiniteSet(B)
         /\ Cardinality(B) <= Cardinality(S) * m
  <1>. DEFINE R == 1..m
  <1>1. IsFiniteSet(R) /\ Cardinality(R) = m
    BY FS_Interval
  <1>2. B \subseteq S \X R
    OBVIOUS
  <1>. HIDE DEF R
  <1>3. IsFiniteSet(S \X R) /\ Cardinality(S \X R) = Cardinality(S) * Cardinality(R)
    BY <1>1, FS_Product, Zenon
  <1>. QED
    BY <1>1, <1>2, <1>3, FS_Subset

\* No bytes but those of its secrets, each of at most MaxSecretLen: the store's
\* part of the process's memory is bounded, whatever callers do.
THEOREM MemoryIsBounded == Spec => []MemoryBounded
  <1>1. TypeOK /\ CapacityHeld => MemoryBounded
    <2> SUFFICES ASSUME TypeOK, CapacityHeld PROVE MemoryBounded
      OBVIOUS
    <2>. DEFINE n == Cardinality(DOMAIN entries)
    <2>1. MaxSecretLen \in Nat
      BY StoreAssumption
    <2>2. ASSUME NEW x \in SecretBytes
          PROVE  \E i \in DOMAIN entries, b \in 1..MaxSecretLen : x = <<i, b>>
      <3>1. PICK i \in DOMAIN entries : x \in {i} \X (1..entries[i].bytes)
        BY DEF SecretBytes
      <3>2. entries[i].bytes \in 1..MaxSecretLen
        BY DEF TypeOK, Entry
      <3>3. PICK b \in 1..entries[i].bytes : x = <<i, b>>
        BY <3>1
      <3>4. b \in 1..MaxSecretLen
        BY <2>1, <3>2
      <3>. QED
        BY <3>3, <3>4
    <2>3. IsFiniteSet(DOMAIN entries)
      BY SizeOfEntries
    <2>4. IsFiniteSet(SecretBytes) /\ Cardinality(SecretBytes) <= n * MaxSecretLen
      BY <2>1, <2>2, <2>3, BytesFit
    <2>5. /\ n \in Nat /\ n <= Capacity /\ Capacity \in Nat
          /\ Cardinality(SecretBytes) \in Nat
      BY <2>4, SizeOfEntries, CapacityPositive, FS_CardinalityType
         DEF CapacityHeld
    <2>. HIDE DEF n
    <2>6. n * MaxSecretLen <= Capacity * MaxSecretLen
      BY <2>1, <2>5
    <2>7. n * MaxSecretLen \in Nat /\ Capacity * MaxSecretLen \in Nat
      BY <2>1, <2>5
    <2>. QED
      BY <2>4, <2>5, <2>6, <2>7 DEF MemoryBounded
  <1>. QED
    BY <1>1, TypeCorrect, CapacityKept, PTL

-----------------------------------------------------------------------------
(* What callers are told *)

\* A claim has its result from the moment it counted the click; until the
\* goroutine's next call the result stays, and names a view handed out by now.
RevealOK ==
    /\ DistinctReveals
    /\ \A p \in Goroutines : Claimed(p) =>
          /\ pc[p] \in {"unlock", "idle"}
          /\ tgt[p] \in Ids \ CallerIds =>
                arg[p].clicks \in 1..views[tgt[p]]

LEMMA RevealInit == Init => RevealOK
  BY DEF Init, RevealOK, DistinctReveals, Claimed, Threads

\* A step that completes no claim and takes back no view.
LEMMA RevealFrame ==
  ASSUME RevealOK,
         \A q \in Goroutines : Claimed(q)' =>
            /\ Claimed(q) /\ UNCHANGED <<tgt[q], arg[q]>>
            /\ pc'[q] \in {"unlock", "idle"},
         \A i \in Ids \ CallerIds : views'[i] = views[i]
  PROVE  RevealOK'
  BY DEF RevealOK, DistinctReveals

LEMMA RevealStep == ShapeOK /\ DataOK /\ RevealOK /\ [Next]_vars => RevealOK'
  <1> SUFFICES ASSUME ShapeOK, DataOK, RevealOK, [Next]_vars PROVE RevealOK'
    OBVIOUS
  <1> USE StoreAssumption
  <1>. TypeOK /\ CallOK
    BY DEF ShapeOK
  <1>. op \in [Threads -> {"none", "add", "claim", "get", "stats", "sweep"}]
       /\ \A q \in Goroutines : Claimed(q) => pc[q] \in {"unlock", "idle"}
    BY DEF TypeOK, RevealOK
  <1>1. CASE Tick \/ UNCHANGED vars
    BY <1>1, RevealFrame DEF Tick, vars, callVars, historyVars, Claimed
  <1>2. ASSUME NEW p \in Threads,
               \/ p \in Goroutines /\ Request(p)
               \/ p = Sweeper /\ BeginSweep
        PROVE  RevealOK'
    <2>1. /\ UNCHANGED views
          /\ \E name, i, local, label : \E how \in {"none", "rejected"} :
                Call(p, name, i, local, how, label)
      <3>1. CASE BeginSweep /\ p = Sweeper
        BY <3>1 DEF BeginSweep, historyVars
      <3>2. CASE Request(p)
        BY <3>2 DEF Request, RejectAdd, BeginAdd, BeginClaim, BeginGet,
                    BeginStats, historyVars
      <3>. QED
        BY <1>2, <3>1, <3>2
    <2>. QED
      BY <2>1, RevealFrame DEF Call, Goto, TypeOK, Claimed, Threads
  <1>3. ASSUME NEW p \in Threads,
               Lock(p) \/ Enter(p) \/ Unlock(p) \/ RLock(p) \/ RUnlock(p)
        PROVE  RevealOK'
    <2>1. UNCHANGED <<views, op, tgt, arg, reply>>
      BY <1>3 DEF Lock, Enter, Unlock, RLock, RUnlock, historyVars
    <2>2. \A q \in Threads : pc[q] \in {"unlock", "idle"} =>
             pc'[q] \in {"unlock", "idle"}
      BY <1>3 DEF Lock, Enter, Unlock, Awaiting, RLock, RUnlock, Goto, TypeOK
    <2>. QED
      BY <2>1, <2>2, RevealFrame DEF Claimed, Threads
  <1>4. ASSUME NEW p \in Threads,
               \/ \E i \in Ids : AddReserve(p, i)
               \/ AddNoId(p) \/ ClaimLookup(p)
               \/ GetRead(p) \/ StatsCount(p) \/ StatsList(p)
        PROVE  RevealOK'
    <2>1. UNCHANGED <<views, op>>
      BY <1>4 DEF AddReserve, AddNoId, ClaimLookup, GetRead, StatsCount,
                  StatsList, historyVars
    <2>2. p \in Goroutines => ~Claimed(p)'
      <3>1. CASE op[p] = "claim"
        BY <1>4, <2>1, <3>1
           DEF AddReserve, AddNoId, ClaimLookup, GetRead, StatsCount,
               StatsList, Answer, TypeOK, Claimed
      <3>. QED
        BY <2>1, <3>1 DEF Claimed
    <2>3. \A q \in Threads : q # p =>
             UNCHANGED <<tgt[q], arg[q], reply[q], pc[q]>>
      BY <1>4 DEF AddReserve, AddNoId, ClaimLookup, GetRead, StatsCount,
                  StatsList, Answer, Goto, TypeOK
    <2>. QED
      BY <2>1, <2>2, <2>3, RevealFrame DEF Claimed, Threads
  <1>5. ASSUME NEW p \in Threads, AddInsert(p)
        PROVE  RevealOK'
    <2>1. /\ UNCHANGED <<op, tgt, arg>> /\ op[p] = "add"
          /\ views' = [views EXCEPT ![tgt[p]] = 0] /\ tgt[p] \in Ids
          /\ tgt[p] \notin CallerIds => budget[tgt[p]] = 0
      BY <1>5 DEF AddInsert, CallOK, DataOK, WritesOK, AboutToWrite
    <2>2. \A q \in Threads : q # p => UNCHANGED <<reply[q], pc[q]>>
      BY <1>5 DEF AddInsert, Answer, Goto, TypeOK
    <2>3. \A i \in Ids \ CallerIds : views'[i] = views[i]
      BY <2>1 DEF DataOK, ViewsWithinBudget, TypeOK
    <2>. QED
      BY <2>1, <2>2, <2>3, RevealFrame DEF Claimed, Threads
  <1>6. ASSUME NEW p \in Threads, ClaimCount(p)
        PROVE  RevealOK'
    <2>1. /\ UNCHANGED <<op, tgt, arg>> /\ pc'[p] = "unlock"
          /\ views' = [views EXCEPT ![tgt[p]] = views[tgt[p]] + 1]
          /\ tgt[p] \in Ids /\ arg[p].clicks = views[tgt[p]] + 1
      BY <1>6 DEF ClaimCount, Goto, CallOK, DataOK, WritesOK, AboutToWrite,
                  ViewsWithinBudget, TypeOK
    <2>2. \A q \in Threads : q # p => UNCHANGED <<reply[q], pc[q]>>
      BY <1>6 DEF ClaimCount, Answer, Goto, TypeOK
    <2>3. \A q \in Goroutines : q # p /\ Claimed(q)' =>
             /\ Claimed(q) /\ pc'[q] \in {"unlock", "idle"}
             /\ tgt[q] \in Ids \ CallerIds => arg[q].clicks \in 1..views[tgt[q]]
      BY <2>1, <2>2 DEF Claimed, Threads, RevealOK
    <2>4. \A q \in Goroutines : Claimed(q)' =>
             /\ pc'[q] \in {"unlock", "idle"}
             /\ tgt'[q] \in Ids \ CallerIds =>
                   arg'[q].clicks \in 1..views'[tgt'[q]]
      BY <2>1, <2>3 DEF TypeOK
    <2>5. DistinctReveals'
      <3> SUFFICES ASSUME NEW q \in Goroutines, NEW r \in Goroutines,
                          Claimed(q)', Claimed(r)', q # r, tgt[q] = tgt[r],
                          tgt[q] \notin CallerIds
                   PROVE  arg[q].clicks # arg[r].clicks
        BY <2>1 DEF DistinctReveals
      <3>1. tgt[q] \in Ids
        BY <2>1 DEF Claimed, CallOK, Threads
      <3>2. CASE q # p /\ r # p
        BY <2>3, <3>2 DEF RevealOK, DistinctReveals
      <3>3. CASE q = p \/ r = p
        BY <2>1, <2>3, <3>1, <3>3 DEF TypeOK
      <3>. QED
        BY <3>2, <3>3
    <2>. QED
      BY <2>4, <2>5 DEF RevealOK
  <1>7. CASE SweepStep
    <2>1. UNCHANGED <<views, op, tgt, arg, reply>>
          /\ \A q \in Goroutines : UNCHANGED pc[q]
      BY <1>7 DEF SweepStep, SweepDelete, SweepEnd, Goto, callVars,
                  historyVars, TypeOK, Threads
    <2>. QED
      BY <2>1, RevealFrame DEF Claimed
  <1>. QED
    BY <1>1, <1>2, <1>3, <1>4, <1>5, <1>6, <1>7
       DEF Next, Proceed, Threads

\* Two callers are never given the same view of a secret: what the comment on
\* Claim wants the lock for.
THEOREM RevealsDistinct == Spec => []DistinctReveals
  <1>1. Spec => []RevealOK
    BY RevealInit, RevealStep, ShapeAlways, DataAlways, PTL DEF Spec
  <1>2. RevealOK => DistinctReveals
    BY DEF RevealOK
  <1>. QED
    BY <1>1, <1>2, PTL

-----------------------------------------------------------------------------
(* The counters *)

\* The figures of a report hold from the first time they are read: whoever
\* is between RLock and RUnlock keeps the writers out.
Consistent(r) == r.live + r.expired <= r.created

ReportOK ==
    \A p \in Threads : op[p] = "stats" =>
        /\ pc[p] = "list" =>
              /\ report[p].live = Cardinality(DOMAIN entries)
              /\ Consistent(report[p])
        /\ reply[p] = "report" =>
              /\ pc[p] \in {"runlock", "idle"}
              /\ report[p].listed = report[p].live
              /\ Consistent(report[p])

LedgerOK == EntriesBalance /\ ReportOK

LEMMA LedgerInit == Init => LedgerOK
  <1> SUFFICES ASSUME Init PROVE LedgerOK
    OBVIOUS
  <1>1. Cardinality(DOMAIN entries) = 0
    BY FS_EmptySet DEF Init
  <1>. QED
    BY <1>1 DEF Init, LedgerOK, EntriesBalance, ReportOK, Threads

\* A step of a goroutine that leaves entries and counters alone, is not about
\* a report, and at most ends the call of a report that is done.
LEMMA LedgerFrame ==
  ASSUME LedgerOK,
         UNCHANGED <<DOMAIN entries, created, burned, expired, swept, replaced>>,
         \A q \in Threads : op'[q] = "stats" =>
            \/ pc'[q] # "list" /\ reply'[q] # "report"
            \/ /\ UNCHANGED <<op[q], reply[q], report[q]>>
               /\ pc'[q] = pc[q] \/ pc'[q] = "idle"
               /\ pc'[q] = "list" => pc[q] = "list"
  PROVE  LedgerOK'
  BY DEF LedgerOK, EntriesBalance, ReportOK, Consistent

\* A writer's step: nobody is at "list", and the sum is kept.
LEMMA LedgerWrite ==
  ASSUME LockOK, LedgerOK, EntriesBalance', NEW p \in Threads,
         Inside(p), op[p] # "stats", UNCHANGED <<op, report>>,
         \A q \in Threads : q # p => UNCHANGED <<pc[q], reply[q]>>
  PROVE  LedgerOK'
  <1>1. \A q \in Threads : op'[q] = "stats" => q # p /\ pc[q] # "list"
    BY DEF LockOK, Inside
  <1>. QED
    BY <1>1 DEF LedgerOK, ReportOK, Consistent

LEMMA LedgerStep ==
        ShapeOK /\ LockOK /\ DataOK /\ LedgerOK /\ [Next]_vars => LedgerOK'
  <1> SUFFICES ASSUME ShapeOK, LockOK, DataOK, LedgerOK, [Next]_vars
               PROVE  LedgerOK'
    OBVIOUS
  <1> USE StoreAssumption
  <1>. TypeOK /\ CallOK
    BY DEF ShapeOK
  <1>1. CASE Tick \/ UNCHANGED vars
    BY <1>1, LedgerFrame
       DEF Tick, vars, storeVars, callVars, sweepVars, historyVars
  <1>2. ASSUME NEW p \in Threads,
               \/ p \in Goroutines /\ Request(p)
               \/ p = Sweeper /\ BeginSweep
        PROVE  LedgerOK'
    <2>1. /\ UNCHANGED <<entries, created, expired, swept, burned, replaced>>
          /\ \E name, i, local : \E how \in {"none", "rejected"} :
                \E label \in {"idle", "lock", "rlock"} :
                    Call(p, name, i, local, how, label)
      <3>1. CASE BeginSweep /\ p = Sweeper
        BY <3>1 DEF BeginSweep, storeVars, historyVars
      <3>2. CASE Request(p)
        BY <3>2 DEF Request, RejectAdd, BeginAdd, BeginClaim, BeginGet,
                    BeginStats, storeVars, sweepVars, historyVars
      <3>. QED
        BY <1>2, <3>1, <3>2
    <2>. QED
      BY <2>1, LedgerFrame DEF Call, Goto, TypeOK
  <1>3. ASSUME NEW p \in Threads,
               Lock(p) \/ Enter(p) \/ Unlock(p) \/ RLock(p) \/ RUnlock(p)
        PROVE  LedgerOK'
    <2>1. UNCHANGED <<entries, created, expired, swept, burned, replaced,
                      op, reply, report>>
      BY <1>3 DEF Lock, Enter, Unlock, RLock, RUnlock, storeVars, sweepVars,
                  historyVars
    <2>2. \A q \in Threads : op[q] = "stats" /\ reply[q] = "report" =>
             pc'[q] \in {pc[q], "idle"}
      BY <1>3 DEF LedgerOK, ReportOK, Lock, Enter, Unlock, Awaiting, RLock,
                  RUnlock, Goto, TypeOK
    <2>3. \A q \in Threads : pc'[q] = "list" => pc[q] = "list"
      BY <1>3 DEF Lock, Enter, Unlock, Awaiting, RLock, RUnlock, Goto, TypeOK
    <2>. QED
      BY <2>1, <2>2, <2>3 DEF LedgerOK, EntriesBalance, ReportOK, Consistent
  <1>4. ASSUME NEW p \in Threads,
               \/ \E i \in Ids : AddReserve(p, i)
               \/ AddNoId(p) \/ ClaimLookup(p) \/ GetRead(p)
        PROVE  LedgerOK'
    <2>1. UNCHANGED <<entries, created, expired, swept, burned, replaced,
                      op, report>>
          /\ op[p] # "stats"
      BY <1>4 DEF AddReserve, AddNoId, ClaimLookup, GetRead, storeVars,
                  sweepVars, historyVars
    <2>2. \A q \in Threads : q # p => UNCHANGED <<pc[q], reply[q]>>
      BY <1>4 DEF AddReserve, AddNoId, ClaimLookup, GetRead, Answer, Goto,
                  TypeOK
    <2>. QED
      BY <2>1, <2>2, LedgerFrame
  <1>5. ASSUME NEW p \in Threads, StatsCount(p)
        PROVE  LedgerOK'
    <2>1. /\ UNCHANGED <<entries, created, expired, swept, burned, replaced,
                         op, reply>>
          /\ op[p] = "stats" /\ pc[p] = "read" /\ pc'[p] = "list"
          /\ report'[p] = [live |-> Cardinality(DOMAIN entries),
                           created |-> created, claimed |-> claimed,
                           expired |-> expired, listed |-> 0]
      BY <1>5 DEF StatsCount, storeVars, sweepVars, historyVars, Goto, TypeOK
    <2>2. \A q \in Threads : q # p => UNCHANGED <<pc[q], report[q]>>
      BY <1>5 DEF StatsCount, Goto, TypeOK
    <2>3. Consistent(report[p])' /\ report'[p].live = Cardinality(DOMAIN entries)
      BY <2>1, SizeOfEntries DEF Consistent, LedgerOK, EntriesBalance, TypeOK
    <2>. QED
      BY <2>1, <2>2, <2>3 DEF LedgerOK, EntriesBalance, ReportOK, Consistent
  <1>6. ASSUME NEW p \in Threads, StatsList(p)
        PROVE  LedgerOK'
    <2>1. /\ UNCHANGED <<entries, created, expired, swept, burned, replaced, op>>
          /\ op[p] = "stats" /\ pc[p] = "list" /\ pc'[p] = "runlock"
      BY <1>6 DEF StatsList, storeVars, sweepVars, historyVars, Goto, TypeOK
    <2>2. \A q \in Threads : q # p =>
             UNCHANGED <<pc[q], reply[q], report[q]>>
      BY <1>6 DEF StatsList, Answer, Goto, TypeOK
    <2>3. /\ report'[p].listed = report'[p].live
          /\ Consistent(report[p])'
      <3>1. report[p] \in Report
        BY <2>1 DEF CallOK
      <3>2. report'[p] = [report[p] EXCEPT !.listed = Cardinality(DOMAIN entries)]
        BY <1>6 DEF StatsList, TypeOK
      <3>. QED
        BY <2>1, <3>1, <3>2 DEF LedgerOK, ReportOK, Consistent, Report
    <2>. QED
      BY <2>1, <2>2, <2>3 DEF LedgerOK, EntriesBalance, ReportOK, Consistent
  <1>7. ASSUME NEW p \in Threads, AddInsert(p)
        PROVE  LedgerOK'
    <2>1. /\ tgt[p] \in Ids /\ Inside(p) /\ op[p] # "stats" /\ arg[p] \in Entry
          /\ entries' = With(entries, tgt[p], arg[p])
          /\ UNCHANGED <<op, report>>
      BY <1>7 DEF AddInsert, CallOK, Inside
    <2>2. Cardinality(DOMAIN entries') =
            IF tgt[p] \in DOMAIN entries THEN Cardinality(DOMAIN entries)
            ELSE Cardinality(DOMAIN entries) + 1
      BY <2>1, SizeWith
    <2>3. EntriesBalance'
      BY <1>7, <2>2, SizeOfEntries
         DEF AddInsert, LedgerOK, EntriesBalance, TypeOK, sweepVars
    <2>. QED
      BY <1>7, <2>1, <2>3, LedgerWrite DEF AddInsert, Answer, Goto, TypeOK
  <1>8. ASSUME NEW p \in Threads, ClaimCount(p)
        PROVE  LedgerOK'
    <2>1. /\ tgt[p] \in DOMAIN entries /\ tgt[p] \in Ids
          /\ Inside(p) /\ op[p] # "stats" /\ arg[p] \in Entry
          /\ UNCHANGED <<op, report>>
      BY <1>8 DEF ClaimCount, CallOK, Inside, DataOK, WritesOK, AboutToWrite
    <2>2. Cardinality(DOMAIN entries') =
            IF Outlives(arg[p]) THEN Cardinality(DOMAIN entries)
            ELSE Cardinality(DOMAIN entries) - 1
      BY <1>8, <2>1, SizeWith, SizeWithout DEF ClaimCount
    <2>3. EntriesBalance'
      BY <1>8, <2>2, SizeOfEntries
         DEF ClaimCount, LedgerOK, EntriesBalance, TypeOK, sweepVars
    <2>. QED
      BY <1>8, <2>1, <2>3, LedgerWrite DEF ClaimCount, Answer, Goto, TypeOK
  <1>9. CASE SweepStep
    <2>1. /\ Inside(Sweeper) /\ op[Sweeper] # "stats"
          /\ UNCHANGED <<op, report>>
          /\ \A q \in Threads : q # Sweeper => UNCHANGED <<pc[q], reply[q]>>
      BY <1>9 DEF SweepStep, SweepDelete, SweepEnd, callVars, Inside, CallOK,
                  Goto, TypeOK
    <2>2. ASSUME NEW i \in Ids, SweepDelete(i)
          PROVE  EntriesBalance'
      <3>1. Cardinality(DOMAIN entries') = Cardinality(DOMAIN entries) - 1
        BY <2>2, SizeWithout DEF SweepDelete
      <3>. QED
        BY <2>2, <3>1, SizeOfEntries
           DEF SweepDelete, LedgerOK, EntriesBalance, historyVars, TypeOK
    <2>3. ASSUME SweepEnd PROVE EntriesBalance'
      <3>1. /\ UNCHANGED <<entries, created, burned, replaced>>
            /\ expired' = expired + swept /\ swept' = 0
        BY <2>3 DEF SweepEnd, SweepTotal, historyVars
      <3>. QED
        BY <3>1, SizeOfEntries DEF LedgerOK, EntriesBalance, TypeOK
    <2>4. EntriesBalance'
      BY <1>9, <2>2, <2>3 DEF SweepStep
    <2>. QED
      BY <2>1, <2>4, LedgerWrite DEF Threads
  <1>. QED
    BY <1>1, <1>2, <1>3, <1>4, <1>5, <1>6, <1>7, <1>8, <1>9
       DEF Next, Proceed, Threads

LEMMA LedgerAlways == Spec => []LedgerOK
  BY LedgerInit, LedgerStep, ShapeAlways, LockAlways, DataAlways, PTL DEF Spec

\* Each view in use has been counted as a claim.
ViewsCounted == IsFiniteSet(ViewsUsed) /\ Cardinality(ViewsUsed) <= claimed

LEMMA ViewsCountedStep ==
        TypeOK /\ ViewsCounted /\ [Next]_vars => ViewsCounted'
  <1> SUFFICES ASSUME TypeOK, ViewsCounted, [Next]_vars PROVE ViewsCounted'
    OBVIOUS
  <1>1. CASE UNCHANGED <<views, claimed>>
    BY <1>1 DEF ViewsCounted, ViewsUsed
  <1>2. ASSUME NEW p \in Threads, AddInsert(p) PROVE ViewsCounted'
    \* The pairs of the id that is stored anew are gone, the others remain.
    <2>1. claimed' = claimed /\ views' = [views EXCEPT ![tgt[p]] = 0]
      BY <1>2 DEF AddInsert
    <2>2. \A i \in Ids : 1..views'[i] \subseteq 1..views[i]
      BY <2>1 DEF TypeOK
    <2>3. ViewsUsed' \subseteq ViewsUsed
      BY <2>2 DEF ViewsUsed
    <2>4. /\ IsFiniteSet(ViewsUsed') /\ Cardinality(ViewsUsed') \in Nat
          /\ Cardinality(ViewsUsed') <= Cardinality(ViewsUsed)
          /\ Cardinality(ViewsUsed) \in Nat
      BY <2>3, FS_Subset, FS_CardinalityType DEF ViewsCounted
    <2>. QED
      BY <2>1, <2>4 DEF ViewsCounted, TypeOK
  <1>3. ASSUME NEW p \in Threads, ClaimCount(p) PROVE ViewsCounted'
    <2>. DEFINE new == <<tgt[p], views[tgt[p]] + 1>>
    <2>1. claimed' = claimed + 1
          /\ views' = [views EXCEPT ![tgt[p]] = views[tgt[p]] + 1]
      BY <1>3 DEF ClaimCount, ClaimTotal
    <2>2. \A i \in Ids : /\ i = tgt[p] =>
                              1..views'[i] = 1..views[i] \cup {views[i] + 1}
                         /\ i # tgt[p] => 1..views'[i] = 1..views[i]
      BY <2>1 DEF TypeOK
    <2>3. ViewsUsed' \subseteq ViewsUsed \cup {new}
      <3> SUFFICES ASSUME NEW i \in Ids, NEW n \in 1..views'[i]
                   PROVE  <<i, n>> \in ViewsUsed \cup {new}
        BY DEF ViewsUsed
      <3>1. CASE n \in 1..views[i]
        BY <3>1 DEF ViewsUsed
      <3>2. CASE n \notin 1..views[i]
        <4>1. i = tgt[p] /\ n = views[i] + 1
          BY <2>2, <3>2
        <4>. QED
          BY <4>1
      <3>. QED
        BY <3>1, <3>2
    <2>4. /\ IsFiniteSet(ViewsUsed \cup {new})
          /\ Cardinality(ViewsUsed \cup {new}) <= Cardinality(ViewsUsed) + 1
      <3>1. Cardinality(ViewsUsed) \in Nat
        BY FS_CardinalityType DEF ViewsCounted
      <3>2. CASE new \in ViewsUsed
        <4>1. ViewsUsed \cup {new} = ViewsUsed
          BY <3>2
        <4>2. IsFiniteSet(ViewsUsed)
          BY DEF ViewsCounted
        <4>3. Cardinality(ViewsUsed) <= Cardinality(ViewsUsed) + 1
          BY <3>1
        <4>. QED
          BY <4>1, <4>2, <4>3, Zenon
      <3>3. CASE new \notin ViewsUsed
        <4>. HIDE DEF new
        <4>1. IsFiniteSet(ViewsUsed)
          BY DEF ViewsCounted
        <4>2. /\ IsFiniteSet(ViewsUsed \cup {new})
              /\ Cardinality(ViewsUsed \cup {new}) = Cardinality(ViewsUsed) + 1
          BY <3>3, <4>1, FS_AddElement
        <4>. QED
          BY <3>1, <4>2
      <3>. QED
        BY <3>2, <3>3
    <2>5. /\ IsFiniteSet(ViewsUsed')
          /\ Cardinality(ViewsUsed') <= Cardinality(ViewsUsed \cup {new})
      BY <2>3, <2>4, FS_Subset
    <2>6. /\ Cardinality(ViewsUsed') \in Nat /\ Cardinality(ViewsUsed) \in Nat
          /\ Cardinality(ViewsUsed \cup {new}) \in Nat
      BY <2>4, <2>5, FS_CardinalityType DEF ViewsCounted
    <2>. QED
      BY <2>1, <2>4, <2>5, <2>6 DEF ViewsCounted, TypeOK
  <1>4. CASE Tick \/ BeginSweep \/ SweepStep
    BY <1>1, <1>4 DEF Tick, BeginSweep, SweepStep, SweepDelete, SweepEnd,
                      storeVars, historyVars
  <1>5. ASSUME NEW p \in Goroutines, Request(p) PROVE ViewsCounted'
    BY <1>1, <1>5 DEF Request, RejectAdd, BeginAdd, BeginClaim, BeginGet,
                      BeginStats, storeVars, historyVars
  <1>6. ASSUME NEW p \in Threads,
               \/ Lock(p) \/ Enter(p) \/ Unlock(p) \/ RLock(p) \/ RUnlock(p)
               \/ (\E i \in Ids : AddReserve(p, i)) \/ AddNoId(p)
               \/ ClaimLookup(p) \/ GetRead(p) \/ StatsCount(p) \/ StatsList(p)
        PROVE  ViewsCounted'
    BY <1>1, <1>6 DEF Lock, Enter, Unlock, RLock, RUnlock, AddReserve, AddNoId,
                      ClaimLookup, GetRead, StatsCount, StatsList, storeVars,
                      historyVars
  <1>. QED
    BY <1>1, <1>2, <1>3, <1>4, <1>5, <1>6
       DEF Next, Proceed, vars, storeVars, historyVars

LEMMA ViewsCountedInit == Init => ViewsCounted
  <1> SUFFICES ASSUME Init PROVE ViewsCounted
    OBVIOUS
  <1>1. \A i \in Ids : views[i] = 0
    BY DEF Init
  <1>2. ViewsUsed = {}
    BY <1>1 DEF ViewsUsed
  <1>. QED
    BY <1>2, FS_EmptySet DEF Init, ViewsCounted

\* No secret leaves the store uncounted, and no view of one is.
THEOREM LedgerBalances == Spec => []NothingLost
  <1>1. LedgerOK /\ ViewsCounted => NothingLost
    BY DEF LedgerOK, NothingLost, ViewsCounted
  <1>. QED
    BY <1>1, LedgerAlways, ViewsCountedInit, ViewsCountedStep, TypeCorrect, PTL
       DEF Spec

\* A report describes one moment, whoever writes while it is put together.
THEOREM ReportsConsistent == Spec => []ReportAddsUp
  <1>1. LedgerOK => ReportAddsUp
    BY DEF LedgerOK, ReportOK, ReportAddsUp, Consistent, Threads
  <1>. QED
    BY <1>1, LedgerAlways, PTL

-----------------------------------------------------------------------------
(* Expiry *)

\* No validity in use is so long that its nanoseconds overflow a Duration.
NoOverflow == \A v \in Validities : Day * v < HalfRange

LEMMA Wrap ==
  ASSUME NEW x \in Nat, x < HalfRange
  PROVE  ToDuration(x) = x
  <1>. DEFINE w == 2 * HalfRange
  <1>1. HalfRange \in Nat \ {0} /\ w \in Nat \ {0}
    BY StoreAssumption
  <1>2. x + HalfRange \in 0..(w - 1)
    BY <1>1
  <1>3. (x + HalfRange) % w = x + HalfRange
    <2>. HIDE DEF w
    <2>. QED
      BY <1>1, <1>2
  <1>. QED
    BY <1>1, <1>3 DEF ToDuration

LEMMA DaysKept ==
  ASSUME NoOverflow, NEW v \in Validities
  PROVE  ExpFactor(v) = Day * v
  <1>1. v \in Nat \ {0} /\ Day \in Nat
    BY StoreAssumption DEF Validities, DaysGranted
  <1>2. Day * v \in Nat
    BY <1>1
  <1>. QED
    BY <1>2, Wrap DEF NoOverflow, ExpFactor

SweepTimeOK == sweepNow <= clock

LEMMA SweepTimeAlways == Spec => []SweepTimeOK
  <1>1. Init => SweepTimeOK
    BY DEF Init, SweepTimeOK
  <1>2. ShapeOK /\ SweepTimeOK /\ [Next]_vars => SweepTimeOK'
    <2> SUFFICES ASSUME TypeOK, SweepTimeOK, [Next]_vars PROVE SweepTimeOK'
      BY DEF ShapeOK
    <2>1. UNCHANGED sweepVars \/ UNCHANGED sweepNow \/ BeginSweep
      <3>1. CASE Tick \/ UNCHANGED vars
        BY <3>1 DEF Tick, vars
      <3>2. ASSUME NEW p \in Goroutines, Request(p) PROVE UNCHANGED sweepVars
        BY <3>2 DEF Request, RejectAdd, BeginAdd, BeginClaim, BeginGet,
                    BeginStats
      <3>3. ASSUME NEW p \in Threads, Lock(p) \/ Proceed(p)
            PROVE  UNCHANGED sweepVars
        BY <3>3 DEF Lock, Proceed, Enter, Unlock, RLock, RUnlock, AddReserve,
                    AddNoId, AddInsert, ClaimLookup, ClaimCount, GetRead,
                    StatsCount, StatsList
      <3>4. CASE SweepStep
        BY <3>4 DEF SweepStep, SweepDelete, SweepEnd
      <3>. QED
        BY <3>1, <3>2, <3>3, <3>4 DEF Next
    <2>2. clock' = clock \/ clock' = clock + 1
      <3>1. CASE Tick \/ UNCHANGED vars
        BY <3>1 DEF Tick, vars
      <3>2. ASSUME NEW p \in Goroutines, Request(p) PROVE clock' = clock
        BY <3>2 DEF Request, RejectAdd, BeginAdd, BeginClaim, BeginGet,
                    BeginStats
      <3>3. ASSUME NEW p \in Threads, Lock(p) \/ Proceed(p)
            PROVE  clock' = clock
        BY <3>3 DEF Lock, Proceed, Enter, Unlock, RLock, RUnlock, AddReserve,
                    AddNoId, AddInsert, ClaimLookup, ClaimCount, GetRead,
                    StatsCount, StatsList
      <3>4. CASE SweepStep \/ BeginSweep
        BY <3>4 DEF SweepStep, SweepDelete, SweepEnd, BeginSweep
      <3>. QED
        BY <3>1, <3>2, <3>3, <3>4 DEF Next
    <2>3. CASE BeginSweep
      BY <2>3 DEF BeginSweep, TimeOfSweep, SweepTimeOK, TypeOK
    <2>. QED
      BY <2>1, <2>2, <2>3 DEF SweepTimeOK, TypeOK, sweepVars
  <1>. QED
    BY <1>1, <1>2, ShapeAlways, PTL DEF Spec

\* The only steps that change the entries.
LEMMA EntriesChange ==
  ASSUME [Next]_vars, entries' # entries
  PROVE  \/ \E p \in Threads : AddInsert(p) \/ ClaimCount(p)
         \/ \E i \in Ids : SweepDelete(i)
  <1>1. CASE Tick \/ BeginSweep \/ SweepEnd \/ UNCHANGED vars
    BY <1>1 DEF Tick, BeginSweep, SweepEnd, vars, storeVars
  <1>2. ASSUME NEW p \in Goroutines, Request(p) PROVE FALSE
    BY <1>2 DEF Request, RejectAdd, BeginAdd, BeginClaim, BeginGet,
                BeginStats, storeVars
  <1>3. ASSUME NEW p \in Threads, Lock(p) \/ Proceed(p)
        PROVE  AddInsert(p) \/ ClaimCount(p)
    BY <1>3 DEF Lock, Proceed, Enter, Unlock, RLock, RUnlock, AddReserve,
                AddNoId, ClaimLookup, GetRead, StatsCount, StatsList,
                storeVars
  <1>. QED
    BY <1>1, <1>2, <1>3 DEF Next, SweepStep

\* Unless a validity overflows, an entry goes only by its last click or after
\* its last day.
THEOREM ExpiresInTime == ASSUME NoOverflow PROVE Spec => GoneOnlyWhenDue
  <1>1. ShapeOK /\ DataOK /\ SweepTimeOK /\ [Next]_vars =>
          [\A i \in Ids :
              i \in DOMAIN entries /\ i \notin DOMAIN entries' =>
                  \/ views'[i] = budget[i]
                  \/ clock > entries[i].added + Day * entries[i].valid]_vars
    <2> SUFFICES ASSUME TypeOK, CallOK, DataOK, SweepTimeOK, [Next]_vars,
                        NEW i \in Ids,
                        i \in DOMAIN entries, i \notin DOMAIN entries'
                 PROVE  \/ views'[i] = budget[i]
                        \/ clock > entries[i].added + Day * entries[i].valid
      BY DEF ShapeOK
    <2>1. ASSUME NEW p \in Threads, AddInsert(p) PROVE FALSE
      BY <2>1 DEF AddInsert, With
    <2>2. ASSUME NEW p \in Threads, ClaimCount(p) PROVE views'[i] = budget[i]
      <3>1. /\ pc[p] = "write" /\ op[p] = "claim"
            /\ tgt[p] \in DOMAIN entries
            /\ arg[p].clicks = entries[tgt[p]].clicks + 1
            /\ arg[p].max = entries[tgt[p]].max
        BY <2>2 DEF ClaimCount, DataOK, WritesOK, AboutToWrite
      <3>2. i = tgt[p] /\ ~(arg[p].clicks < arg[p].max)
        BY <2>2 DEF ClaimCount, With, Without, Outlives
      <3>3. views'[i] = views[i] + 1
        BY <2>2, <3>2 DEF ClaimCount, TypeOK
      <3>. QED
        BY <3>1, <3>2, <3>3 DEF DataOK, ViewsWithinBudget, TypeOK
    <2>3. ASSUME NEW j \in Ids, SweepDelete(j)
          PROVE  clock > entries[i].added + Day * entries[i].valid
      <3>1. i = j /\ sweepNow > entries[i].added + ExpFactor(entries[i].valid)
        BY <2>3 DEF SweepDelete, Without, IsPast
      <3>2. ExpFactor(entries[i].valid) = Day * entries[i].valid
        BY DaysKept DEF CallOK
      <3>3. /\ entries[i].added \in Nat /\ Day * entries[i].valid \in Nat
            /\ sweepNow \in Nat /\ clock \in Nat
        BY StoreAssumption DEF TypeOK, Entry
      <3>. QED
        BY <3>1, <3>2, <3>3 DEF SweepTimeOK
    <2>. QED
      BY <2>1, <2>2, <2>3, EntriesChange
  <1>. QED
    BY <1>1, ShapeAlways, DataAlways, SweepTimeAlways, PTL
       DEF Spec, GoneOnlyWhenDue

-----------------------------------------------------------------------------
(* Refinement *)

\* The instance has a Cardinality of its own, defined alike.
LEMMA SameSize == \A S : Link!Cardinality(S) = Cardinality(S)
  BY DEF Cardinality, Link!Cardinality

\* A write under the lock is the abstract step; all others are stuttering.
\* So the store implements OneTimeLink: its callers cannot tell it from a
\* store whose calls take one step each.
THEOREM Refinement == Spec => ImplementsOneTimeLink
  <1>1. Init => Link!Init
    BY DEF Init, Link!Init
  <1>2. ShapeOK /\ DataOK /\ [Next]_vars => [Link!Next]_Link!linkVars
    <2> SUFFICES ASSUME TypeOK, CallOK, DataOK, [Next]_vars
                 PROVE  [Link!Next]_Link!linkVars
      BY DEF ShapeOK
    <2>1. ASSUME NEW p \in Threads, AddInsert(p) PROVE Link!Next
      <3>1. /\ tgt[p] \in Ids /\ AboutToWrite(p) /\ Prepared(arg[p])
            /\ op[p] = "add"
        BY <2>1 DEF AddInsert, CallOK, DataOK, WritesOK
      <3>2. DOMAIN entries' = DOMAIN entries \cup {tgt[p]}
        BY <2>1 DEF AddInsert, With
      <3>3. /\ budget' = [budget EXCEPT ![tgt[p]] = arg[p].max]
            /\ views' = [views EXCEPT ![tgt[p]] = 0]
            /\ arg[p].max \in Budgets
        BY <2>1, <3>1 DEF AddInsert, Prepared
      <3>4. Link!Create(tgt[p], arg[p].max)
        BY <3>1, <3>2, <3>3, SameSize DEF Link!Create, AboutToWrite
      <3>. QED
        BY <3>1, <3>3, <3>4 DEF Link!Next
    <2>2. ASSUME NEW p \in Threads, ClaimCount(p) PROVE Link!Next
      <3>1. /\ tgt[p] \in Ids /\ AboutToWrite(p) /\ op[p] = "claim"
        BY <2>2 DEF ClaimCount, CallOK, DataOK, WritesOK
      <3>2. /\ tgt[p] \in DOMAIN entries
            /\ views[tgt[p]] < budget[tgt[p]]
            /\ Outlives(arg[p]) <=> views[tgt[p]] + 1 < budget[tgt[p]]
        BY <3>1 DEF AboutToWrite, DataOK, ViewsWithinBudget, Outlives
      <3>3. DOMAIN entries' = IF Outlives(arg[p]) THEN DOMAIN entries
                              ELSE DOMAIN entries \ {tgt[p]}
        BY <2>2, <3>2 DEF ClaimCount, With, Without
      <3>4. Link!View(tgt[p])
        BY <2>2, <3>2, <3>3 DEF ClaimCount, Link!View
      <3>. QED
        BY <3>1, <3>4 DEF Link!Next
    <2>3. ASSUME NEW i \in Ids, SweepDelete(i) PROVE Link!Next
      <3>1. Link!Expire(i)
        BY <2>3 DEF SweepDelete, Without, historyVars, Link!Expire
      <3>. QED
        BY <3>1 DEF Link!Next
    <2>4. CASE entries' = entries
      <3>1. UNCHANGED <<budget, views>> \/ Link!Next
        <4>1. CASE Tick \/ BeginSweep \/ SweepStep \/ UNCHANGED vars
          BY <4>1, <2>3 DEF Tick, BeginSweep, SweepStep, SweepEnd, vars,
                            historyVars
        <4>2. ASSUME NEW p \in Goroutines, Request(p)
              PROVE  UNCHANGED <<budget, views>>
          BY <4>2 DEF Request, RejectAdd, BeginAdd, BeginClaim, BeginGet,
                      BeginStats, historyVars
        <4>3. ASSUME NEW p \in Threads, Lock(p) \/ Proceed(p)
              PROVE  UNCHANGED <<budget, views>> \/ Link!Next
          BY <4>3, <2>1, <2>2
             DEF Lock, Proceed, Enter, Unlock, RLock, RUnlock, AddReserve,
                 AddNoId, ClaimLookup, GetRead, StatsCount, StatsList,
                 historyVars
        <4>. QED
          BY <4>1, <4>2, <4>3 DEF Next
      <3>. QED
        BY <2>4, <3>1 DEF Link!linkVars
    <2>. QED
      BY <2>1, <2>2, <2>3, <2>4, EntriesChange
  <1>. QED
    BY <1>1, <1>2, ShapeAlways, DataAlways, PTL
       DEF Spec, ImplementsOneTimeLink, Link!Spec

\* So what the abstract specification promises of a link holds of the store,
\* with its sweeps and its copies of entries that are written back later: no
\* interleaving brings a secret back that was used up or has expired.
THEOREM NoSecretReturns == Spec => Link!GoneForGood
  BY Refinement, Link!GoneStaysGone, PTL DEF ImplementsOneTimeLink
=============================================================================
