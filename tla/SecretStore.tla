----------------------------- MODULE SecretStore -----------------------------
(***************************************************************************)
(* store/store.go: the in-memory store of one-time secrets, as the request *)
(* handlers' goroutines and the expiry goroutine use it.                   *)
(*                                                                         *)
(* A call is modelled statement group by statement group: what it does     *)
(* before it takes the mutex, the acquisition itself, what it reads and    *)
(* what it writes while holding it, and the release.  The mutex is         *)
(* sync.RWMutex: Lock first announces the writer, which keeps new readers  *)
(* out, then waits for the readers inside to leave; Unlock lets in every   *)
(* reader that queued up meanwhile.                                        *)
(***************************************************************************)
EXTENDS Integers, FiniteSets

CONSTANTS
    Goroutines,         \* the goroutines that serve requests
    Sweeper,            \* the goroutine running Expiry
    None,               \* nobody holds the mutex; the empty id
    Ids,                \* every id newID can draw or a caller can pass
    CallerIds,          \* ids passed to AddEntry instead of ""
    MaxEntries,         \* the argument of New
    DefaultMaxEntries,  \* store.DefaultMaxEntries
    MaxSecretLen,       \* store.MaxSecretLen
    SecretLens,         \* lengths of the secrets handed to AddEntry
    ClickArgs,          \* max_clicks values handed to AddEntry
    DayArgs,            \* valid_for values handed to AddEntry
    DefaultValidity,    \* defaultValidity, in days
    Day,                \* clock ticks in a day
    HalfRange,          \* a time.Duration lies in -HalfRange .. HalfRange-1
    MaxTime,            \* bound: the clock stops here
    MaxCreates          \* bound: no AddEntry starts beyond this many

Threads == Goroutines \cup {Sweeper}

ASSUME StoreAssumption ==
    /\ Sweeper \notin Goroutines
    /\ None \notin Threads /\ None \notin Ids
    /\ IsFiniteSet(Ids) /\ CallerIds \subseteq Ids
    /\ MaxEntries \in Int /\ DefaultMaxEntries \in Nat \ {0}
    /\ MaxSecretLen \in Nat \ {0} /\ SecretLens \subseteq Nat
    /\ ClickArgs \subseteq Int /\ DayArgs \subseteq Int
    /\ DefaultValidity \in Nat \ {0}
    /\ Day \in Nat \ {0} /\ HalfRange \in Nat \ {0}
    /\ MaxTime \in Nat /\ MaxCreates \in Nat

VARIABLES
    clock,      \* time.Now
    entries,    \* SecretStore.entries, a partial function on Ids
    created, claimed, expired,  \* the counters of SecretStore
    writer,     \* mu: the goroutine whose Lock was announced, or None
    readers,    \* mu: the goroutines inside RLock
    pc,         \* where each goroutine is within its call
    op,         \* which call that is
    tgt,        \* the id the call is about
    arg,        \* the call's local copy of an entry
    reply,      \* how the last call ended
    report,     \* the Stats value being built, or the last one returned
    sweepNow,   \* the argument of expireOnce
    swept,      \* expireOnce's n
    \* History, for the properties only:
    budget,     \* budget[i]: MaxClicks of the entry last stored under i
    views,      \* views[i]: successful claims of that entry
    burned,     \* entries deleted by their last click
    replaced    \* entries overwritten by a caller that chose the id

storeVars == <<entries, created, claimed, expired>>
lockVars == <<writer, readers>>
callVars == <<pc, op, tgt, arg, reply, report>>
sweepVars == <<sweepNow, swept>>
historyVars == <<budget, views, burned, replaced>>
vars == <<clock, storeVars, lockVars, callVars, sweepVars, historyVars>>

-----------------------------------------------------------------------------
(* Values *)

\* New: a capacity that is not positive means the default one.
Capacity == IF MaxEntries <= 0 THEN DefaultMaxEntries ELSE MaxEntries

defaultMaxClicks == 1

\* StoreEntry; of the secret only the length matters.
Entry == [bytes : 1..MaxSecretLen, max : Nat \ {0}, clicks : Nat,
          added : Nat, valid : Nat \ {0}]

\* Stats, without the list's contents: how many entries it has.
Report == [live : Nat, created : Nat, claimed : Nat, expired : Nat,
           listed : Nat]

\* time.Duration arithmetic wraps around like any int64.
ToDuration(x) == ((x + HalfRange) % (2 * HalfRange)) - HalfRange

\* Mutant: the unit is forgotten.
ExpFactorInTicks(v) == ToDuration(v)

\* realExpFactor
ExpFactor(v) == ToDuration(Day * v)

\* now.After(e.DateAdded.Add(expFactor(e.ValidFor)))
IsPast(e, now) == now > e.added + ExpFactor(e.valid)

Without(f, i) == [j \in DOMAIN f \ {i} |-> f[j]]
With(f, i, e) == [j \in DOMAIN f \cup {i} |-> IF j = i THEN e ELSE f[j]]

-----------------------------------------------------------------------------
(* sync.RWMutex *)

Goto(p, label) == pc' = [pc EXCEPT ![p] = label]

\* Mutant: a writer is let in although another one has announced itself.
LockAnyway(p) == TRUE

LockFree(p) == writer = None

\* Lock, first half: shut the door behind the readers inside.
Lock(p) ==
    /\ pc[p] = "lock"
    /\ LockFree(p)
    /\ writer' = p
    /\ Goto(p, "drain")
    /\ UNCHANGED <<clock, storeVars, readers, op, tgt, arg, reply, report,
                   sweepVars, historyVars>>

\* Lock, second half: the last reader has left.
\* Mutant: the writer does not wait for the readers inside.
DrainedAnyway == TRUE

Drained == readers = {}

Enter(p) ==
    /\ pc[p] = "drain"
    /\ Drained
    /\ Goto(p, "crit")
    /\ UNCHANGED <<clock, storeVars, lockVars, op, tgt, arg, reply, report,
                   sweepVars, historyVars>>

\* Mutant: the readers that queued up are forgotten.
NobodyAwaiting == {}

Awaiting == {q \in Threads : pc[q] = "parked"}

\* Unlock; the call returns.
Unlock(p) ==
    /\ pc[p] = "unlock"
    /\ writer' = None
    /\ readers' = readers \cup Awaiting
    /\ pc' = [q \in Threads |-> IF q = p THEN "idle"
                                ELSE IF q \in Awaiting THEN "read"
                                ELSE pc[q]]
    /\ UNCHANGED <<clock, storeVars, op, tgt, arg, reply, report,
                   sweepVars, historyVars>>

\* RLock: a reader that finds a writer announced waits for its Unlock.
RLock(p) ==
    /\ pc[p] = "rlock"
    /\ IF writer = None
       THEN readers' = readers \cup {p} /\ Goto(p, "read")
       ELSE UNCHANGED readers /\ Goto(p, "parked")
    /\ UNCHANGED <<clock, storeVars, writer, op, tgt, arg, reply, report,
                   sweepVars, historyVars>>

RUnlock(p) ==
    /\ pc[p] = "runlock"
    /\ readers' = readers \ {p}
    /\ Goto(p, "idle")
    /\ UNCHANGED <<clock, storeVars, writer, op, tgt, arg, reply, report,
                   sweepVars, historyVars>>

-----------------------------------------------------------------------------
(* AddEntry *)

\* A call begins: its locals are new, the results of the last one forgotten.
Call(p, name, i, local, how, label) ==
    /\ pc[p] = "idle"
    /\ op' = [op EXCEPT ![p] = name]
    /\ tgt' = [tgt EXCEPT ![p] = i]
    /\ arg' = [arg EXCEPT ![p] = local]
    /\ report' = [report EXCEPT ![p] = None]
    /\ reply' = [reply EXCEPT ![p] = how]
    /\ Goto(p, label)

Answer(p, how) == reply' = [reply EXCEPT ![p] = how]

\* Mutant: only the empty secret is refused.
OnlyEmpty(bytes) == bytes = 0

Unacceptable(bytes) == bytes = 0 \/ bytes > MaxSecretLen

\* ErrEmptySecret, ErrSecretTooLong: refused before the mutex is touched.
RejectAdd(p, bytes) ==
    /\ created < MaxCreates
    /\ Unacceptable(bytes)
    /\ Call(p, "add", None, None, "rejected", "idle")
    /\ UNCHANGED <<clock, storeVars, lockVars, sweepVars, historyVars>>

ClicksGranted(n) == IF n <= 0 THEN defaultMaxClicks ELSE n

DaysGranted(n) == IF n <= 0 THEN DefaultValidity ELSE n

\* The defaults are filled in and the date is taken before Lock, so an entry
\* may be dated earlier than the moment it becomes visible.
BeginAdd(p, bytes, clicks, days, i) ==
    /\ created < MaxCreates
    /\ ~Unacceptable(bytes)
    /\ LET e == [bytes |-> bytes, max |-> ClicksGranted(clicks), clicks |-> 0,
                added |-> clock, valid |-> DaysGranted(days)]
       IN  Call(p, "add", i, e, "none", "lock")
    /\ UNCHANGED <<clock, storeVars, lockVars, sweepVars, historyVars>>

\* What newID can yield after the check against the live ids.  The ids are
\* 32 bytes from the CSPRNG: one that was used before, or that a caller
\* chose, is assumed never to be drawn.
FreshIds == {i \in Ids \ CallerIds : i \notin DOMAIN entries /\ budget[i] = 0}

\* Mutant: off by one.
FullBeyond(i) == i \notin DOMAIN entries /\ Cardinality(DOMAIN entries) > Capacity

IsFull(i) == i \notin DOMAIN entries /\ Cardinality(DOMAIN entries) >= Capacity

\* The id is settled: the caller's, or a free one.
AddReserve(p, i) ==
    /\ pc[p] = "crit" /\ op[p] = "add"
    /\ i \in IF tgt[p] = None THEN FreshIds ELSE {tgt[p]}
    /\ IF IsFull(i)
       THEN Answer(p, "full") /\ Goto(p, "unlock") /\ UNCHANGED tgt
       ELSE /\ tgt' = [tgt EXCEPT ![p] = i]
            /\ Goto(p, "write") /\ UNCHANGED reply
    /\ UNCHANGED <<clock, storeVars, lockVars, op, arg, report, sweepVars,
                   historyVars>>

\* rand.Read failed, or ten candidates in a row were taken.
AddNoId(p) ==
    /\ pc[p] = "crit" /\ op[p] = "add"
    /\ tgt[p] = None
    /\ Answer(p, "noid") /\ Goto(p, "unlock")
    /\ UNCHANGED <<clock, storeVars, lockVars, op, tgt, arg, report, sweepVars,
                   historyVars>>

AddInsert(p) ==
    LET i == tgt[p]
    IN  /\ pc[p] = "write" /\ op[p] = "add"
        /\ entries' = With(entries, i, arg[p])
        /\ created' = created + 1
        /\ replaced' = IF i \in DOMAIN entries THEN replaced + 1 ELSE replaced
        /\ budget' = [budget EXCEPT ![i] = arg[p].max]
        /\ views' = [views EXCEPT ![i] = 0]
        /\ Answer(p, "created") /\ Goto(p, "unlock")
        /\ UNCHANGED <<clock, claimed, expired, lockVars, op, tgt, arg, report,
                       sweepVars, burned>>

-----------------------------------------------------------------------------
(* Claim *)

BeginClaim(p, i) ==
    /\ Call(p, "claim", i, None, "none", "lock")
    /\ UNCHANGED <<clock, storeVars, lockVars, sweepVars, historyVars>>

\* entry, ok := st.entries[id]; entry.Clicks++ on the local copy.
ClaimLookup(p) ==
    /\ pc[p] = "crit" /\ op[p] = "claim"
    /\ IF tgt[p] \in DOMAIN entries
       THEN /\ arg' = [arg EXCEPT ![p] =
                         [entries[tgt[p]] EXCEPT !.clicks = @ + 1]]
            /\ Goto(p, "write") /\ UNCHANGED reply
       ELSE Answer(p, "miss") /\ Goto(p, "unlock") /\ UNCHANGED arg
    /\ UNCHANGED <<clock, storeVars, lockVars, op, tgt, report, sweepVars,
                   historyVars>>

\* Mutant: the entry stays for one more click than it was created with.
OutlivesTooLong(e) == e.clicks <= e.max

Outlives(e) == e.clicks < e.max

\* Mutant: a claim is counted on the path that keeps the entry only.
ClaimedIfKept(e) == IF Outlives(e) THEN claimed + 1 ELSE claimed

ClaimTotal(e) == claimed + 1

ClaimCount(p) ==
    LET i == tgt[p]
    IN  /\ pc[p] = "write" /\ op[p] = "claim"
        /\ entries' = IF Outlives(arg[p]) THEN With(entries, i, arg[p])
                                          ELSE Without(entries, i)
        /\ burned' = IF Outlives(arg[p]) THEN burned ELSE burned + 1
        /\ claimed' = ClaimTotal(arg[p])
        /\ views' = [views EXCEPT ![i] = views[i] + 1]
        /\ Answer(p, "secret") /\ Goto(p, "unlock")
        /\ UNCHANGED <<clock, created, expired, lockVars, op, tgt, arg, report,
                       sweepVars, budget, replaced>>

-----------------------------------------------------------------------------
(* GetEntry and Stats *)

BeginGet(p, i) ==
    /\ Call(p, "get", i, None, "none", "rlock")
    /\ UNCHANGED <<clock, storeVars, lockVars, sweepVars, historyVars>>

GetRead(p) ==
    /\ pc[p] = "read" /\ op[p] = "get"
    /\ IF tgt[p] \in DOMAIN entries
       THEN arg' = [arg EXCEPT ![p] = entries[tgt[p]]] /\ Answer(p, "meta")
       ELSE Answer(p, "miss") /\ UNCHANGED arg
    /\ Goto(p, "runlock")
    /\ UNCHANGED <<clock, storeVars, lockVars, op, tgt, report, sweepVars,
                   historyVars>>

BeginStats(p) ==
    /\ Call(p, "stats", None, None, "none", "rlock")
    /\ UNCHANGED <<clock, storeVars, lockVars, sweepVars, historyVars>>

StatsCount(p) ==
    /\ pc[p] = "read" /\ op[p] = "stats"
    /\ report' = [report EXCEPT ![p] =
                    [live |-> Cardinality(DOMAIN entries), created |-> created,
                     claimed |-> claimed, expired |-> expired, listed |-> 0]]
    /\ Goto(p, "list")
    /\ UNCHANGED <<clock, storeVars, lockVars, op, tgt, arg, reply, sweepVars,
                   historyVars>>

\* The loop over the entries, and the sort.
StatsList(p) ==
    /\ pc[p] = "list" /\ op[p] = "stats"
    /\ report' = [report EXCEPT ![p].listed = Cardinality(DOMAIN entries)]
    /\ Answer(p, "report") /\ Goto(p, "runlock")
    /\ UNCHANGED <<clock, storeVars, lockVars, op, tgt, arg, sweepVars,
                   historyVars>>

-----------------------------------------------------------------------------
(* expireOnce and Expiry *)

\* Expiry calls expireOnce(time.Now()) again and again; now is read before
\* the mutex is taken.
\* Mutant: now was read once, before the loop.
TimeOfFirstSweep == sweepNow

TimeOfSweep == clock

BeginSweep ==
    /\ Call(Sweeper, "sweep", None, None, "none", "lock")
    /\ sweepNow' = TimeOfSweep
    /\ UNCHANGED <<clock, storeVars, lockVars, swept, historyVars>>

\* The loop body, for an entry past its validity; the order is the map's.
SweepDelete(i) ==
    /\ pc[Sweeper] = "crit"
    /\ i \in DOMAIN entries
    /\ IsPast(entries[i], sweepNow)
    /\ entries' = Without(entries, i)
    /\ swept' = swept + 1
    /\ UNCHANGED <<clock, created, claimed, expired, lockVars, callVars,
                   sweepNow, historyVars>>

\* Mutant: the count of the sweep is dropped.
SweepTotalLost(n) == expired

SweepTotal(n) == expired + n

SweepEnd ==
    /\ pc[Sweeper] = "crit"
    /\ \A i \in DOMAIN entries : ~IsPast(entries[i], sweepNow)
    /\ expired' = SweepTotal(swept)
    /\ swept' = 0
    /\ Goto(Sweeper, "unlock")
    /\ UNCHANGED <<clock, entries, created, claimed, lockVars, op, tgt, arg,
                   reply, report, sweepNow, historyVars>>

-----------------------------------------------------------------------------

Init ==
    /\ clock = 0
    /\ entries = [i \in {} |-> None]
    /\ created = 0 /\ claimed = 0 /\ expired = 0
    /\ writer = None /\ readers = {}
    /\ pc = [p \in Threads |-> "idle"]
    /\ op = [p \in Threads |-> "none"]
    /\ tgt = [p \in Threads |-> None]
    /\ arg = [p \in Threads |-> None]
    /\ reply = [p \in Threads |-> "none"]
    /\ report = [p \in Threads |-> None]
    /\ sweepNow = 0 /\ swept = 0
    /\ budget = [i \in Ids |-> 0]
    /\ views = [i \in Ids |-> 0]
    /\ burned = 0 /\ replaced = 0

Tick ==
    /\ clock < MaxTime
    /\ clock' = clock + 1
    /\ UNCHANGED <<storeVars, lockVars, callVars, sweepVars, historyVars>>

\* A handler calls one of the exported methods.
Request(p) ==
    \/ \E bytes \in SecretLens : RejectAdd(p, bytes)
    \/ \E bytes \in SecretLens, clicks \in ClickArgs, days \in DayArgs,
          i \in CallerIds \cup {None} : BeginAdd(p, bytes, clicks, days, i)
    \/ \E i \in Ids : BeginClaim(p, i) \/ BeginGet(p, i)
    \/ BeginStats(p)

\* The steps of a call that only the goroutine's own progress is needed for.
Proceed(p) ==
    \/ Enter(p) \/ Unlock(p) \/ RLock(p) \/ RUnlock(p)
    \/ \E i \in Ids : AddReserve(p, i)
    \/ AddNoId(p) \/ AddInsert(p)
    \/ ClaimLookup(p) \/ ClaimCount(p)
    \/ GetRead(p) \/ StatsCount(p) \/ StatsList(p)

SweepStep == (\E i \in Ids : SweepDelete(i)) \/ SweepEnd

Next ==
    \/ Tick
    \/ \E p \in Goroutines : Request(p)
    \/ BeginSweep
    \/ \E p \in Threads : Lock(p) \/ Proceed(p)
    \/ SweepStep

Spec == Init /\ [][Next]_vars

\* A goroutine that can run does run.  A waiting Lock is served in the end
\* even when others keep asking: sync.Mutex hands over to a waiter it has
\* starved for a millisecond.  Expiry loops for as long as the process lives.
\* Nobody has to call anything.
Fairness ==
    /\ \A p \in Threads : SF_vars(Lock(p)) /\ WF_vars(Proceed(p))
    /\ WF_vars(BeginSweep) /\ WF_vars(SweepStep)

FairSpec == Spec /\ Fairness

-----------------------------------------------------------------------------
(* Properties *)

TypeOK ==
    /\ clock \in Nat
    /\ DOMAIN entries \subseteq Ids
    /\ entries \in [DOMAIN entries -> Entry]
    /\ created \in Nat /\ claimed \in Nat /\ expired \in Nat
    /\ writer \in Threads \cup {None} /\ readers \subseteq Threads
    /\ pc \in [Threads -> {"idle", "lock", "drain", "crit", "write", "unlock",
                           "rlock", "parked", "read", "list", "runlock"}]
    /\ op \in [Threads -> {"none", "add", "claim", "get", "stats", "sweep"}]
    /\ tgt \in [Threads -> Ids \cup {None}]
    /\ arg \in [Threads -> Entry \cup {None}]
    /\ reply \in [Threads -> {"none", "rejected", "full", "noid", "created",
                              "miss", "secret", "meta", "report"}]
    /\ report \in [Threads -> Report \cup {None}]
    /\ sweepNow \in Nat /\ swept \in Nat
    /\ budget \in [Ids -> Nat] /\ views \in [Ids -> Nat]
    /\ burned \in Nat /\ replaced \in Nat

Writing(p) == pc[p] \in {"crit", "write"}
Reading(p) == pc[p] \in {"read", "list"}

\* While one goroutine may write the map, nobody else reads or writes it: the
\* comment on SecretStore calls anything else a data race that aborts the
\* process.  mu.Lock and mu.RLock in every method are what prevents it.
NoConcurrentMapAccess ==
    \A p, q \in Threads : Writing(p) /\ (Writing(q) \/ Reading(q)) => p = q

\* What p holds of the mutex lets it go on: its next step waits for nobody.
Holds(p) == Writing(p) \/ Reading(p) \/ pc[p] \in {"unlock", "runlock"}

\* Whom p waits for.  Nobody wakes a parked reader but the Unlock of a writer.
WaitsFor(p) ==
    CASE pc[p] = "lock"   -> {writer} \ {None}
      [] pc[p] = "drain"  -> readers
      [] pc[p] = "parked" -> {writer}
      [] OTHER            -> {}

\* No wait is a circle or for nothing: it is for somebody who holds the mutex,
\* or for a writer at the door who waits only for such.  (A method that kept
\* RLock, or that took it twice, would stop everybody else for good.)
WaitsEnd ==
    \A p \in Threads : \A q \in WaitsFor(p) :
        /\ q \in Threads \ {p}
        /\ Holds(q) \/ (pc[q] = "drain" /\ \A r \in readers : Holds(r))

\* A secret is handed out at most as often as it was created for, and its
\* Clicks counts exactly the times it was.  Claim reads the entry, counts the
\* click and writes it back in separate steps.
ViewsWithinBudget ==
    /\ \A i \in Ids : views[i] <= budget[i]
    /\ \A i \in DOMAIN entries :
          /\ entries[i].max = budget[i]
          /\ entries[i].clicks = views[i]
          /\ views[i] < budget[i]

Claimed(p) == op[p] = "claim" /\ reply[p] = "secret"

\* Two callers that got the same secret got different views of it: of a link
\* for one click at most one of them, as the comment on Claim demands.
DistinctReveals ==
    \A p, q \in Goroutines :
        Claimed(p) /\ Claimed(q) /\ p # q
            /\ tgt[p] = tgt[q] /\ tgt[p] \notin CallerIds
        => arg[p].clicks # arg[q].clicks

\* AddEntry compares the number of entries with the limit and inserts later;
\* no interleaving of adders gets past the limit.
CapacityHeld == Cardinality(DOMAIN entries) <= Capacity

\* Every byte the store holds: the entry it belongs to and its place there.
SecretBytes == UNION {{i} \X (1..entries[i].bytes) : i \in DOMAIN entries}

\* The two caps together bound the memory that secrets take, whatever callers
\* do (the comment on DefaultMaxEntries).
MemoryBounded == Cardinality(SecretBytes) <= Capacity * MaxSecretLen

\* Every secret ever created is live, was burned by its last click, expired,
\* or was replaced under an id its caller chose: the counters of Stats lose
\* none of them, and count no expiry twice.  Nor do they lose a view that was
\* handed out, whichever way Claim then goes and whatever is swept later.
EntriesBalance ==
    created = Cardinality(DOMAIN entries) + burned + expired + swept + replaced

\* The views handed out of each link, as it was last stored.
ViewsUsed == UNION {{i} \X (1..views[i]) : i \in Ids}

NothingLost == EntriesBalance /\ Cardinality(ViewsUsed) <= claimed

\* What Stats returns describes one moment: its counters add up and the list
\* has as many entries as it says are live, although both are read one after
\* the other.
ReportAddsUp ==
    \A p \in Goroutines :
        op[p] = "stats" /\ reply[p] = "report" =>
            /\ report[p].listed = report[p].live
            /\ report[p].live + report[p].expired <= report[p].created

\* An entry disappears only because its last click was used or because its
\* validity, in days, is over; never earlier (expireOnce's comment).
GoneOnlyWhenDue ==
    [][\A i \in Ids :
          i \in DOMAIN entries /\ i \notin DOMAIN entries' =>
              \/ views'[i] = budget[i]
              \/ clock > entries[i].added + Day * entries[i].valid]_vars

\* The README says a secret becomes invalid after n days even if not clicked.
\* Claim does not look at the date: until the next sweep it still answers.
NoLateReveal ==
    [][\A i \in DOMAIN entries :
          views'[i] = views[i] + 1 =>
              clock <= entries[i].added + Day * entries[i].valid]_vars

\* What the entries' max and valid can be.
Budgets == {ClicksGranted(n) : n \in ClickArgs}
Validities == {DaysGranted(n) : n \in DayArgs}

\* To its callers the store is the abstract OneTimeLink, in which a link is
\* created, viewed and expired in one step each.
Link == INSTANCE OneTimeLink WITH live <- DOMAIN entries

ImplementsOneTimeLink == Link!Spec

\* Every call returns, however many others queue up for the mutex: no path
\* through a method leaves it locked or leaves a reader behind.
EveryCallReturns ==
    \A p \in Goroutines : pc[p] # "idle" ~> pc[p] = "idle"

\* An entry whose validity is over is gone in the end, even if nobody clicks
\* it.  (An id its caller chose can be filled again, so it is not promised.)
ExpiredEntriesGo ==
    \A i \in Ids \ CallerIds :
        (i \in DOMAIN entries /\ IsPast(entries[i], clock))
            ~> i \notin DOMAIN entries
=============================================================================
