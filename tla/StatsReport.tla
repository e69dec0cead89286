------------------------------ MODULE StatsReport ------------------------------
(***************************************************************************)
(* What an operator learns about the secrets a process holds: the reports  *)
(* of the stats socket (admin.Snapshot, admin.Fetch), what "gjfy stats"    *)
(* makes of them (cmd/stats.go), and the line an orderly stop leaves in    *)
(* the journal (stopNotice), composed with what changes the store          *)
(* meanwhile: requests, the sweep, a stop, a crash and the next start.     *)
(*                                                                         *)
(* A method of the store is one step here, as SecretStore shows it to be.  *)
(* A tick of the clock is a minute, the least the command prints.          *)
(***************************************************************************)
EXTENDS Integers, FiniteSets

CONSTANTS
    Operators,      \* runs of "gjfy stats" at a time
    Requests,       \* requests in flight at a time
    MaxEntries,     \* SecretStore.maxEntries
    Budgets,        \* MaxClicks of the entries created
    Validities,     \* their ValidFor, in days
    Hour,           \* minutes in an hour
    DayHours,       \* hours in a day
    None,           \* not written
    MaxTime,        \* bound: the clock stops here
    MaxCreates,     \* bound: secrets created by one process
    MaxLate         \* bound: requests accepted once the number is written

ASSUME ReportAssumption ==
    /\ IsFiniteSet(Requests)
    /\ MaxEntries \in Nat \ {0}
    /\ Budgets \subseteq Nat \ {0} /\ Validities \subseteq Nat \ {0}
    /\ Hour \in Nat \ {0} /\ DayHours \in Nat \ {0}
    /\ None \notin Int
    /\ MaxTime \in Nat /\ MaxCreates \in Nat /\ MaxLate \in Nat

VARIABLES
    clock,      \* time.Now
    entries,    \* SecretStore.entries; numbered as they are created
    created, claimed, expired,  \* its counters
    started,    \* startTime
    stop,       \* how far the process is from its end
    noted,      \* the number stopNotice wrote
    inflight,   \* requests that have not yet done what they do to the store
    fetch,      \* where each run of gjfy stats is
    rep,        \* the report it got
    until,      \* the moment the next expiry it shows, "(in ...)", leads to
    \* History:
    burned,     \* secrets deleted by their last click
    loose       \* requests and sweeps that may change the noted number

storeVars == <<entries, created, claimed, expired>>
opVars == <<fetch, rep, until>>
vars == <<clock, storeVars, started, stop, noted, inflight, opVars,
          burned, loose>>

Live == DOMAIN entries

Day == Hour * DayHours

\* What Stats returns and Snapshot passes on, for the secrets S.  An EntryMeta
\* has no id; here its expiry is kept under its number, for the properties.
Report(S) == [started : Nat, live : Nat, created : Nat, claimed : Nat,
              expired : Nat, entries : [S -> Int]]

IsReport(x) == \E S \in SUBSET (1..MaxCreates) : x \in Report(S)

-----------------------------------------------------------------------------
(* The process and its store *)

\* Mutant: every process names the same start.
StartedAtZero == 0

\* startTime, a variable of the package; restarts take time.
StartTime == clock

Start ==
    /\ stop = "gone" /\ clock > started
    /\ started' = StartTime
    /\ entries' = [i \in {} |-> None]
    /\ created' = 0 /\ claimed' = 0 /\ expired' = 0
    /\ stop' = "up" /\ noted' = None
    /\ inflight' = {} /\ loose' = 0
    /\ burned' = {}
    /\ UNCHANGED <<clock, opVars>>

\* Until srv.Shutdown closes the listener, requests are accepted.
\* Mutant: the listener stays open while the requests drain.
ListenerLeftOpen == stop # "gone"

Accepting == stop \in {"up", "close", "drain"}

Accept(r) ==
    /\ Accepting /\ r \notin inflight
    /\ noted = None \/ loose < MaxLate
    /\ inflight' = inflight \cup {r}
    /\ loose' = IF noted # None /\ stop # "wait" THEN loose + 1 ELSE loose
    /\ UNCHANGED <<clock, storeVars, started, stop, noted, opVars, burned>>

\* A request acts once on the store, until the process is gone.
Acts(r) ==
    /\ stop # "gone" /\ r \in inflight
    /\ inflight' = inflight \ {r}

\* AddEntry
Create(r) ==
    /\ Acts(r)
    /\ created < MaxCreates /\ Cardinality(Live) < MaxEntries
    /\ created' = created + 1
    /\ \E max \in Budgets, valid \in Validities :
          entries' = [i \in Live \cup {created'} |->
                        IF i \in Live THEN entries[i]
                        ELSE [left |-> max, expires |-> clock + Day * valid]]
    /\ UNCHANGED <<clock, claimed, expired, started, stop, noted, opVars, burned,
                   loose>>

\* Mutant: the last click is not noticed.
NeverLast(i) == FALSE

LastClick(i) == entries[i].left = 1

\* Claim
Claim(r, i) ==
    /\ Acts(r) /\ i \in Live
    /\ IF LastClick(i)
       THEN /\ entries' = [j \in Live \ {i} |-> entries[j]]
            /\ burned' = burned \cup {i}
       ELSE /\ entries' = [entries EXCEPT ![i].left = @ - 1]
            /\ UNCHANGED burned
    /\ claimed' = claimed + 1
    /\ UNCHANGED <<clock, created, expired, started, stop, noted, opVars,
                   loose>>

\* A request that leaves the store as it is.
Other(r) ==
    /\ Acts(r)
    /\ UNCHANGED <<clock, storeVars, started, stop, noted, opVars, burned,
                   loose>>

\* expireOnce
Past == {i \in Live : clock > entries[i].expires}

Sweep ==
    /\ stop # "gone"
    /\ entries' = [i \in Live \ Past |-> entries[i]]
    /\ expired' = expired + Cardinality(Past)
    /\ loose' = IF noted # None THEN loose + Cardinality(Past) ELSE loose
    /\ UNCHANGED <<clock, created, claimed, started, stop, noted, inflight,
                   opVars, burned>>

-----------------------------------------------------------------------------
(* shutdownWhen *)

Stop(from, to) ==
    /\ stop = from /\ stop' = to
    /\ UNCHANGED <<clock, storeVars, started, opVars, burned>>

\* A TERM comes: the number is taken before anything is closed.
Notice ==
    /\ Stop("up", "close")
    /\ noted' = Cardinality(Live)
    /\ loose' = Cardinality(inflight)
    /\ UNCHANGED inflight

CloseStats == Stop("close", "drain") /\ UNCHANGED <<inflight, noted, loose>>

BeginDrain == Stop("drain", "wait") /\ UNCHANGED <<inflight, noted, loose>>

\* Shutdown returns, drained or not, and runServer after it.
Exit ==
    /\ Stop("wait", "gone") /\ inflight' = {}
    /\ UNCHANGED <<noted, loose>>

\* SIGKILL, a panic, log.Fatal, a second SIGTERM after signal.Stop.
Crash ==
    /\ stop # "gone"
    /\ Stop(stop, "gone") /\ inflight' = {}
    /\ UNCHANGED <<noted, loose>>

-----------------------------------------------------------------------------
(* gjfy stats *)

Answering == stop \in {"up", "close"}

Goto(o, label) == fetch' = [fetch EXCEPT ![o] = label]

\* Snapshot
Current ==
    [started |-> started, live |-> Cardinality(Live), created |-> created,
     claimed |-> claimed, expired |-> expired,
     entries |-> [i \in Live |-> entries[i].expires]]

\* Fetch and Handler.  Where nobody listens the command ends with a hint.
Fetch(o) ==
    /\ fetch[o] = "idle" /\ Answering
    /\ rep' = [rep EXCEPT ![o] = Current]
    /\ Goto(o, "sent")
    /\ UNCHANGED <<clock, storeVars, started, stop, noted, inflight, until,
                   burned, loose>>

\* Mutant: the last expiry in the list.
IsLast(list, t) == \A i \in DOMAIN list : list[i] <= t

\* t, a time in the list, is the one nextExpiry finds.
IsNext(list, t) == \A i \in DOMAIN list : t <= list[i]

\* What is left of a duration that is not over when it is printed: two units at
\* most.
humanDuration(d) ==
    LET days == (d \div Hour) \div DayHours
        hours == (d \div Hour) % DayHours
        minutes == d % Hour
    IN  IF days > 0 THEN days * Day + hours * Hour
        ELSE IF hours > 0 THEN hours * Hour + minutes
        ELSE minutes

\* By the clock of the moment it is printed; an expiry that is over by then is
\* "now" and promises nothing.
Promise(t) == IF t < clock THEN None ELSE clock + humanDuration(t - clock)

\* formatReport; without entries there is no next expiry.
Show(o) ==
    LET list == rep[o].entries
    IN  /\ fetch[o] = "sent"
        /\ Goto(o, "shown")
        /\ \/ DOMAIN list = {} /\ UNCHANGED until
           \/ \E i \in DOMAIN list :
                 /\ IsNext(list, list[i])
                 /\ until' = [until EXCEPT ![o] = Promise(list[i])]
        /\ UNCHANGED <<clock, storeVars, started, stop, noted, inflight, rep,
                       burned, loose>>

\* The answer does not come: the process is gone, or the client's timeout.
\* Or the operator has seen enough.
Leave(o) ==
    /\ fetch[o] # "idle"
    /\ Goto(o, "idle")
    /\ rep' = [rep EXCEPT ![o] = None]
    /\ until' = [until EXCEPT ![o] = None]
    /\ UNCHANGED <<clock, storeVars, started, stop, noted, inflight, burned,
                   loose>>

-----------------------------------------------------------------------------

Tick ==
    /\ clock < MaxTime
    /\ clock' = clock + 1
    /\ UNCHANGED <<storeVars, started, stop, noted, inflight, opVars, burned,
                   loose>>

Init ==
    /\ clock = 0 /\ started = 0
    /\ entries = [i \in {} |-> None]
    /\ created = 0 /\ claimed = 0 /\ expired = 0
    /\ stop = "up" /\ noted = None /\ inflight = {}
    /\ fetch = [o \in Operators |-> "idle"]
    /\ rep = [o \in Operators |-> None]
    /\ until = [o \in Operators |-> None]
    /\ burned = {} /\ loose = 0

Next ==
    \/ Tick \/ Start \/ Sweep
    \/ Notice \/ CloseStats \/ BeginDrain \/ Exit \/ Crash
    \/ \E r \in Requests :
          \/ Accept(r) \/ Create(r) \/ Other(r)
          \/ \E i \in Live : Claim(r, i)
    \/ \E o \in Operators : Fetch(o) \/ Show(o) \/ Leave(o)

Spec == Init /\ [][Next]_vars

-----------------------------------------------------------------------------
(* Properties *)

TypeOK ==
    /\ clock \in Nat /\ started \in 0..clock
    /\ Live \subseteq 1..created
    /\ entries \in [Live -> [left : Nat \ {0}, expires : Int]]
    /\ created \in 0..MaxCreates /\ claimed \in Nat /\ expired \in Nat
    /\ stop \in {"up", "close", "drain", "wait", "gone"}
    /\ noted \in Nat \cup {None}
    /\ inflight \subseteq Requests
    /\ fetch \in [Operators -> {"idle", "sent", "shown"}]
    /\ DOMAIN rep = Operators
    /\ \A o \in Operators : IF fetch[o] = "idle" THEN rep[o] = None
                                                ELSE IsReport(rep[o])
    /\ until \in [Operators -> Int \cup {None}]
    /\ burned \subseteq 1..created /\ loose \in Nat

\* While the time that gjfy stats promised lasts, none of the secrets it listed
\* expires, however late it printed what it had fetched: the report computes
\* the expiry apart from the sweep, and the command rounds what is left.
PromiseKept ==
    \A o \in Operators :
        /\ fetch[o] = "shown" /\ rep[o].started = started /\ stop # "gone"
        /\ until[o] # None /\ clock <= until[o]
        => DOMAIN rep[o].entries \subseteq Live \cup burned

\* b can have been taken after a: no counter went back, and what it holds more
\* or less is accounted for by what was created, expired and read since.
Follows(b, a) ==
    LET more == b.created - a.created
        less == b.expired - a.expired
        read == b.claimed - a.claimed
    IN  /\ more >= 0 /\ less >= 0 /\ read >= 0
        /\ b.live <= a.live + more - less
        /\ b.live >= a.live + more - less - read

\* A report and every later one that names the same start are of one process
\* and of two moments of it; over a restart, of which nothing else tells,
\* started_at differs.  (What a later report will say is Current.)
ReportsAgree ==
    \A o \in Operators :
        rep[o] # None /\ rep[o].started = started => Follows(Current, rep[o])

\* The journal's number differs from what is lost in the end by no more than
\* the requests that were let in before the listener was closed, one secret
\* each, and the expiries (the comment on stopNotice: a reveal shifts it by one).
LossExplained ==
    noted # None =>
        /\ noted - Cardinality(Live) <= loose
        /\ Cardinality(Live) - noted <= loose

Promised == INSTANCE ProcessStop WITH noted <- noted # None

\* The stop that the reports and the journal's number are set against is the
\* one a server process performs (shutdownWhen).
ImplementsStop == Promised!Spec
=============================================================================
