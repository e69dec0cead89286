------------------------------ MODULE RateLimiter ------------------------------
(***************************************************************************)
(* misc/ratelimit.go: the token bucket per client address in front of the  *)
(* routes that create or read secrets.                                     *)
(*                                                                         *)
(* Allow reads the clock first and takes the mutex afterwards, so calls    *)
(* enter in another order than their times are in, and the limiter sees    *)
(* time go backwards.  Everything it does under the mutex touches nothing  *)
(* else and is one step here.                                              *)
(*                                                                         *)
(* A tick refills one unit; a token is worth as many units as there are    *)
(* ticks in the interval, so that every quantity is an integer.            *)
(***************************************************************************)
EXTENDS Integers, FiniteSets

CONSTANTS
    Goroutines,     \* the goroutines that call Allow
    Keys,           \* client addresses
    BurstArg,       \* first argument of NewLimiter
    IntervalArg,    \* second argument of NewLimiter, in ticks
    Second,         \* ticks in a second
    GcPeriod,       \* Limiter.gcPeriod
    MaxKeys,        \* Limiter.maxKeys
    MaxLag,         \* bound: a call gets the mutex this soon after its now
    MaxTime         \* bound: the clock stops here

ASSUME LimiterAssumption ==
    /\ BurstArg \in Int /\ IntervalArg \in Int
    /\ Second \in Nat \ {0} /\ GcPeriod \in Nat \ {0} /\ MaxKeys \in Nat
    /\ MaxLag \in Nat /\ MaxTime \in Nat
    /\ IsFiniteSet(Keys)

VARIABLES
    clock,
    buckets,    \* Limiter.buckets, a partial function on Keys
    lastGC,
    pc, key, now,   \* each goroutine's call of Allow and its locals
    \* History, for the properties only:
    verdict,    \* what the goroutine's last call returned
    debt,       \* debt[k]: units k was granted and an ideal bucket has not
                \* refilled yet
    drops,      \* drops[k]: how often gc dropped k's bucket
    heard       \* heard[k]: when k's bucket was last asked for a token

callVars == <<pc, key, now>>
vars == <<clock, buckets, lastGC, callVars, verdict, debt, drops, heard>>

-----------------------------------------------------------------------------
(* NewLimiter *)

Burst == IF BurstArg < 1 THEN 1 ELSE BurstArg
Interval == IF IntervalArg <= 0 THEN Second ELSE IntervalArg

Cost == Interval            \* one token
Cap == Burst * Interval     \* a full bucket

\* time.Duration(l.burst/l.rate) cuts off the fraction of a second.
Idle == (Cap \div Second) * Second

-----------------------------------------------------------------------------
(* Allow *)

\* Mutant: the bucket is not capped at the burst.
RefillUncapped(b, t) == b.tokens + (t - b.seen)

\* Mutant: what came in since the last call is lost.
RefillNothing(b, t) == b.tokens

Refill(b, t) ==
    LET sum == b.tokens + (t - b.seen) IN IF sum > Cap THEN Cap ELSE sum

\* Mutant: off by one.
TableOverfull(ks) == Cardinality(ks) > MaxKeys

TableFull(ks) == Cardinality(ks) >= MaxKeys

\* gc: the buckets it drops when Allow is called with now = t.
GcDue(t) == t - lastGC >= GcPeriod
Stale(t) == {k \in DOMAIN buckets : GcDue(t) /\ t - buckets[k].seen > Idle}

Begin(g, k) ==
    /\ pc[g] = "idle"
    /\ pc' = [pc EXCEPT ![g] = "lock"]
    /\ key' = [key EXCEPT ![g] = k]
    /\ now' = [now EXCEPT ![g] = clock]
    /\ verdict' = [verdict EXCEPT ![g] = "none"]
    /\ UNCHANGED <<clock, buckets, lastGC, debt, drops, heard>>

\* What every call does under the mutex before it looks at its bucket.
Collect(g) ==
    /\ pc[g] = "lock"
    /\ pc' = [pc EXCEPT ![g] = "idle"]
    /\ lastGC' = IF GcDue(now[g]) THEN now[g] ELSE lastGC
    /\ drops' = [k \in Keys |-> IF k \in Stale(now[g]) THEN drops[k] + 1
                                                       ELSE drops[k]]
    /\ UNCHANGED <<clock, key, now>>

Kept(g) == DOMAIN buckets \ Stale(now[g])

\* Mutant: a full table turns away those it knows, too.
WithRoomOnly(g) == ~TableFull(Kept(g))

\* The client has a bucket, or there is room for one.
Served(g) == key[g] \in Kept(g) \/ ~TableFull(Kept(g))

\* The table is full of other clients: fail closed.
TurnAway(g) ==
    /\ Collect(g)
    /\ ~Served(g)
    /\ buckets' = [k \in Kept(g) |-> buckets[k]]
    /\ verdict' = [verdict EXCEPT ![g] = "full"]
    /\ UNCHANGED <<debt, heard>>

Tokens(g) == IF key[g] \in Kept(g) THEN Refill(buckets[key[g]], now[g]) ELSE Cap

SetBucket(g, n) ==
    /\ buckets' = [k \in Kept(g) \cup {key[g]} |->
                     IF k = key[g] THEN [tokens |-> n, seen |-> now[g]]
                                   ELSE buckets[k]]
    /\ heard' = [heard EXCEPT ![key[g]] = clock]

Refuse(g) ==
    /\ Collect(g)
    /\ Served(g)
    /\ Tokens(g) < Cost
    /\ SetBucket(g, Tokens(g))
    /\ verdict' = [verdict EXCEPT ![g] = "refused"]
    /\ UNCHANGED debt

Grant(g) ==
    /\ Collect(g)
    /\ Served(g)
    /\ Tokens(g) >= Cost
    /\ SetBucket(g, Tokens(g) - Cost)
    /\ verdict' = [verdict EXCEPT ![g] = "granted"]
    /\ debt' = [debt EXCEPT ![key[g]] = @ + Cost]

-----------------------------------------------------------------------------

\* lastGC is the zero Time, so the first call always collects.
Init ==
    /\ clock = 0
    /\ buckets = [k \in {} |-> 0]
    /\ lastGC = -GcPeriod
    /\ pc = [g \in Goroutines |-> "idle"]
    /\ key \in [Goroutines -> Keys] /\ now = [g \in Goroutines |-> 0]
    /\ verdict = [g \in Goroutines |-> "none"]
    /\ debt = [k \in Keys |-> 0] /\ drops = [k \in Keys |-> 0]
    /\ heard = [k \in Keys |-> -Idle - 1]

\* An ideal bucket refills all the time, whatever the limiter knows.
Tick ==
    /\ clock < MaxTime
    /\ \A g \in Goroutines : pc[g] = "lock" => clock - now[g] < MaxLag
    /\ clock' = clock + 1
    /\ debt' = [k \in Keys |-> IF debt[k] = 0 THEN 0 ELSE debt[k] - 1]
    /\ UNCHANGED <<buckets, lastGC, callVars, verdict, drops, heard>>

Next ==
    \/ Tick
    \/ \E g \in Goroutines :
          \/ \E k \in Keys : Begin(g, k)
          \/ TurnAway(g) \/ Refuse(g) \/ Grant(g)

Spec == Init /\ [][Next]_vars

-----------------------------------------------------------------------------
(* Properties *)

Bucket == [tokens : {n \in Int : n <= Cap}, seen : Nat]

TypeOK ==
    /\ clock \in Nat /\ lastGC \in Int
    /\ DOMAIN buckets \subseteq Keys
    /\ buckets \in [DOMAIN buckets -> Bucket]
    /\ pc \in [Goroutines -> {"idle", "lock"}]
    /\ key \in [Goroutines -> Keys] /\ now \in [Goroutines -> Nat]
    /\ verdict \in [Goroutines -> {"none", "full", "refused", "granted"}]
    /\ debt \in [Keys -> Nat] /\ drops \in [Keys -> Nat]
    /\ heard \in [Keys -> Int]

\* What one forgotten bucket can give away: the lag with which calls enter,
\* and the fraction of a second that Idle is too short.
GivenAway == 2 * MaxLag + (Cap - Idle)

\* In no stretch of time, however long, does a client get more than the burst
\* and what refills meanwhile: debt never exceeds a full bucket.  Calls that
\* enter late stretch this by their lag, and a bucket that gc forgets by
\* GivenAway; both are zero for a limiter of whole seconds under calls that
\* do not wait.
RateBounded == \A k \in Keys : debt[k] <= Cap + MaxLag + drops[k] * GivenAway

\* Allow returns false in two cases.  For want of a token: then the client has
\* not kept its rate, even when other calls' times arrive out of order and even
\* when its bucket was forgotten.  Because the table is full of others: that can
\* happen to a client that keeps its rate, but only to one the limiter has not
\* heard of for as long as a bucket takes to fill; known ones are not turned
\* away.
FairAdmission ==
    [][\A g \in Goroutines :
          /\ verdict'[g] = "refused" /\ verdict[g] # "refused" =>
                debt[key[g]] + MaxLag + Cost > Cap
          /\ verdict'[g] = "full" /\ verdict[g] # "full" =>
                clock - heard[key[g]] > Idle - MaxLag]_vars

\* "fail closed rather than letting an attacker grow it without bound"
TableBounded == Cardinality(DOMAIN buckets) <= MaxKeys

\* "gc drops buckets that have been full (i.e. idle) for a while": what gc
\* deletes would be full by now.
DroppedOnlyWhenFull ==
    [][\A k \in DOMAIN buckets : drops'[k] > drops[k] =>
          buckets[k].tokens + (clock - buckets[k].seen) >= Cap]_vars

\* What gc deletes had been idle for as many seconds as the bucket takes to
\* fill, whatever the order in which the calls entered: it would hold that much
\* by now, but for the lag.
DropsWasteLittle ==
    [][\A k \in DOMAIN buckets : drops'[k] > drops[k] =>
          buckets[k].tokens + (clock - buckets[k].seen) >= Idle - MaxLag]_vars
=============================================================================
