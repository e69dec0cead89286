--------------------------- MODULE RateLimiterProofs ---------------------------
(***************************************************************************)
(* What TLAPS proves of RateLimiter, for every burst, interval, lag and    *)
(* number of clients.  The argument compares the time at which the         *)
(* limiter's bucket is full again (FullAt) with the time at which an ideal *)
(* one is (clock + debt): the limiter's may be ahead only by the lag and   *)
(* by what gc gave away.                                                   *)
(***************************************************************************)
EXTENDS RateLimiter, FiniteSetTheorems, TLAPS

FullAt(k) == Cap - buckets[k].tokens + buckets[k].seen

\* A call that waits for the mutex has a time that is at most MaxLag old.
PendingOK ==
    \A g \in Goroutines : pc[g] = "lock" =>
        now[g] <= clock /\ clock <= now[g] + MaxLag

\* A bucket is never over-full; late calls take back at most the lag.
BucketsOK ==
    \A k \in DOMAIN buckets :
        /\ buckets[k].tokens <= Cap
        /\ buckets[k].tokens >= -MaxLag
        /\ buckets[k].tokens >= buckets[k].seen - clock
        /\ buckets[k].seen <= clock
        /\ FullAt(k) <= clock + debt[k]

\* The debt is covered by the bucket, or was given away with an earlier one.
DebtsOK ==
    \A k \in Keys :
        \/ debt[k] <= drops[k] * GivenAway
        \/ /\ k \in DOMAIN buckets
           /\ debt[k] <= FullAt(k) - clock + MaxLag + drops[k] * GivenAway

LimiterInv == TypeOK /\ PendingOK /\ BucketsOK /\ DebtsOK /\ RateBounded

LEMMA Sizes ==
  /\ Cost \in Nat \ {0} /\ Cap \in Nat \ {0} /\ Cost <= Cap
  /\ Idle \in Nat /\ Idle <= Cap /\ GivenAway \in Nat /\ MaxLag \in Nat
  <1>1. Burst \in Nat \ {0} /\ Interval \in Nat \ {0}
    BY LimiterAssumption DEF Burst, Interval
  <1>2. Cost \in Nat \ {0} /\ Cap \in Nat \ {0} /\ Cost <= Cap
    <2>. DEFINE b == Burst
                n == Interval
    <2>1. b >= 1 /\ n >= 1 /\ b \in Nat /\ n \in Nat
      BY <1>1
    <2>. HIDE DEF b, n
    <2>2. b * n \in Nat /\ b * n >= n
      BY <2>1
    <2>. QED
      BY <2>1, <2>2 DEF Cost, Cap, b, n
  <1>3. Idle \in Nat /\ Idle <= Cap
    <2>. DEFINE c == Cap
                s == Second
    <2>1. c \in Nat /\ s \in Nat /\ s > 0
      BY <1>2, LimiterAssumption
    <2>. HIDE DEF c, s
    <2>2. c \div s \in Nat /\ (c \div s) * s <= c
      BY <2>1
    <2>3. (c \div s) * s \in Nat
      BY <2>1, <2>2
    <2>. QED
      BY <2>2, <2>3 DEF Idle, c, s
  <1>. QED
    BY <1>2, <1>3, LimiterAssumption DEF GivenAway

\* Products with the constant are left alone by the arithmetic below.
LEMMA GiftGrows ==
  ASSUME NEW n \in Nat
  PROVE  /\ n * GivenAway \in Nat
         /\ (n + 1) * GivenAway = n * GivenAway + GivenAway
  BY Sizes

LEMMA LimiterInit == Init => LimiterInv
  <1> SUFFICES ASSUME Init PROVE LimiterInv
    OBVIOUS
  <1>1. TypeOK /\ PendingOK /\ BucketsOK
    BY LimiterAssumption, Sizes DEF Init, TypeOK, PendingOK, BucketsOK
  <1>2. \A k \in Keys : debt[k] = 0 /\ drops[k] = 0
    BY DEF Init
  <1>. QED
    BY <1>1, <1>2, Sizes DEF LimiterInv, DebtsOK, RateBounded

\* What gc leaves of a debt it forgets the bucket of.
LEMMA Forgotten ==
  ASSUME LimiterInv, NEW g \in Goroutines, pc[g] = "lock",
         NEW k \in Stale(now[g])
  PROVE  debt[k] <= (drops[k] + 1) * GivenAway
  <1>1. /\ k \in DOMAIN buckets /\ k \in Keys
        /\ now[g] - buckets[k].seen > Idle
    BY DEF Stale, LimiterInv, TypeOK
  <1>2. /\ buckets[k].tokens \in Int /\ buckets[k].seen \in Nat
        /\ debt[k] \in Nat /\ drops[k] \in Nat /\ now[g] \in Nat /\ clock \in Nat
    BY <1>1 DEF LimiterInv, TypeOK, Bucket
  <1>3. FullAt(k) - clock + MaxLag <= GivenAway
    BY <1>1, <1>2, Sizes
       DEF LimiterInv, BucketsOK, PendingOK, FullAt, GivenAway
  <1>4. FullAt(k) \in Int
    BY <1>2, Sizes DEF FullAt
  <1>. QED
    BY <1>1, <1>2, <1>3, <1>4, GiftGrows, Sizes DEF LimiterInv, DebtsOK

\* After gc every debt is still accounted for.
LEMMA AfterGc ==
  ASSUME LimiterInv, NEW g \in Goroutines, pc[g] = "lock", Collect(g),
         NEW k \in Keys
  PROVE  /\ drops'[k] \in Nat
         /\ drops[k] * GivenAway <= drops'[k] * GivenAway
         /\ \/ debt[k] <= drops'[k] * GivenAway
            \/ /\ k \in Kept(g)
               /\ debt[k] <= FullAt(k) - clock + MaxLag + drops'[k] * GivenAway
  <1>1. drops[k] \in Nat /\ drops'[k] = IF k \in Stale(now[g]) THEN drops[k] + 1
                                                              ELSE drops[k]
    BY DEF Collect, LimiterInv, TypeOK
  <1>2. CASE k \in Stale(now[g])
    BY <1>1, <1>2, Forgotten, GiftGrows, Sizes
  <1>3. CASE k \notin Stale(now[g])
    BY <1>1, <1>3, GiftGrows DEF LimiterInv, DebtsOK, Kept
  <1>. QED
    BY <1>2, <1>3

LEMMA CollectTypes ==
  ASSUME LimiterInv, NEW g \in Goroutines, Collect(g)
  PROVE  /\ pc' \in [Goroutines -> {"idle", "lock"}] /\ lastGC' \in Int
         /\ drops' \in [Keys -> Nat] /\ PendingOK'
         /\ clock' = clock /\ key' = key /\ now' = now
         /\ pc[g] = "lock" /\ now[g] \in Nat /\ now[g] <= clock
         /\ clock <= now[g] + MaxLag /\ key[g] \in Keys
         /\ Kept(g) \subseteq DOMAIN buckets
  BY DEF Collect, LimiterInv, TypeOK, PendingOK, Kept

\* The bucket after the refill: full at the same time as before, or now.
LEMMA Refilled ==
  ASSUME LimiterInv, NEW g \in Goroutines, Collect(g)
  PROVE  /\ Tokens(g) \in Int /\ Tokens(g) <= Cap
         /\ Tokens(g) >= now[g] - clock
         /\ Cap - Tokens(g) + now[g] <= clock + debt[key[g]]
         /\ key[g] \in Kept(g) =>
               FullAt(key[g]) <= Cap - Tokens(g) + now[g]
  <1>. DEFINE k == key[g]
  <1>1. /\ now[g] \in Nat /\ now[g] <= clock /\ clock \in Nat /\ k \in Keys
        /\ debt[k] \in Nat
    BY CollectTypes DEF LimiterInv, TypeOK
  <1>2. CASE k \notin Kept(g)
    BY <1>1, <1>2, Sizes DEF Tokens
  <1>3. CASE k \in Kept(g)
    <2>1. /\ buckets[k].tokens \in Int /\ buckets[k].seen \in Nat
          /\ buckets[k].tokens >= buckets[k].seen - clock
          /\ FullAt(k) <= clock + debt[k]
      BY <1>3, CollectTypes DEF LimiterInv, TypeOK, Bucket, BucketsOK
    <2>. QED
      BY <1>1, <1>3, <2>1, Sizes DEF Tokens, Refill, FullAt
  <1>. QED
    BY <1>2, <1>3

\* The state after a call has put its bucket back with n tokens.
LEMMA PutBack ==
  ASSUME LimiterInv, NEW g \in Goroutines, Collect(g),
         NEW n \in Int, SetBucket(g, n),
         n <= Cap, n >= now[g] - clock,
         debt' \in [Keys -> Nat], verdict' \in [Goroutines -> {"refused", "granted", "none", "full"}],
         \A k \in Keys \ {key[g]} : debt'[k] = debt[k],
         Cap - n + now[g] <= clock + debt'[key[g]],
         debt'[key[g]] <= Cap + MaxLag + drops'[key[g]] * GivenAway,
         \/ debt'[key[g]] <= drops'[key[g]] * GivenAway
         \/ debt'[key[g]] <= (Cap - n + now[g]) - clock + MaxLag
                               + drops'[key[g]] * GivenAway
  PROVE  LimiterInv'
  <1>. DEFINE c == key[g]
  <1>1. /\ DOMAIN buckets' = Kept(g) \cup {c}
        /\ buckets'[c] = [tokens |-> n, seen |-> now[g]]
        /\ \A k \in Kept(g) \ {c} : buckets'[k] = buckets[k]
        /\ Kept(g) \subseteq DOMAIN buckets
    BY CollectTypes DEF SetBucket
  <1>2. buckets' \in [DOMAIN buckets' -> Bucket] /\ DOMAIN buckets' \subseteq Keys
    BY <1>1, CollectTypes DEF SetBucket, Bucket, LimiterInv, TypeOK
  <1>3. TypeOK'
    <2>1. heard' \in [Keys -> Int]
      BY CollectTypes DEF SetBucket, LimiterInv, TypeOK
    <2>. QED
      BY <1>2, <2>1, CollectTypes DEF LimiterInv, TypeOK
  <1>4. /\ FullAt(c)' = Cap - n + now[g]
        /\ \A k \in Kept(g) \ {c} : FullAt(k)' = FullAt(k)
    <2>1. buckets'[c].tokens = n /\ buckets'[c].seen = now[g]
      BY <1>1
    <2>2. FullAt(c)' = Cap - buckets'[c].tokens + buckets'[c].seen
      BY CollectTypes DEF FullAt
    <2>3. \A k \in Kept(g) \ {c} : FullAt(k)' = FullAt(k)
      BY <1>1 DEF FullAt
    <2>. QED
      BY <2>1, <2>2, <2>3
  <1>5. BucketsOK'
    BY <1>1, <1>4, CollectTypes, Sizes DEF BucketsOK, LimiterInv, TypeOK
  <1>6. DebtsOK' /\ RateBounded'
    <2> SUFFICES ASSUME NEW k \in Keys
                 PROVE  /\ \/ debt'[k] <= drops'[k] * GivenAway
                           \/ /\ k \in DOMAIN buckets'
                              /\ debt'[k] <= FullAt(k)' - clock + MaxLag
                                               + drops'[k] * GivenAway
                        /\ debt'[k] <= Cap + MaxLag + drops'[k] * GivenAway
      BY CollectTypes DEF DebtsOK, RateBounded
    <2>1. CASE k = c
      BY <2>1, <1>1, <1>4 DEF FullAt
    <2>2. CASE k # c
      <3>1. debt'[k] = debt[k] /\ debt[k] <= Cap + MaxLag + drops[k] * GivenAway
        BY <2>2 DEF LimiterInv, RateBounded
      <3>2. /\ drops[k] * GivenAway <= drops'[k] * GivenAway
            /\ \/ debt[k] <= drops'[k] * GivenAway
               \/ /\ k \in Kept(g)
                  /\ debt[k] <= FullAt(k) - clock + MaxLag + drops'[k] * GivenAway
        BY AfterGc, CollectTypes
      <3>3. drops[k] * GivenAway \in Nat /\ drops'[k] * GivenAway \in Nat
            /\ debt[k] \in Nat
        BY GiftGrows, CollectTypes DEF LimiterInv, TypeOK
      <3>. QED
        BY <2>2, <3>1, <3>2, <3>3, <1>1, <1>4, Sizes
    <2>. QED
      BY <2>1, <2>2
  <1>. QED
    BY <1>3, <1>5, <1>6, CollectTypes DEF LimiterInv

LEMMA LimiterStep == LimiterInv /\ [Next]_vars => LimiterInv'
  <1> SUFFICES ASSUME LimiterInv, [Next]_vars PROVE LimiterInv'
    OBVIOUS
  <1>1. CASE UNCHANGED vars
    BY <1>1 DEF vars, callVars, LimiterInv, TypeOK, PendingOK, BucketsOK,
                DebtsOK, RateBounded, FullAt
  <1>2. CASE Tick
    <2>1. /\ clock' = clock + 1 /\ clock \in Nat
          /\ UNCHANGED <<buckets, lastGC, pc, key, now, verdict, drops, heard>>
          /\ debt' \in [Keys -> Nat]
          /\ \A k \in Keys : debt[k] \in Nat /\ drops[k] \in Nat
          /\ \A k \in Keys : debt'[k] = IF debt[k] = 0 THEN 0 ELSE debt[k] - 1
      BY <1>2 DEF Tick, callVars, LimiterInv, TypeOK
    <2>2. TypeOK'
      BY <2>1 DEF LimiterInv, TypeOK
    <2>3. PendingOK'
      BY <1>2, <2>1, Sizes DEF Tick, PendingOK, LimiterInv, TypeOK
    <2>4. \A k \in DOMAIN buckets : FullAt(k)' = FullAt(k) /\ FullAt(k) \in Int
      BY <2>1, Sizes DEF FullAt, LimiterInv, TypeOK, Bucket
    <2>5. BucketsOK'
      BY <2>1, <2>4, Sizes DEF BucketsOK, LimiterInv, TypeOK, Bucket
    <2>6. DebtsOK'
      <3> SUFFICES ASSUME NEW k \in Keys
                   PROVE  \/ debt'[k] <= drops[k] * GivenAway
                          \/ /\ k \in DOMAIN buckets
                             /\ debt'[k] <= FullAt(k) - (clock + 1) + MaxLag
                                              + drops[k] * GivenAway
        BY <2>1, <2>4 DEF DebtsOK
      <3>1. /\ drops[k] * GivenAway \in Nat
            /\ \/ debt[k] <= drops[k] * GivenAway
               \/ /\ k \in DOMAIN buckets
                  /\ debt[k] <= FullAt(k) - clock + MaxLag
                                  + drops[k] * GivenAway
        BY <2>1, GiftGrows DEF DebtsOK, LimiterInv
      <3>. QED
        BY <2>1, <2>4, <3>1, Sizes
    <2>7. RateBounded'
      <3> SUFFICES ASSUME NEW k \in Keys
                   PROVE  debt'[k] <= Cap + MaxLag + drops[k] * GivenAway
        BY <2>1 DEF RateBounded
      <3>1. /\ drops[k] * GivenAway \in Nat
            /\ debt[k] <= Cap + MaxLag + drops[k] * GivenAway
        BY <2>1, GiftGrows DEF RateBounded, LimiterInv
      <3>. QED
        BY <2>1, <3>1, Sizes
    <2>. QED
      BY <2>2, <2>3, <2>5, <2>6, <2>7 DEF LimiterInv
  <1>3. ASSUME NEW g \in Goroutines, NEW k \in Keys, Begin(g, k)
        PROVE  LimiterInv'
    BY <1>3, Sizes DEF Begin, LimiterInv, TypeOK, PendingOK, BucketsOK, DebtsOK,
                RateBounded, FullAt
  <1>4. ASSUME NEW g \in Goroutines, TurnAway(g)
        PROVE  LimiterInv'
    <2>1. /\ Collect(g) /\ UNCHANGED <<debt, heard>>
          /\ DOMAIN buckets' = Kept(g)
          /\ \A k \in Kept(g) : buckets'[k] = buckets[k]
          /\ buckets' = [k \in Kept(g) |-> buckets[k]]
          /\ verdict' \in [Goroutines -> {"none", "full", "refused", "granted"}]
      BY <1>4 DEF TurnAway, LimiterInv, TypeOK
    <2>2. TypeOK'
      BY <2>1, CollectTypes DEF LimiterInv, TypeOK
    <2>3. \A k \in Kept(g) : FullAt(k)' = FullAt(k)
      BY <2>1 DEF FullAt
    <2>4. BucketsOK'
      BY <2>1, <2>3, CollectTypes DEF BucketsOK, LimiterInv
    <2>5. DebtsOK' /\ RateBounded'
      <3> SUFFICES ASSUME NEW k \in Keys
                   PROVE  /\ \/ debt[k] <= drops'[k] * GivenAway
                             \/ /\ k \in DOMAIN buckets'
                                /\ debt[k] <= FullAt(k)' - clock + MaxLag
                                                + drops'[k] * GivenAway
                          /\ debt[k] <= Cap + MaxLag + drops'[k] * GivenAway
        BY <2>1, CollectTypes DEF DebtsOK, RateBounded
      <3>1. /\ drops[k] * GivenAway <= drops'[k] * GivenAway
            /\ \/ debt[k] <= drops'[k] * GivenAway
               \/ /\ k \in Kept(g)
                  /\ debt[k] <= FullAt(k) - clock + MaxLag + drops'[k] * GivenAway
        BY <2>1, AfterGc, CollectTypes
      <3>2. drops[k] * GivenAway \in Nat /\ drops'[k] * GivenAway \in Nat
            /\ debt[k] \in Nat /\ debt[k] <= Cap + MaxLag + drops[k] * GivenAway
        BY <2>1, GiftGrows, CollectTypes DEF LimiterInv, TypeOK, RateBounded
      <3>. QED
        BY <2>1, <2>3, <3>1, <3>2, Sizes
    <2>. QED
      BY <2>1, <2>2, <2>4, <2>5, CollectTypes DEF LimiterInv
  <1>5. ASSUME NEW g \in Goroutines, Refuse(g)
        PROVE  LimiterInv'
    <2>. DEFINE c == key[g]
    <2>1. /\ Collect(g) /\ UNCHANGED debt /\ SetBucket(g, Tokens(g))
          /\ debt \in [Keys -> Nat] /\ c \in Keys
          /\ verdict' \in [Goroutines -> {"refused", "granted", "none", "full"}]
      BY <1>5 DEF Refuse, LimiterInv, TypeOK
    <2>2. /\ drops[c] * GivenAway <= drops'[c] * GivenAway
          /\ \/ debt[c] <= drops'[c] * GivenAway
             \/ /\ c \in Kept(g)
                /\ debt[c] <= FullAt(c) - clock + MaxLag + drops'[c] * GivenAway
      BY <2>1, AfterGc, CollectTypes
    <2>3. /\ drops[c] * GivenAway \in Nat /\ drops'[c] * GivenAway \in Nat
          /\ debt[c] \in Nat /\ debt[c] <= Cap + MaxLag + drops[c] * GivenAway
          /\ clock \in Nat /\ now[g] \in Nat
      BY <2>1, GiftGrows, CollectTypes DEF LimiterInv, TypeOK, RateBounded
    <2>4. c \in Kept(g) => FullAt(c) \in Int
      BY <2>1, CollectTypes, Sizes DEF FullAt, LimiterInv, TypeOK, Bucket
    <2>. HIDE DEF c
    <2>5. \/ debt[c] <= drops'[c] * GivenAway
          \/ debt[c] <= (Cap - Tokens(g) + now[g]) - clock + MaxLag
                          + drops'[c] * GivenAway
      BY <2>1, <2>2, <2>3, <2>4, Refilled, Sizes DEF c
    <2>. QED
      BY <2>1, <2>2, <2>3, <2>5, Refilled, PutBack, Sizes DEF c
  <1>6. ASSUME NEW g \in Goroutines, Grant(g)
        PROVE  LimiterInv'
    <2>. DEFINE c == key[g]
                n == Tokens(g) - Cost
    <2>1. /\ Collect(g) /\ SetBucket(g, n) /\ Tokens(g) >= Cost
          /\ debt' = [debt EXCEPT ![c] = debt[c] + Cost]
          /\ debt \in [Keys -> Nat] /\ c \in Keys
          /\ verdict' \in [Goroutines -> {"refused", "granted", "none", "full"}]
      BY <1>6 DEF Grant, LimiterInv, TypeOK
    <2>2. /\ debt'[c] = debt[c] + Cost /\ debt' \in [Keys -> Nat]
          /\ \A k \in Keys \ {c} : debt'[k] = debt[k]
      BY <2>1, Sizes
    <2>3. /\ \/ debt[c] <= drops'[c] * GivenAway
             \/ /\ c \in Kept(g)
                /\ debt[c] <= FullAt(c) - clock + MaxLag + drops'[c] * GivenAway
      BY <2>1, AfterGc, CollectTypes
    <2>4. /\ drops'[c] * GivenAway \in Nat /\ debt[c] \in Nat
          /\ clock \in Nat /\ now[g] \in Nat /\ now[g] <= clock
          /\ clock <= now[g] + MaxLag
      BY <2>1, GiftGrows, CollectTypes DEF LimiterInv, TypeOK
    <2>5. c \in Kept(g) => FullAt(c) \in Int
      BY <2>1, CollectTypes, Sizes DEF FullAt, LimiterInv, TypeOK, Bucket
    <2>6. /\ Tokens(g) \in Int /\ Tokens(g) <= Cap
          /\ Tokens(g) >= now[g] - clock
          /\ Cap - Tokens(g) + now[g] <= clock + debt[c]
          /\ c \in Kept(g) => FullAt(c) <= Cap - Tokens(g) + now[g]
      BY <2>1, Refilled
    <2>7. /\ n \in Int /\ n <= Cap /\ n >= now[g] - clock
          /\ Cap - n + now[g] <= clock + debt'[c]
      BY <2>1, <2>2, <2>4, <2>6, Sizes
    <2>8. debt'[c] <= (Cap - n + now[g]) - clock + MaxLag + drops'[c] * GivenAway
      BY <2>1, <2>2, <2>3, <2>4, <2>5, <2>6, Sizes
    <2>9. debt'[c] <= Cap + MaxLag + drops'[c] * GivenAway
      BY <2>1, <2>4, <2>6, <2>8, Sizes
    <2>. QED
      BY <2>1, <2>2, <2>7, <2>8, <2>9, PutBack
  <1>. QED
    BY <1>1, <1>2, <1>3, <1>4, <1>5, <1>6 DEF Next

LEMMA LimiterAlways == Spec => []LimiterInv
  BY LimiterInit, LimiterStep, PTL DEF Spec

\* No client gets more than the burst and the refill, up to what late calls
\* and forgotten buckets give away.
THEOREM RateIsBounded == Spec => []RateBounded
  BY LimiterAlways, PTL DEF LimiterInv

\* What the limiter knows of a client is at most a lag older than the client's
\* last call; who has no bucket has been quiet for long enough.
HeardOK ==
    \A k \in Keys :
        IF k \in DOMAIN buckets THEN buckets[k].seen >= heard[k] - MaxLag
                               ELSE clock - heard[k] > Idle - MaxLag

LEMMA StaleIsQuiet ==
  ASSUME LimiterInv, HeardOK, NEW g \in Goroutines, Collect(g),
         NEW k \in Keys \ Kept(g)
  PROVE  clock - heard[k] > Idle - MaxLag
  <1>1. CASE k \notin DOMAIN buckets
    BY <1>1 DEF HeardOK
  <1>2. CASE k \in DOMAIN buckets
    <2>1. k \in Stale(now[g])
      BY <1>2 DEF Kept
    <2>2. now[g] - buckets[k].seen > Idle /\ now[g] <= clock
      BY <2>1, CollectTypes DEF Stale
    <2>3. /\ now[g] \in Nat /\ clock \in Nat /\ heard[k] \in Int
          /\ buckets[k].seen \in Nat
      BY <1>2, CollectTypes DEF LimiterInv, TypeOK, Bucket
    <2>. QED
      BY <1>2, <2>2, <2>3, Sizes DEF HeardOK
  <1>. QED
    BY <1>1, <1>2

LEMMA HeardStep == LimiterInv /\ HeardOK /\ [Next]_vars => HeardOK'
  <1> SUFFICES ASSUME LimiterInv, HeardOK, [Next]_vars PROVE HeardOK'
    OBVIOUS
  <1>1. CASE UNCHANGED vars
    BY <1>1 DEF vars, HeardOK
  <1>2. CASE Tick
    <2>1. /\ clock \in Nat /\ clock' = clock + 1 /\ buckets' = buckets
          /\ heard' = heard /\ heard \in [Keys -> Int]
      BY <1>2 DEF Tick, LimiterInv, TypeOK
    <2>. QED
      BY <2>1, Sizes DEF HeardOK
  <1>3. ASSUME NEW g \in Goroutines, NEW k \in Keys, Begin(g, k) PROVE HeardOK'
    BY <1>3 DEF Begin, HeardOK
  <1>4. ASSUME NEW g \in Goroutines, TurnAway(g) PROVE HeardOK'
    <2>1. /\ Collect(g) /\ heard' = heard /\ clock' = clock
          /\ DOMAIN buckets' = Kept(g) /\ Kept(g) \subseteq DOMAIN buckets
          /\ \A k \in Kept(g) : buckets'[k] = buckets[k]
      BY <1>4, CollectTypes DEF TurnAway
    <2>. QED
      BY <2>1, StaleIsQuiet DEF HeardOK
  <1>5. ASSUME NEW g \in Goroutines, NEW n \in Int, Collect(g), SetBucket(g, n)
        PROVE  HeardOK'
    <2>1. /\ clock' = clock /\ Kept(g) \subseteq DOMAIN buckets
          /\ key[g] \in Keys /\ heard \in [Keys -> Int]
          /\ now[g] \in Nat /\ clock \in Nat /\ clock <= now[g] + MaxLag
      BY <1>5, CollectTypes DEF LimiterInv, TypeOK
    <2>2. /\ DOMAIN buckets' = Kept(g) \cup {key[g]}
          /\ buckets'[key[g]].seen = now[g] /\ heard'[key[g]] = clock
          /\ \A k \in Kept(g) \ {key[g]} : buckets'[k] = buckets[k]
          /\ \A k \in Keys \ {key[g]} : heard'[k] = heard[k]
      BY <1>5, <2>1 DEF SetBucket
    <2>3. ASSUME NEW k \in Keys
          PROVE  IF k \in DOMAIN buckets'
                   THEN buckets'[k].seen >= heard'[k] - MaxLag
                   ELSE clock - heard'[k] > Idle - MaxLag
      <3>1. CASE k = key[g]
        BY <3>1, <2>1, <2>2, Sizes
      <3>2. CASE k # key[g] /\ k \in Kept(g)
        BY <3>2, <2>1, <2>2 DEF HeardOK
      <3>3. CASE k # key[g] /\ k \notin Kept(g)
        BY <1>5, <3>3, <2>2, StaleIsQuiet
      <3>. QED
        BY <3>1, <3>2, <3>3
    <2>. QED
      BY <2>1, <2>3 DEF HeardOK
  <1>6. ASSUME NEW g \in Goroutines, Refuse(g) \/ Grant(g) PROVE HeardOK'
    <2>1. PICK n \in {Tokens(g), Tokens(g) - Cost} : Collect(g) /\ SetBucket(g, n)
      BY <1>6 DEF Refuse, Grant
    <2>2. n \in Int
      BY <2>1, Refilled, Sizes
    <2>. QED
      BY <2>1, <2>2, <1>5
  <1>. QED
    BY <1>1, <1>2, <1>3, <1>4, <1>6 DEF Next

\* A client that keeps its rate is not refused for want of a token, and one the
\* limiter has heard of lately is not turned away by a full table.
THEOREM AdmissionIsFair == Spec => FairAdmission
  <1>1. LimiterInv /\ HeardOK /\ [Next]_vars =>
          [\A g \in Goroutines :
              /\ verdict'[g] = "refused" /\ verdict[g] # "refused" =>
                    debt[key[g]] + MaxLag + Cost > Cap
              /\ verdict'[g] = "full" /\ verdict[g] # "full" =>
                    clock - heard[key[g]] > Idle - MaxLag]_vars
    <2> SUFFICES ASSUME LimiterInv, HeardOK, [Next]_vars, NEW g \in Goroutines
                 PROVE  /\ verdict'[g] = "refused" /\ verdict[g] # "refused" =>
                              debt[key[g]] + MaxLag + Cost > Cap
                        /\ verdict'[g] = "full" /\ verdict[g] # "full" =>
                              clock - heard[key[g]] > Idle - MaxLag
      OBVIOUS
    <2>1. ASSUME verdict'[g] = "refused", verdict[g] # "refused"
          PROVE  debt[key[g]] + MaxLag + Cost > Cap
      <3>1. Refuse(g)
        BY <2>1 DEF Next, Tick, Begin, TurnAway, Refuse, Grant, vars, LimiterInv,
                    TypeOK
      <3>2. Collect(g) /\ Tokens(g) < Cost
        BY <3>1 DEF Refuse
      <3>3. /\ clock \in Nat /\ now[g] \in Nat /\ clock <= now[g] + MaxLag
            /\ debt[key[g]] \in Nat
        BY <3>2, CollectTypes DEF LimiterInv, TypeOK
      <3>. QED
        BY <3>2, <3>3, Refilled, Sizes
    <2>2. ASSUME verdict'[g] = "full", verdict[g] # "full"
          PROVE  clock - heard[key[g]] > Idle - MaxLag
      <3>1. TurnAway(g)
        BY <2>2 DEF Next, Tick, Begin, TurnAway, Refuse, Grant, vars, LimiterInv,
                    TypeOK
      <3>2. Collect(g) /\ key[g] \in Keys \ Kept(g)
        BY <3>1, CollectTypes DEF TurnAway, Served
      <3>. QED
        BY <3>2, StaleIsQuiet
    <2>. QED
      BY <2>1, <2>2
  <1>2. Init => HeardOK
    BY Sizes DEF Init, HeardOK
  <1>. QED
    BY <1>1, <1>2, LimiterAlways, HeardStep, PTL DEF Spec, FairAdmission

\* The limiter's variables keep their types.
THEOREM TypeCorrect == Spec => []TypeOK
  BY LimiterAlways, PTL DEF LimiterInv

LEMMA FewerKeys ==
  ASSUME LimiterInv, TableBounded, NEW g \in Goroutines, Collect(g)
  PROVE  /\ IsFiniteSet(Kept(g)) /\ Cardinality(Kept(g)) \in Nat
         /\ Cardinality(Kept(g)) <= MaxKeys
  <1>1. IsFiniteSet(DOMAIN buckets) /\ Kept(g) \subseteq DOMAIN buckets
    BY LimiterAssumption, FS_Subset DEF LimiterInv, TypeOK, Kept
  <1>2. /\ IsFiniteSet(Kept(g))
        /\ Cardinality(Kept(g)) <= Cardinality(DOMAIN buckets)
    BY <1>1, FS_Subset
  <1>. QED
    BY <1>1, <1>2, FS_CardinalityType, LimiterAssumption DEF TableBounded

\* Whatever clients come, the table of buckets never outgrows its limit: only a
\* call that found room after gc adds a bucket.
THEOREM TableIsBounded == Spec => []TableBounded
  <1>1. Init => TableBounded
    BY FS_EmptySet, LimiterAssumption DEF Init, TableBounded
  <1>2. LimiterInv /\ TableBounded /\ [Next]_vars => TableBounded'
    <2> SUFFICES ASSUME LimiterInv, TableBounded, [Next]_vars
                 PROVE  TableBounded'
      OBVIOUS
    <2>1. CASE buckets' = buckets
      BY <2>1 DEF TableBounded
    <2>2. ASSUME NEW g \in Goroutines, TurnAway(g) PROVE TableBounded'
      <3>1. DOMAIN buckets' = Kept(g)
        BY <2>2 DEF TurnAway
      <3>. QED
        BY <2>2, <3>1, FewerKeys DEF TurnAway, TableBounded
    <2>3. ASSUME NEW g \in Goroutines, Refuse(g) \/ Grant(g) PROVE TableBounded'
      <3>1. Collect(g) /\ DOMAIN buckets' = Kept(g) \cup {key[g]}
        BY <2>3 DEF Refuse, Grant, SetBucket
      <3>2. CASE key[g] \in Kept(g)
        <4>1. DOMAIN buckets' = Kept(g)
          BY <3>1, <3>2
        <4>. QED
          BY <3>1, <4>1, FewerKeys DEF TableBounded
      <3>3. CASE key[g] \notin Kept(g)
        <4>1. Cardinality(Kept(g)) < MaxKeys
          BY <2>3, <3>1, <3>3, FewerKeys, LimiterAssumption
             DEF Refuse, Grant, Served, TableFull
        <4>2. Cardinality(DOMAIN buckets') = Cardinality(Kept(g)) + 1
          BY <3>1, <3>3, FewerKeys, FS_AddElement
        <4>. QED
          BY <3>1, <4>1, <4>2, FewerKeys, LimiterAssumption DEF TableBounded
      <3>. QED
        BY <3>2, <3>3
    <2>. QED
      BY <2>1, <2>2, <2>3 DEF Next, Tick, Begin, vars
  <1>. QED
    BY <1>1, <1>2, LimiterAlways, PTL DEF Spec

-----------------------------------------------------------------------------

\* What gc throws away of a bucket is at most the fraction of a second that its
\* idle time was cut by, and the lag of the calls.
THEOREM GcWastesLittle == Spec => DropsWasteLittle
  <1>1. LimiterInv /\ [Next]_vars =>
          [\A k \in DOMAIN buckets : drops'[k] > drops[k] =>
              buckets[k].tokens + (clock - buckets[k].seen) >= Idle - MaxLag]_vars
    <2> SUFFICES ASSUME LimiterInv, [Next]_vars, NEW k \in DOMAIN buckets,
                        drops'[k] > drops[k]
                 PROVE  buckets[k].tokens + (clock - buckets[k].seen)
                          >= Idle - MaxLag
      OBVIOUS
    <2>1. /\ k \in Keys /\ drops[k] \in Nat /\ clock \in Nat
          /\ buckets[k].tokens \in Int /\ buckets[k].seen \in Nat
          /\ buckets[k].tokens >= -MaxLag
      BY DEF LimiterInv, TypeOK, Bucket, BucketsOK
    <2>2. PICK g \in Goroutines : Collect(g)
      BY <2>1 DEF Next, Tick, Begin, TurnAway, Refuse, Grant, vars
    <2>3. k \in Stale(now[g])
      BY <2>1, <2>2 DEF Collect
    <2>4. now[g] - buckets[k].seen > Idle /\ now[g] <= clock /\ now[g] \in Nat
      BY <2>2, <2>3, CollectTypes DEF Stale
    <2>. QED
      BY <2>1, <2>4, Sizes
  <1>. QED
    BY <1>1, LimiterAlways, PTL DEF Spec, DropsWasteLittle

\* The comment on gc holds of limiters like the server's two, which fill their
\* buckets in a whole number of seconds, when calls do not wait for the mutex.
THEOREM WholeSecondsDropFull ==
  ASSUME Cap % Second = 0, MaxLag = 0
  PROVE  Spec => DroppedOnlyWhenFull
  <1>1. Idle = Cap
    <2>. DEFINE c == Cap
                s == Second
    <2>1. c \in Nat /\ s \in Nat /\ s > 0 /\ c % s = 0
      BY Sizes, LimiterAssumption
    <2>2. Idle = (c \div s) * s
      BY DEF Idle
    <2>. HIDE DEF c, s
    <2>3. (c \div s) * s = c
      BY <2>1
    <2>. QED
      BY <2>2, <2>3 DEF c
  <1>2. Idle - MaxLag = Cap
    BY <1>1, Sizes
  <1>3. [\A k \in DOMAIN buckets : drops'[k] > drops[k] =>
            buckets[k].tokens + (clock - buckets[k].seen) >= Idle - MaxLag]_vars
          =>
        [\A k \in DOMAIN buckets : drops'[k] > drops[k] =>
            buckets[k].tokens + (clock - buckets[k].seen) >= Cap]_vars
    BY <1>2
  <1>. QED
    BY <1>3, GcWastesLittle, PTL DEF DropsWasteLittle, DroppedOnlyWhenFull
=============================================================================
