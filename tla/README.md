# onetimelink in TLA+

Specifications, model-checking runs and machine-checked proofs for the
one-time-link server in this repository (`gjfy`, written in Go). A user hands the
server a secret and gets a link; whoever opens the link and confirms sees the
secret, and after the agreed number of views, or of days, it is gone. Secrets
live in memory only.

Checked with TLC, proved with TLAPS (`tlapm` 1.4.5). Every specification is
translated from the code; `PROJECT.json` lists, per definition, the lines it
stands for.

## 1. The system

| component | state it keeps | operations | interacts through |
|---|---|---|---|
| secret store, `store/store.go` | a map of entries, three counters, an `RWMutex` | `AddEntry`, `Claim`, `GetEntry`, `Stats`, `Len`, `expireOnce`/`Expiry` | called by the handlers' goroutines, by the stats socket, by its own expiry goroutine |
| request handlers, `httpio/` | none of their own | create (API, form), confirm, reveal, API get, metadata | one goroutine per request; store, limiter, current token database |
| rate limiter, `misc/ratelimit.go` | token buckets per client address, time of the last gc | `Allow`, `gc` | two instances in front of the routes (one for creating and metadata, one for reading) |
| token database, `tokendb/auth.go` | immutable once read | `MakeTokenDB`, `IsAuthorized`, `Knows` | replaced as a whole by `reload` |
| configuration files, `fileio/file.go` | files in two directories | `TryFile`, `TryReadFile`, fallbacks | read by `reload` |
| server process, `cmd/server.go` | current assets, signal channels, listener | start, reload on SIGHUP, stop on SIGTERM/SIGINT | starts and stops all of the above |
| admin socket, `admin/admin.go` | a unix socket file shared by path with other instances | `Serve`, `Close`, `clearStaleSocket`, `removeIfOurs` | answers `Stats`; used by `gjfy stats` |
| stats command, `cmd/stats.go` | none | `Fetch`, `formatReport` with `nextExpiry`, `humanDuration` | asks the stats socket; the operator acts on what it prints |
| redaction, headers, static assets, client script, command line | none | pure functions, constants | - |

What makes it hard:

* **Concurrency.** Handlers, the stats socket and the sweep share one Go map; a
  data race aborts the process and takes every secret with it. `Claim` reads,
  counts and deletes: interleaved wrongly, a one-time secret is shown twice.
* **Time.** Entries are dated before the mutex is taken; the limiter reads the
  clock before it takes its own; validities are multiplied in 64 bits; expiry
  happens at the next sweep, not at the moment.
* **Signals and files.** SIGHUPs come while a reload is reading files that are
  being edited; SIGTERM comes during startup, twice, or with requests in flight.
* **The file system.** Several instances compete for the path of a socket, and
  every look-up of that path can find another file.
* **Stale knowledge.** A report is printed after it was taken and read later
  still; the number in the journal is taken before the last requests are done;
  a request is judged by a token database that may be replaced the next moment.
* **Failures.** Processes are killed and leave their socket file; responses get
  lost after the view was burned; each step of `Serve` can fail.

What makes each part correct is stated as properties below; `PROJECT.json`
lists the hazards one by one with the line where each bites.

## 2. The modules

| module | models | main abstractions |
|---|---|---|
| `OneTimeLink` | what the service promises about a link: created with a budget of views, each view one step, gone for good (`GoneForGood`) | atomic steps |
| `ProcessStop` | what `shutdownWhen` promises of a process's end: line, stats socket, listener, last requests, in this order | who does it, and what else the process does |
| `SecretStore` | `store/store.go`, statement group by statement group, `sync.RWMutex` in its two-phase form | a secret is its length, a report its numbers, time is in ticks |
| `RateLimiter` | `misc/ratelimit.go` | a tick refills one unit, a token is `Interval` units: the floating-point arithmetic becomes exact |
| `AdminSocket` | the life of the socket file, `admin/admin.go`, one step per system call, several instances | inode numbers are a small set and are reused |
| `ServerProcess` | `cmd/server.go` with `fileio/file.go`: start, reload, signals, stop | the store is empty or not, the admin socket served or not |
| `TokenDB` | `tokendb/auth.go`: what of an auth.db is taken over, and whose a token is | a token is long enough or not, an address usable (`misc/validate.go`) or not |
| `Server` | `httpio/` with `TokenDB` behind the limiter, over `OneTimeLink` | the limiter is its verdict, an answer is its kind |
| `StatsReport` | what an operator learns: `admin.Snapshot`/`Fetch`, `cmd/stats.go`, `stopNotice`, over a store that changes and a process that ends and starts again | a method of the store is one step; a tick is a minute |
| `SecretStoreProofs`, `RateLimiterProofs`, `AdminSocketProofs`, `ServerProcessProofs`, `ServerProofs`, `StatsReportProofs` | theorems | |
| `LeastElements` | two lemmas: sets of numbers have least and greatest elements | |
| `MC*` | symmetry and values for the `.cfg` files | |

How they fit together: `SecretStore` implements `OneTimeLink` (checked by
`store_limits`, proved as `Refinement`), and `Server` composes its handlers with
an instance of `OneTimeLink` in place of the store, so what `Server` shows of
whole requests rests on what is shown of the store's critical sections.
`ServerProcess` produces the reloads and `Server` consumes them; `AdminSocket` is
what `stats.Close` of the orderly stop calls. `StatsReport` puts the store, the
stop of `shutdownWhen` and the reader of the reports together; that a method of the
store, `Stats` included, may be one step there is what `SecretStore` shows
(`NoConcurrentMapAccess`, `ReportAddsUp`). That its stop is the one a server process
performs is shown by way of `ProcessStop`, which both `ServerProcess` (checked by
`process_life`) and `StatsReport` implement (both proved as `StopImplemented`).

### State and actions against the code

*SecretStore.* `entries`, `created`, `claimed`, `expired` are the fields; `writer`
and `readers` are the mutex. A goroutine's `pc` goes `idle` - `lock` - `drain`
- `crit` - `write` - `unlock` for writers, `idle` - `rlock` - `parked` (if a writer is
at the door) - `read` - `list` - `runlock` for readers. `BeginAdd`/`AddReserve`/`AddNoId`/`AddInsert` are
`AddEntry`; `BeginClaim`/`ClaimLookup`/`ClaimCount` are `Claim`; `BeginGet`/`GetRead`
are `GetEntry` and the calls built on it; `BeginStats`/`StatsCount`/`StatsList` are
`Stats`; `BeginSweep`/`SweepDelete`/`SweepEnd` are `Expiry` with `expireOnce`. The
steps inside a critical section are kept apart on purpose: whether the mutex
makes them one is a result (`NoConcurrentMapAccess`, `DistinctReveals`,
`ReportAddsUp`), not an assumption. Random ids are assumed never to repeat.

*RateLimiter.* `Begin` reads the clock, then exactly one of `TurnAway`, `Refuse`,
`Grant` happens under the mutex, each beginning with `gc` (`Collect`). `debt`
is an ideal bucket that knows nothing of `gc` or of late calls, and `heard` is when a
call for the client last got that far. A client can be refused for two reasons:
`FairAdmission` says that one who keeps the rate is not refused for want of a token,
and that a full table turns away only clients that `gc` has dropped or that are new;
such a client can be turned away although it keeps the rate.

*AdminSocket.* `Start` to `Chmod` are `Serve` with `clearStaleSocket`, `Shutdown` to
`Unlink` are `Close` with `removeIfOurs`; `Crash` can come anywhere. `together` becomes
true, and stays so, when one instance starts or stops while another is at it: what
the comments promise of a path used by instances in turn is stated for the time
before. From listen to chmod (admin.go:130-132) the socket is open to others, which
the code accepts; `ServedIsLocked` speaks of an instance that serves.

*ServerProcess.* `main` is where `runServer` is, `stopper` where the goroutine of
`shutdownWhen` is, `reload`/`file`/`dir` where `reload` is. A file is tried in one
directory per step and read in another one. `stale` records which files were
edited since the last SIGHUP was sent.

*Server.* `pc` follows one request through the limiter, its body, `getAuth`, the
check, the store and the response; `route` says which handler it is in. `Respond`
either reaches the client or does not. `authFile` is the auth.db that was read last and
`DB` the `TokenDB` made of it; `auth` is the copy a request got from `getAuth`, and
`Authorized` puts the address in the place of the token as `IsAuthorized` does.
`current` collects whom the files in use since the request could be judged name
for its token.

*StatsReport.* `Create`, `Claim`, `Other` are what a request does to the store, `Sweep`
is `expireOnce`; `Notice` to `Exit` are `shutdownWhen`, `Crash` is any other end and
`Start` the next process. `Fetch` takes a report (`Current` is `Snapshot`), `Show` prints
it some time later (`IsNext` is `nextExpiry`). `entries` is numbered in the order of
creation, which the report does not tell; `burned` and `loose` are history.

## 3. The runs

| run | instance | shows |
|---|---|---|
| `store_limits` | 2 goroutines + sweeper, 2 ids, capacity reached, replaced ids, all calls | `NoConcurrentMapAccess`, `WaitsEnd`, `ViewsWithinBudget`, `DistinctReveals`, `CapacityHeld`, `MemoryBounded`, `NothingLost`, `ReportAddsUp`, `ImplementsOneTimeLink` |
| `store_liveness` | fairness | `GoneOnlyWhenDue`, `ExpiredEntriesGo`, `EveryCallReturns` |
| `limiter_rate` | 2 goroutines, 2 addresses, table of 1, late calls | `RateBounded`, `FairAdmission`, `TableBounded` |
| `admin_sockets` | 3 instances, 2 inodes, 5 starts, all three starting or stopping at the same time | `ServedIsLocked`, `NothingLeftBehind`; until two instances overlap `ReachableAlone`, `PlainFileKept`, `StaleNeverBlocks` |
| `process_life` | 2 files in 2 directories, 1 edit, 2 SIGHUPs, any number of SIGTERMs, 1 request | `SettledIsCurrent`, `HupHeeded`, `EveryTermStops`, `ExitIsOrderly`, `LossIsNoted`, `ImplementsStop` |
| `server_requests` | 2 requests, 1 link, a good and a short token, 2 addresses, 3 auth.dbs (one with a token twice, one with a bad entry) | `PaidReveals`, `OnlyClaimsConsume`, `OnlyAuthorized`, `AuthorIsAccount`, `FormWithinLimits` |
| `stats_reports` | 1 operator, 2 requests, 2 entries of 1 or 2 "days" of 2 minutes, any number of stops, crashes and starts | `PromiseKept`, `ReportsAgree`, `LossExplained` |

Five runs show where the code and what is written about it differ:

* `store_late_reveal`: README.md:266 says a secret becomes invalid after n days;
  `Claim` hands it out until the next sweep.
* `store_overflow`: `valid_for` above 106751 days overflows `time.Duration`, and the
  sweep deletes an entry that is not past its validity (store.go:294, 297).
* `limiter_fraction`: gc drops buckets that are not full if the refill takes a
  fraction of a second (ratelimit.go:78, 85). The server's own limiters use whole
  seconds, for which `GivenAway` is zero apart from lag and the comment holds but
  for the lag (`WholeSecondsDropFull`, `GcWastesLittle`).
* `admin_detached`: two instances that start at the same time can detach one
  (admin.go:194, 211, 224). `ReachableAlone` in `admin_sockets` shows that this needs
  overlap.
* `admin_vanished`: a socket that vanishes between stat and removal makes `Serve`
  fail although the path is free (admin.go:216, 224). `AloneNeverVanishes` shows that
  this, too, needs overlap.

### Bounds

Clocks, creations, starts, edits and SIGHUPs are counted (`MaxTime`,
`MaxCreates`, `MaxStarts`, `MaxOverlap`, `MaxEdits`, `MaxHups`, `MaxLate`), and calls enter the limiter at
most `MaxLag` after they read the clock. They are large enough for the
interesting cases, as the mutants show: each property is violated, within the
same bounds, by a plausible bug in a definition it depends on (a lock that lets
two in, an off-by-one at the capacity, an unbuffered signal channel, a missing
deadline, a limit that is not looked at). One link suffices for reveals because
links meet only at the capacity, which `store_limits` reaches. In `stats_reports` a day
has one hour of two minutes, so the formats "Xd Yh" and "Ym" of `humanDuration` are
met before the clock stops, and "Xh Ym" is not: two hours to the day make the run
longer than is practical. `RoundedDown` and `PromisesAreKept` are proved for every
`DayHours` and `Hour`, the real 24 and 60 among them, and cover that format. Likewise
`server_requests` has no auth.db that cannot be parsed; the theorems about `Server`
cover it. Where a theorem exists, no bound matters.

`CHECK_DEADLOCK FALSE` stands where the system really stops: the clock at its
bound, all starts used up, the process ended.

### Fairness

`store_liveness`: a goroutine that can take a step takes it (the Go scheduler);
`Lock` is strongly fair because `sync.Mutex` hands over to a waiter starved for a
millisecond; the expiry loop keeps running. Nobody has to call anything.
`process_life`: the three goroutines run, and the deadline of `srv.Shutdown`
comes. Requests may hang for ever, and nobody has to send signals.

## 4. The proofs

All theorems are proved for every value of the constants that satisfies the
named assumptions (`StoreAssumption`, `LimiterAssumption`, `SocketAssumption`,
`TokenAssumption`, `ServerAssumption`, `ProcessAssumption`, `ReportAssumption`).

*SecretStoreProofs.* The inductive invariant is built in layers, each using the
ones before: `ShapeOK` (types, and that `pc`, `op` and locals fit), `LockOK` (the
writer is alone in its critical section, readers are in theirs), `DataOK` (an
entry's clicks are its views and stay below its budget; what `Claim` holds in its
local copy is one more than the map has), `RevealOK` (views already handed out
differ), `LedgerOK` (the counters including the sweep's unpublished `n`), beside it
`ViewsCounted` (no view is used that `claimed` does not count),
`SweepTimeOK`. `LockOK` is what makes the steps of a critical section behave as
one; without it the claims about `entries` are not inductive. `Refinement` maps
every step to a `OneTimeLink` step or a stutter. `ExpiresInTime` assumes that no
validity overflows, which `store_overflow` shows to be needed.

`NoDeadlock` needs one part more, `WaitOK`: the writer at the door and the readers it
waits for are in the steps their `pc` says, and a parked reader has a writer to wake
it. From there every wait leads in at most two steps to somebody who holds the mutex
and waits for nobody, which is why it cannot be a circle. `MemoryIsBounded` takes
the bytes held as the pairs of a live entry and a position in its secret
(`SecretBytes`), which are among those of an entry and a position up to
`MaxSecretLen`: no sum and no induction over the entries is needed.

What is shown of the abstract link is true of the service without another
invariant: `GoneStaysGone` is proved in `OneTimeLink`, where it takes a few steps;
`Refinement` carries it to the store (`NoSecretReturns`, for ids the store drew), and
`HandlersKeepToTheStore` to whole requests (`LinksStayGone`).

*RateLimiterProofs.* `LimiterInv` bounds an ideal client's debt by what its bucket
is short of, plus the lag, plus what each forgotten bucket gives away;
`RateIsBounded` and `AdmissionIsFair` follow, the second with `HeardOK` (a
client without a bucket has not been heard of for `Idle`, less the lag). `TableIsBounded` is inductive beside it:
gc only shrinks the table, and a bucket is added only where room was found after gc.
`GcWastesLittle` is what remains of the comment on gc in general: what is dropped would
hold all that refills in `Idle`, less the lag, because no bucket is ever further below
zero than the lag. Where `Idle` is the whole refill - the burst takes a whole
number of seconds, as at server.go:50 - and nobody waits, that is a full bucket
(`WholeSecondsDropFull`).

*AdminSocketProofs.* Two properties hold under any overlap. `ReachableIsLocked`: an
instance that serves and is reached has its socket locked down, because an inode
leaves `locked` only when it is bound anew, and then no socket refers to it.
`StopsAreTidy`: as long as nobody crashed, somebody answers for the socket at the
path (`OwnerKnown`) - the one that bound it, or that took it for the file of its own
listener - and unlinks it in the end. The others hold until two instances overlap
(`admin_detached` shows that they do not beyond): until `together`, `AloneInv` says at
each step what the path refers to - one's own socket from `bind` on, a socket
nobody serves while it is being cleared, the file of `Server.id` during `Close`.
So what a start found at the path is still there when it clears it
(`AloneNeverVanishes`).

*ServerProcessProofs.* `SettledIsCurrent` says nothing of a reload under way, so
the invariant adds how far that has come: every file it is done with, and the one
it has in hand, is either as `Effective` says now or stale (`ReloadOK`). For the
stop, `StopOK` says what the position of the stopping goroutine implies: it begins
only when a signal was noticed, and each of its steps finds the ones before it done.
`StopImplemented` maps that position to the phases of `ProcessStop`: draining, handing
the signals back and closing the channel are all part of the wait there, and each way
to lose the process at once is its `Crash`. `FirstDirectoryIsUsed` spells out what that means
for the steps of `TryFile` and `ReadFile`: once every signal is dealt with, what is in
use of a settled file is the first directory's copy, and the default only if there is
no copy or that one is not accepted. `SignalsAreNoted` is about SIGHUP, SIGTERM and
SIGINT, the signals the server asks for; what any other one does is up to the runtime.

*ServerProofs.* `HandlersInv` adds to the properties where each route can be
(`PlaceOK`: nothing but a confirming or fetching request gets to `Claim`), what the
`TokenDB` a request holds can say (`JudgedOK`: whatever it finds for the token, an
auth.db in use since the request could be judged says too), and that the id of a new
entry is nobody else's to use again (`NamedOK`). `LoadedVouches` carries a file's
faultlessness over to the database made of it, and `KnownIfVouched` makes it exact: nobody
who is listed is refused, and a token listed twice still names one address, the last.
`PaidReveals` counts the responses on their way, so its proof adds one to a cardinality in `Claim` and takes one away in `Respond`. The store is
`OneTimeLink` here; that the real one implements it is `Refinement`.

*StatsReportProofs.* `ReportsAgree` is inductive once every report is known to name a
start that has been (`ReportInv`): the next process starts later, and each step of
this one moves the counters and the number of live entries together. `LossExplained` is
inductive once the requests in flight are counted in (`LossInv`): each can change the
store once, so what is noted and what is live never differ by more than `loose` less
those still in flight. `StopImplemented` ties these phases to those of a real process: were
they others, the number `loose` would not be what a stop can shift. `PromiseKept` uses that a listed entry is still there until its own
expiry has passed, that `nextExpiry` is the least of them and that `humanDuration`
rounds down (`RoundedDown`).

*Not proved, only model-checked:* liveness (`HupHeeded`, `EveryTermStops`,
`ExpiredEntriesGo`, `EveryCallReturns`), which needs ENABLED and is out of the
prover's reach. Induction is used in one place and in the form of sets only
(`LeastOne`: a set of numbers without a least element would descend for ever), since
the library's schemes take an operator as a parameter, which the provers cannot
instantiate.

## 5. Not modelled

Pages, JSON and status texts; TLS settings; HTTP itself (the server is trusted to
call a handler once per request and to stop accepting after `Shutdown`); the
constant-time token scan; the browser script; static assets and headers, which
are constants. What a log line shows of a path or a header (`misc/redact.go`,
`GetRealIP`) are functions on the characters of one string, which a table test
reaches as well as a model checker. The reply to a creation holds zeroed fields if
the new entry is gone before it is looked up again (api_handlers.go:76); no
document says what it should hold. The fields of `Report` that repeat or derive from others
(`lost_on_restart`, `uptime_seconds`) and the verbose list of `gjfy stats` are left
out. The runtime's signal delivery and `sync.RWMutex` are modelled from their
documented behaviour.

Divergences met and not turned into runs: README.md:341 says form values are
"clamped", `formInt` falls back to the default instead; README.md's hardening
list gives `-max-entries` a default of 10000, the code has 256; the start message
(server.go:244) prints the flag and not the capacity that `New` derives from it.

## 6. Plan

1. Done: the store, its abstract specification and refinement; the limiter; the
   admin socket; the process; the handlers with the token database over the
   abstract store; the reports and what an operator makes of them. Each has its
   type and safety theorems, those on the socket's path up to the first overlap; both
   abstract specifications are proved to be implemented, and what follows from the
   abstract link is carried over to the store and to whole requests.
2. Open models: the limiter composed with the routes that share it, and
   `Server` with two links.
3. Open proofs: none the prover reaches that a listed property asks for;
   `HupHeeded`, `EveryTermStops`, `ExpiredEntriesGo` and `EveryCallReturns` stay with
   TLC.
