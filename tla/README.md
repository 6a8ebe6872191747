# Formal models of the Globalping API

This directory models the server side of [Globalping](../src/README.md) in TLA+.
The API accepts measurement requests, sends them to probes over web sockets,
collects the results in Redis and archives them in Postgres.  It runs as several
processes on several hosts, which share nothing but Redis and the databases; that,
and the failures in between, is what the models are about.

Source paths below are relative to `../src/src`.  `PROJECT.json` maps every
definition to the lines it models, and lists the runs, the theorems, the
mutations that each property is known to detect, and the hazards that the
properties are for.

## 1. The system

| Component | State | Operations | Correct when |
|---|---|---|---|
| **Measurement store** `measurement/store.ts`, `lib/redis/scripts.ts`, `measurement/runner.ts`, `measurement/handler/*` | per measurement: the document, its ids-to-ips, its meta, the counter `probes_awaiting`, an entry in `in-progress-timeouts`, fields in `test-to-probe` | create, progress, result, cleanup of timed out measurements | a measurement finishes once, with all its results, for good; it is never forgotten; it is archived at most once, and only a fault can prevent that |
| **Archive** `measurement/store-offloader.ts`, read path of `store.ts` | in-memory batch queues and a BullMQ queue per user tier; tables in Postgres | enqueue, insert a batch, fall back to a job, retry, shorten the TTL in Redis, read | nothing is dropped while something is left to retry; Redis forgets early only what is archived; a reader finds the record in one place or the other |
| **Reading** `measurement/route/get-measurement.ts`, `measurement/id.ts`, `lib/single-flight.ts`, `lib/http/middleware/{compressed,etag}.ts` | reads in flight; what clients keep | GET, 304, "immutable" | what a client keeps for good will not change |
| **Probe list** `lib/ws/synced-probe-list.ts` | per node: a TTL cache of the probes of all nodes, a document in Redis, a cursor in the shared stream | push, pull, `fetchProbes` | the lists converge; `fetchProbes` never returns a list older than the call |
| **Connection limits** `lib/ws/helper/probe-ip-limit.ts`, `lib/alt-ips-client.ts` | an index of the list while it is built; `altIpAddresses` of a socket | check at connection, validate alternative IPs, disconnect surplus probes | probes that got in together are found out; who was there first is seen; a probe is not disconnected for nothing |
| **Credits** `lib/credits-master.ts`, `lib/ipc/*` | balances buffered in the primary process, pending IPC calls of the workers | consume, flush, time out | what is spent reaches the database; nobody pays twice |
| **Rate limits** `lib/rate-limiter/*` | points per client and window, remembered refusals | precheck, check, pay, give back | free tests stay within the limit; a refused request costs nothing |
| **Adoptions** `lib/override/adopted-probes.ts`, `adoption/*` | rows of the dashboard; the rows and probes a sync has read; its plan | match, update, delete, create; adopt by token | a row is matched with one probe; no adoption is lost; every probe gets its row |
| **Overrides** `lib/override/{admin-data,probe-override}.ts` | cached ranges and the fields of IPs | refresh, apply | no change is missed; a probe is only shown where it may be |
| **Schedules** `schedule/*` | loaded rows, timers, executions | load, diff, start, fire, send chunk by chunk | timers follow the table; none runs that nobody can stop |
| **Selection** `probe/router.ts`, `probe/probes-location-filter.ts` | an index of the list | match locations, shuffle, distribute limits | limits are met and kept, probes are spread, none is chosen twice |
| **Places** `lib/geoip/*` | cached answers of five services, a list of cities in Redis | ask, approximate, vote | the vote is sound; the largest city nearby is found |
| **Tokens** `lib/http/auth.ts` | caches of valid and invalid tokens | validate, refresh | a revoked token is refused, and a new one accepted, in time |
| **Lists of addresses** `lib/malware/*`, `lib/{cloud,blocked}-ip-ranges.ts` | files of the build, lists in the memory of each worker | download, read, look up | no probe has an address of a relay; the cloud tags of a probe are those of its addresses |
| **Cluster** `index.ts`, `lib/term-listener.ts`, `lib/server.ts` | worker processes, the process with the task to synchronise adoptions | fork, restart, terminate, drain | one process at a time has the task; probes leave before the host exits |

How they interact:

* `create-measurement.ts` asks the *rate limits*, which ask the *credits* of the
  primary process over IPC; `probe/router.ts` chooses from the list of
  *SyncedProbeList* (or the probes of an earlier measurement, read from the
  store); `runner.run` creates the record and emits one request per probe.
  *Schedules* do the same on their own.
* The probes' messages go through the validator (is this the probe the test was
  sent to?) to the store's Lua scripts.  Whoever finishes a record, a result
  handler, a cleanup of any process or the creator itself, hands it to the archive.
* Overrides and adoptions are applied to the list of probes each time it changes;
  the connection limits read it, at once or through `fetchProbes`.

What makes it hard: every command to Redis is awaited and every await lets other
code run; processes die and are forked again (`index.ts`); a command may be executed although
its reply is an error; streams are trimmed, keys expire, caches are stale; each
periodic task must survive its own failures.

## 2. Modules

| Module | Models | Checked by | Proofs |
|---|---|---|---|
| `MeasurementLifecycle` | abstract: what clients and the archive may rely on | as a property of `MeasurementStore` | refined by `MeasurementStore` |
| `MeasurementStore` | `store.ts`, `scripts.ts`, `runner.ts`, `handler/*` | `store_safety`, `store_liveness` | `MeasurementStoreProofs` |
| `Answers` | `get-measurement.ts` and the middleware of a GET, by the clock | `api_process` | `ApiProcessProofs` |
| `StoreOffloader` | `store-offloader.ts`, the read path of `store.ts` | `offloader` | `StoreOffloaderProofs` |
| `SyncedProbeList` | `synced-probe-list.ts` | `probe_list_*` | `SyncedProbeListProofs` |
| `CreditsMaster` | `credits-master.ts`, for one user | `credits`, `credits_lost_update` | `CreditsMasterProofs` |
| `FreeLimit` | abstract: what a client gets for nothing | as a property of `RateLimits` | refined by `RateLimits` |
| `RateLimits` | `rate-limiter-post.ts`, `ipc/*` | `rate_limits` | `RateLimitsProofs` |
| `AdoptedProbes` | `adopted-probes.ts`, `adoption-token.ts` | `adopted_probes` | `AdoptedProbesProofs` |
| `Cluster` | `index.ts`, `term-listener.ts` | `api_process` | `ApiProcessProofs` |
| `Overrides` | `admin-data.ts`, `probe-override.ts` | `api_process` | `ApiProcessProofs` |
| `Schedules`, `Tokens`, `ProbeLimits`, `AddressLists`, `GeoIp` | `schedule/*`; `auth.ts`; `probe-ip-limit.ts`, `alt-ips-client.ts`; `download-files.ts`, `cloud-ip-ranges.ts`, `blocked-ip-ranges.ts`; `geoip/*` | `api_process` | `ApiProcessProofs` |
| `Selection` | `router.ts`, `probes-location-filter.ts` | `api_process`, `world_over_limit` | `SelectionProofs` |
| `ApiProcess` | the eight above and `Answers`, as the parts of one process | `api_process` | `ApiProcessProofs` |

`MC*` modules give the instances that the `.cfg` files use, and where one run
answers several questions its *scenes*: a variable chosen at the beginning
(`scene`, and `subject` in `ApiProcess`) says what a behaviour is about.
Parts that share no state are not multiplied with each other that way; every
scene keeps all interleavings of its own part.  Definitions
marked `mutant` are faulty variants of the definition that follows them; nothing
refers to them, they are what `PROJECT.json` "mutants" puts in its place.

Type invariants are the first conjunct of an invariant of their module:
`NothingIsForgotten`, `CaughtUpNodesAgree`, `BooksBalance`,
`RememberedRefusalsAreRight`, `MatchesAreSound`, `NoTimerIsLost`, `AnswersAreRecent`,
`CacheFollowsTheTable`, `LimitIsMet`, `PlacesAreRight`, `SurplusIsRight`,
`OneWorkerSyncs`, `ImmutableAnswersAreFinal`, `TagsFollowTheAddresses`.  That of `MeasurementStore`
is proved, not run.

### MeasurementStore

A Lua script is atomic, so it is one action: `RecordProgress`, `RecordResult` /
`RecordLastResult`, `Claim`, `MarkFinished` / `MarkUnfinished`.  All else awaits
between commands and is a process with a control state:

* `creator[id]`: `runner.run` and `createMeasurement`.  `Create` chooses the
  online probes; `Land*` are the commands of its `Promise.all`, which reach
  different cluster slots and land in any order, even after the promise was
  rejected (`WriteFails`); then requests are sent (`SendToProbes`) or, without an
  online probe, the record is compressed and archived at once.
* `handler[id][t]`: the result of one test, `storeMeasurementResult`: the script,
  and for the last result a ZREM and `enqueueForOffload`.  Progress has no process of its own: its
  script asks for the counter and nothing else, so it may come after the result of its own test
  as long as others are open, and then changes what that result shows.  `output` says of each result
  whether it is made of progress or of a report.
* `cleaner[c]`: one cleanup of one process.  It claims entries by moving their
  score 30 s ahead (a lease), runs `markFinishedByTimeout` on each, removes the
  entries, hands the records over.  `MarkFails` / `GiveUp` are `Bluebird.map`
  rejecting after the scripts already started have run; the entries stay leased.

`Fault` counts failed commands, lost replies and messages, and deaths
(`WriteFails`, `DropResult`, `MarkFails`, `Crash*`); `MaxFaults` bounds them.  Time is only the order of
deadlines: the timeout entry (30 s) falls due before the counter expires
(60 s), and leases end.  With `DuplicateResults`, a probe may answer a test again
(`ReportAgain`); nothing on the server prevents it, so
what must hold in spite of it is checked and proved with it, and what depends on
honest probes is stated without it.

### MeasurementLifecycle

Four steps per record - it appears, progresses, is reported to, times out - and
one for the archive.  The refinement mapping is the identity on `status`,
`results` and `offloads`; keys, leases, counters and processes are what the
detailed module adds.

### Answers

The answer to a GET is immutable, for a year and without asking again, if the id
is three minutes old; the status of the record is not looked at.  So the module
counts time, in units of five seconds: the record, the leases of the cleanups
that must finish it, the read that all requests share (`flight`), the encoding,
the tag, and what one client keeps (`kept`).  The minute of the id is rounded
down, so a record may be a minute younger than its id.  With at most two failed
cleanups the record is finished in time; a third failed one suffices for an unfinished
answer that is kept for a year (`MaxCleanupFailures` says where the limit is).

### StoreOffloader

The `BatchQueue` is a sequence, batches are records that are being inserted or
whose insertion failed, a fallback job carries the attempts left and the records
its current attempt has read from Redis.  Inserts ignore duplicates
(`onConflict`, `ignore`); an error may be reported for an insert that was
committed.  EXPIRE is sent without waiting (`expiring`).  A read decides by the
age of the id which store to ask first, and awaits (`flight`).

Time is counted in half hours, the shortest threshold of the code.  The age of a
record is a number of ticks with an uncertainty of less than one in each
direction, so "older than 30 minutes" is undecided for one tick.  A tick waits
for running batches and reads, which take seconds.  `BackoffAssumption` states
that a job exhausts its attempts before its records leave Redis: 28 attempts with
at most 5 minutes in between, against 7 days.

### SyncedProbeList

`push[n]` and `pull[n]` are the control states and local variables of `syncPush`
and `syncPull`, which run at the same time on each node.  Collecting the sockets,
reading the stamp of the node's own document and comparing them is one step
(`PushReload`, `PushAlive`, `PushRefresh`, `PushDiff`), because nobody else writes
that document, and its loss in between has the same effect as its loss before.
Writing the document and XADD are steps of their own, with the trimming of the
stream, which shifts or loses the cursors of the readers.  A pull collects the
changes of each node (`TaskFor`), applies what needs no data at once
(`Immediate`), and fetches the rest in any order (`FetchNode`, `FetchProbesById`).

A probe is a socket with a version; a version is its data apart from the load
statistics, which are left out.  Timestamps are kept only as far as they are
compared: `stamp` for equality (it takes three values, since a node compares its
cache with its document only), `fresh` for "later than a call of `fetchProbes`",
made once in a behaviour, on any node.

Assumptions: clocks of the hosts agree; the stream (about 100 events) outlives
the 5 s TTL of an entry, so a node without any event in it has expired
everywhere (it takes more than 33 nodes, each pushing every 2 s, to break this);
a fetch does not take that long either; a refresh of a document, at least 30
minutes after its last change, finds that change dealt with.

### CreditsMaster

A call of `consume` or `getRemainingCredits` that goes to the database is a process
(`call[c]`: waiting for its UPDATE, for its SELECT, or holding the balance it has
read), and so is `flush`; a grant from the buffer is one step.  A flush lists the entries of all
users at once (`StartFlush`) and comes to each of them later (`TakePending`), as `Bluebird.map` defers its
mappers and runs eight at a time: in between calls go on.  The module keeps the
identity of the buffer's entry: `flush.object` is `Nothing` while the flush holds the
same object as the buffer, and a copy of its own once the buffer has replaced or
dropped it (`Detached`).  Three accidents are marked, which the properties except: `overwritten`,
`doubled` and `expired` (section 5).  `due` is what the books should say: the credits granted
but not deducted, apart from those the balance did not suffice for.  Calls whose
command failed, although it was executed, are accounted for in `uncertain`.

### RateLimits and FreeLimit

A request is a process: precheck, selection of the probes, points taken from the
counter in Redis, the call to the primary process, points given back.  The call
is another one (`call[r]`): it goes on when the worker has given up on it
(`TimeOut`), and its late answer is ignored.  `attempt[w]` is the refusal that a
worker remembers for a minute.  The counter expires with its window; `stale` marks
requests whose points were taken in an earlier one.  Bookkeeping (`free`, `late`,
`paid`) says what the books should show.  `FreeLimit` is the promise: in
one window at most `Limit` tests for nothing, and as many more as points were given back
late; the refinement maps its allowance to `Limit + late`.

### AdoptedProbes

`Match` is `matchDProbesAndProbes`: passes over the rows, each with its own way to find a
probe (`FindByUuid`, `FindByIp`, ...), for adopted rows first; `PlanOf` is what follows from it:
deletions of duplicates, IPs taken from offline rows, updates and new
rows.  A sync reads the rows, makes its plan from them and from the list of probes, and
executes it command by command, while the list changes, users adopt, probes adopt
themselves by token, and commands fail.  Rows are looked at in the order of the query (`Precedes`): adopted ones first, then
those that were online for longer today (`OnlineTimes`, which does not change, nor does the date of the
last sync, since a behaviour is a few minutes of one day), then those that are ready, then newer ones.  The passes and the search for duplicates are loops
over arrays, here folds of one step each (`MatchRow`, `Pass`, `Compare`), so that a proof can follow them.
The constant `Hosts` are the API hosts: each has one process that synchronises the table (`Cluster`), and
nothing in the code makes it one host at a time.

### Schedules, Tokens, Overrides, Selection, GeoIp, ProbeLimits, AddressLists, Cluster

*Schedules*: the loader's two queries with changes in between; timers as records with a
number, so that one that has been replaced is told from its successor;
executions chunk by chunk.  `blurred` marks schedules of which two changes fell into the
same second: the loader cannot tell them apart, and the property excepts them.

*Tokens*: `valid` and `invalid` hold the ticks an entry has left; a lookup and the
periodic read of all tokens are queries that read at one moment and are used later.  A request whose
token is used for the first time that day writes the date before it goes on (`stamp`), whether the token was
cached or not, and fails if the query does.
`agoOf` remembers when a verdict was last true.

*Overrides*: the ranges of the administrators, the owner's choice of a country, and the cache
of what ranges say of an IP, filled for all IPs of a probe at once.  `unnoticed`
marks edits that neither the newest timestamp nor the number of rows tells of.

*Selection*: a location is a set of probes with its plain attributes, and the keywords of its
magic string, which are looked up in an index of all probes, those that are not ready included (`Unready`);
the word "world" matches all; the order of a shuffle is any the
code can produce; the loop that takes probes goes location by location.

*GeoIp*: services answer with reports that disagree, and fail; cached answers expire one by one.
The vote is among a set of services, which stand for their answers, and a service is the number of
its place: the first element of each of the code's arrays is the least of a set (`Top`, `BestMatch`).
The list of cities fills city by city.

*ProbeLimits*: two nodes, each with a list of what it has read of the other (`list`),
the index that `verifyIpLimit` builds and that connecting probes share or wait for (`index`), the lists of
alternative IPs of a probe that are being validated (`update`), several at a time, and the three
passes of `syncProbeLimits`, each of which takes note of the one before it.

*AddressLists*: the downloads of the build, of which those of the block lists may be left out and those
of the clouds may not; the ranges in the memory of a worker, in the order in which the files
were read; probes whose alternative IPs come in the order of their messages.  The lists of what must not be
measured are a step without data: what they refuse is decided by the validation of a request alone.

*Cluster*: workers are numbered as they are forked; `syncing` are those that were forked with the
task.  Time passes in ticks of five seconds, so that the drain, the handshake and the
exit can be compared.  A handshake lasts any number of ticks up to a bound: it waits for the slowest of
the lookups, which are tried again after five seconds, and for a fetch of the probes.  The drain of a worker
(`fetch`) asks for the sockets of the whole cluster, waits for the answer, which may never come, and may
be rejected, which nobody handles; when it is answered all probes that are connected by then are told to leave.

## 3. What is checked

| Run | Instance | Shows |
|---|---|---|
| `store_safety` | 2 measurements, 2 tests each, 2 cleanups, 1 fault, late or early output of 1 result until the fault; symmetric | `CounterIsExact`, `FinishedIsComplete`, `OffloadedAtMostOnce`, `InProgressIsTracked`, `FinishedIsHandedOver`, the action properties `FinishedIsFinal` and `ReportsAreKept`, and refinement of the lifecycle |
| `store_liveness` | 1 measurement, 2 tests, 2 cleanups, 2 faults, repeated results | `EveryMeasurementFinishes`, even if no probe answers; `EveryMeasurementIsOffloaded` unless a fault occurs |
| `offloader` | 2 records that grow old with 3 faults, or 3 younger ones with 1; batches of 2, jobs with 2 attempts, `ResultTTL` 3 ticks | `NothingIsForgotten`, `ReadsFindTheRecord`, `EveryRecordIsArchived` unless its batch or job was dropped |
| `probe_list_safety` | 1 node pulls from a stream of 3 events: one probe with 2 versions and 1 failed command, lost event, expired entry or lost document; or both push, and lists are fetched when the probe is connected; or 2 probes, of which diffs are loaded as a whole | `FetchedListsAreFresh`, `CaughtUpNodesAgree` |
| `probe_list_liveness` | 1 pushing and 1 pulling node, a stream of 2 events, 1 fault of any kind | `ListsConverge` |
| `credits` | 2 calls, 3 credits and 1 more later, threshold 1, 1 fault | `BooksBalance`, `EverythingIsFlushed` |
| `rate_limits` | 3 requests for 1 or 2 tests on 2 workers, limit 2, 2 credits and 1 more later, 1 window that ends, 1 fault | `RefusalsTakeNoPoints`, `CreditsBuyTests`, `RememberedRefusalsAreRight`, `EveryRequestIsAnswered`, and refinement of `FreeLimit` |
| `adopted_probes` | a device that changes its IP or is installed anew, another that has its IP; 2 users, 3 rows, 1 adoption or failed command | `MatchesAreSound`, `AdoptionsAreKept`, `EveryProbeGetsItsRow` |
| `api_process` | the nine subjects, see below | fourteen properties, see below |
| `probe_list_lost_event` | 1 probe, a stream of 2 events, 1 event that is never sent | a violation of `NewEntriesAreFresh`, see section 5 |
| `credits_lost_update` | 2 calls, 5 credits, threshold 2 | a violation of `GrantsArePaid`, see section 5 |
| `world_over_limit` | 6 continents with the default weights, limit 7 | a violation of `LimitIsKept`, see section 5 |

The subjects of `api_process`:

| Subject | Instance | Shows |
|---|---|---|
| schedules | 2 schedules, 2 intervals, 2 configurations, 2 changes in 2 seconds, 2 chunks, 1 failure | `NoTimerIsLost`, `TimersFollowTheTable` |
| tokens | 1 token that changes twice, 2 requests, TTL of 2 ticks, queries that take up to 1, 5 ticks | `AnswersAreRecent` |
| overrides | 2 overlapping ranges, 2 devices, 3 edits in 3 seconds | `CacheFollowsTheTable` |
| selection | 4 probes in 3 networks and 2 cities, of which one may not be ready, 6 places of which two are magic and one is the world, limits 1 to 3 of `MaxTests` 3, 2 locations at a time | `LimitIsMet`, `ProbesAreSpread` |
| geoip | 3 services, 4 reports, 2 cities, 1 mishap | `PlacesAreRight` |
| limits | 3 probes on 2 nodes, of which any two share a group, a range or an alternative IP | `SurplusIsRight`, `EarlierProbesAreSeen`, `LimitsHoldInTheEnd` |
| lists | 2 clouds with overlapping ranges, 2 workers of which 1 dies, 2 probes | `TagsFollowTheAddresses` |
| answers | a measurement created at the beginning or the end of a minute, 2 failed cleanups, 36 units of time | `ImmutableAnswersAreFinal` |
| cluster | 2 workers, up to 4 forks, 1 probe, handshakes of up to 3 ticks, the drain 2 ticks before the exit, which is 5 ticks after the signal | `OneWorkerSyncs`, `ProbesLeaveInTime` |

Why these bounds.  *Store*: the races are between two finishers of one record
(two results, a result and a cleanup, two cleanups), and two records are needed
for a cleanup whose batch fails half-way; a second fault adds no new pair, and
`store_liveness` has two.  Progress matters only for the result it is written to, so one such result at a time is enough
(`InBounds`); the theorems have no such bound.  *Answers*: a record created in the last five seconds of a minute is
nearly a minute younger than its id, and 36 units are when answers become immutable.
*Archive*: three faults take a record through failed insert,
failed job and crash, and with batches of two three records fill one
batch and part of another; `ResultTTL` of three ticks is the least that leaves a retried job
(`MaxAttempts` 2) its records, and `MaxAge` lies beyond it.  *Probe list*: a stream of
three events can hold two unread ones behind the cursor, and be trimmed past it;
two versions let a probe change while its first version is being fetched; the
reader's own events push out others only if it pushes.
*Credits*: two calls and the flush are the least that replaces an entry while a
flush holds it; the balance starts on either side of the threshold, and below it there is room
for direct calls.  *Rate limits*: with three requests two can be in flight when a third is
refused, and a window of two tests can be exceeded by a part of a request.
*Adoptions*: the three probes are those of the cases the code has passes for; a fourth row or a second event
multiplies the states beyond what can be checked in minutes, and one event of each kind occurs.
*Selection*: the places overlap, nest and leave probes out, and the limits lie below, at and above
the number of probes of a place; a magic string that all four probes match finds them in two classes, of which
three (`MaxTests`) are as many as a request may have.  *Limits*: two probes on different nodes are
what a check misses, and the third one makes the passes interact.
*Tokens*: the clock runs one tick past the horizon, the life of an entry and two queries, that the property
allows.  *Cluster*: the drain begins three ticks after the signal, and a handshake of three ticks is the shortest
that may outlast it; four forks allow the process with the task to die twice, once as a
successor.

Where a system may really stop, when all that was to be done is done or a counter is at
its bound, deadlock checking is off; the probe list and the credits never stop.

**Fairness.**  *Store*: Node.js resumes what Redis has answered (weak fairness of
the continuations), every cleanup reschedules itself whatever happened
(`scheduleCleanup`, in `finally`), and clocks advance.  Probes owe nothing: neither progress nor
results are fair.  *Archive*: the queue has a timeout besides its size, batches
and jobs go on; ticks need no fairness.  *Probe list*: both timers are set again in `finally`;
a pull that finds only the node's own events does nothing, so the step that does
something is enabled again and again rather than for good, and strong
fairness stands for a timer that fires in one of these moments.  *Credits*: the
flush is scheduled again in `finally`.  *Rate limits*: a worker goes on with its requests, and
its timers run; the primary process owes nothing.  *Adoptions*: syncs are scheduled
again whatever fails, and the list catches up.  *Schedules*: syncs and creations go
on; timers fire, and now and then when a schedule has probes (strong, because a
timer may be replaced before it fires).  *Limits*: lists are synchronised and looked through
again and again, and a socket that is told to disconnect does.  Faults are never fair.

## 4. What is proved

The theorems below hold for every value of the constants that satisfies the assumptions of the
module: any sets of records, requests, workers, probes, schedules, ranges and services, and any
number of faults.  Most of the assumptions say that a bound is a natural number, that a set is finite
(`Ids`, `Sizes`, `Ranges`, `Probes`, `Schedules`, `Services`), or that the value that stands for
"nothing" is none of the others.  Those that state something about the program are named below.

**How.**  None of the safety properties is inductive.  Each proof module states the
strengthening that is (`TypeOK`, then one named conjunct per idea), shows that the initial states
satisfy it and that every step keeps it, with one step per action, and derives the properties.  TLC
has checked each of these invariants on the instance of the run first, over type
invariants that give every field its domain.

| Module | Theorem | States |
|---|---|---|
| `MeasurementStoreProofs` | `ArchivedAtMostOnce`, `NeverForgotten`, `FinishedForGood` | `OffloadedAtMostOnce`, `InProgressIsTracked`, `FinishedIsFinal`, with repeated results |
| | `CounterAlwaysExact`, `FinishedIsAlwaysComplete`, `ReportsAlwaysKept` | `CounterIsExact`, `FinishedIsComplete`, `ReportsAreKept`, when no test reports twice |
| | `FinishedAlwaysHandedOver` | `FinishedIsHandedOver` |
| | `StoreImplementsLifecycle` | refinement of `MeasurementLifecycle` |
| `StoreOffloaderProofs` | `NothingEverForgotten`, `ReadsAlwaysFindTheRecord` | `NothingIsForgotten`, `ReadsFindTheRecord` |
| `SyncedProbeListProofs` | `CaughtUpNodesAlwaysAgree`, `FetchedListsAlwaysFresh` | `CaughtUpNodesAgree`, `FetchedListsAreFresh` |
| `CreditsMasterProofs` | `BooksAlwaysBalance` | `BooksBalance` |
| `RateLimitsProofs` | `RememberedRefusalsAlwaysRight`, `RefusalsNeverTakePoints`, `CreditsAlwaysBuyTests` | `RememberedRefusalsAreRight`, `RefusalsTakeNoPoints`, `CreditsBuyTests` |
| | `FreeLimitAlwaysKept` | refinement of `FreeLimit` |
| `AdoptedProbesProofs` | `MatchesAlwaysSound`, `AdoptionsAlwaysKept` | `MatchesAreSound`, `AdoptionsAreKept` |
| `SelectionProofs` | `LimitAlwaysMet`, `ProbesAlwaysSpread` | `LimitIsMet`, `ProbesAreSpread` |
| `ApiProcessProofs` | `OneWorkerAlwaysSyncs`, `ProbesAlwaysLeaveInTime` | `OneWorkerSyncs`, `ProbesLeaveInTime` |
| | `CacheAlwaysFollows`, `EarlierProbesAlwaysSeen`, `SurplusAlwaysRight`, `ImmutableAnswersAlwaysFinal`, `AnswersAlwaysRecent`, `TimersNeverLost`, `TagsAlwaysFollow`, `PlacesAlwaysRight` | `CacheFollowsTheTable`, `EarlierProbesAreSeen`, `SurplusIsRight`, `ImmutableAnswersAreFinal`, `AnswersAreRecent`, `NoTimerIsLost`, `TagsFollowTheAddresses`, `PlacesAreRight` |
| | `EveryComponentBehaves`, `ProcessIsSafe`, `ProcessStepsAreSafe` | all of those of `SelectionProofs` and of this module, of `ApiProcess` |

**Store.**  From `TestsAssumption` (the tests are a finite nonempty set).  That a record is
archived at most once needs: only a script that finds the record in progress makes its process a
holder; finishing compresses the document, so that it cannot be found in
progress again; a holder excludes all others and has not archived yet
(`HoldingInv`, `DocumentInv`).  That no measurement is forgotten needs to know that a
cleanup removes only the entries of ids whose script has run (`CleanupInv`), and
that the entry was written before the requests went out (`CreationInv`,
`TrackingInv`).  For the counter, `CInv` relates the open results in the document
to the handlers still to come; here a repeated result would break it.  The lemmas `Open*` say
what each operation does to the set of open tests and its cardinality.  A finished record that is
not archived has a holder that is alive, as long as nothing failed.

**Archive.**  From `BackoffAssumption` (a job runs out of attempts before its records expire).  The
age of a record and the attempts its job has left are tied together by `JobInv`: each tick
has cost an attempt, so while a job waits its records are still in Redis.
`ExpiryInv` says that a TTL is shortened only once the row is there.  A read that Redis has to
answer meets a record whose clock cannot run out before it is over (`ReadInv`).

**Probe lists.**  From `BoundsAssumption` (a stream has room for one event) and `NothingAssumption` only.
That a reader agrees once it has read everything is not inductive: it says nothing while events
are outstanding.  `SyncInv` states what is right at any position of the stream.  `Target(m)` is
the list that the readers of `m` are going to have: the one being written, or else `m`'s own.  A list
is right up to event `i` (`RightTo`) if it differs from the target only for probes that `m`'s later events
name, the one it is still to publish included, or one of those events has it
reloaded as a whole (`Open`).  `ReadInv` says so of a node's entry at its cursor, of each task of a pull (after the diff
it has noted is applied), and of the entry at the end of the stretch a pull is reading.  To keep this through trims
a reader whose next event was cut off must be at position 0, where nothing is claimed
and the document is read as a whole; through a pull that patches a list with single
probes of a newer document, that a removed probe is gone for good and an updated one is in
the target or its removal is announced later (`EventInv`); through pushes, that the document is the
target or differs from it only by what is about to be announced (`PushInv`).  The lemmas `*Does` say what each action leaves alone,
`Events*` and `Touched*` how events become fewer as positions move, `Carried*` how what is right
stays right.

`FreshInv`, on top of it, is about the one call of `fetchProbes`.  A pull takes a list for fresh if the last
event it has read is, although only the probes of the events have been fetched.  So at each position
the list must be fresh already for the probes that no later event names, provided one of these
events is fresh and none has it reloaded (`FreshTo`, `Covers`); the same is said of the tasks of a pull
(`TaskProbes`).  What makes this inductive is that a push which is fresh has collected the
probes after the call: where readers are right up to a position (`SyncInv`), their lists
differ from what was collected only for the probes that the events name (`CollectedFresh`).  The rest is
about a probe that left before the call: a fresh event does not update it, and if an
earlier event that is read together with a fresh one does, one of those that follow removes
it (`UpdateInv`), since a patch keeps a probe that the document does not have any more.
`WrittenInv` and `DocumentInv` say that whatever was announced has been written, so a patch finds it.

**Credits.**  What was granted and not deducted is at most what is owed, unless an entry was overwritten or has
expired; what is owed is at most that plus `uncertain`, unless an entry was replaced that a flush had listed
(`doubled`).  Both halves (`BooksInv`) need to know that a flush which holds the buffer's entry has one to hold
(`EntryInv`) and that only deposits add to the row (`RowInv`); the second also that what a failing flush would put back is not
owed a second time (`HeldInv`).

**Rate limits.**  A refusal, on its way or remembered, stands until the next deposit: the balance
never grows otherwise (`RefusalInv`).  `RefusalsTakeNoPoints` and `CreditsBuyTests` compare a counter
with a sum over the requests in flight.  The model therefore keeps sums as the cardinality of a
set of units, one element `<<request, k>>` per point or credit (`Held`, `Kept`, `Due`), and the lemmas about
them say how the set changes when one request moves.  The proof of the refinement maps the
allowance to `Limit + late` and what the counter and the requests in flight hold to the
tests already given (`FreeInv`).

**Adoptions.**  From `DataAssumption` (finitely many sockets with the fields the code reads, none of which has its
IP among its alternative ones) and `NothingAssumption`.  The matching and the search for duplicates are
folds, and a fold is a run of states, one per element, each a step from the one before
(`PassRuns`, `MatchRuns`, `DuplicatesRun`).  What the first state of a run has, and each step keeps, the last one has:
this induction goes by the least number that is missing from a set (`Induction`).  `Sound` is
what a pass keeps from row to row: every row is matched, left, or still to come; the maps hold at their own keys
just the probes that are not matched (`MapsHold`).  `Progress` says what a whole pass has achieved: no
uuid or IP of an adopted row that is left leads to a probe any more; later passes only take from the maps,
so it stays achieved, and a row without a user, which only the last five passes match, cannot take
a probe that fits an adopted row (`Staged`).  That the rows of a table have an order at all, and each
comes once in it, is `DProbesIsOrder`.

In the search for duplicates (`DuplicatesSound`) what is found in the maps of uuids and IPs has
been kept, and what is kept is never deleted afterwards, since each row is looked at once: so the
row that a deleted one duplicates is not among the deleted ones, and has the same user if
the deleted one has any.  That is so in the rows the host has read, with any number of hosts; that the kept row is also in the
table when the deletion is executed is a second invariant (`CachedInv`): from the reading of the rows to the
deletion nobody else deletes.  With two API hosts this is false, see section 5, so `AdoptionsAreKept` says it
only of one (`OneHost`), and the instance of `adopted_probes` has one.

**Cluster.**  Nothing is assumed of how long a handshake takes, but that there is some bound.  The workers whose place
somebody has to take and the forks still to come are within the bound (`ForkInv`); a worker with
the task is alive or its exit is still to be handled (`SyncInv`).  A probe whose worker has been told is either still
shaking hands, and has been for at least as long as the worker knows, or was connected before; once any worker
has had an answer to its request for the sockets, the probes that are still connected came later, after a handshake that
lasted at least as long as the drain waited (`ProbeInv`, `DrainInv`).  Timers that fire on time, and messages between the
processes of a host that arrive within five seconds, are part of the model.

**Selection.**  From `SelectionAssumption` (finitely many probes, places and categories; limits between 1 and
`MaxTests`, which is what the schema lets through).  What may be taken of a location is all it has found,
or, of a magic string, the closest classes of it: then these are all, or at least `MaxTests` probes
(`KeptAre`), and no limit asks for more.  While probes are taken, those a list had are picked or still in it
(`CoverInv`).  That the limit is not passed follows from the start of a round: the locations to be visited
times the share of each are within what is missing (`PaceInv`), because the weights of locations are equal
and sum up to at least their number (`RemainingWeights`, `PlacesCount`); when the share is rounded down to none, each
takes one, and the comparison before each visit is exact, as steps of one cannot miss it.  That every location
is visited if the limit allows it needs that the first round's share is at least one (`VisitInv`).  For
a single location what is picked is the beginning of a shuffle (`PrefixInv`), and since the groups are
dealt from in turn, a network comes again in it only after each has come once (`PrefixSpread`).  With the weights of
the continents `PaceInv` fails, which is the finding `world_over_limit`.

**Overrides.**  A row that was set since the last load is newer than all that was loaded, unless it
was set in the very second of the newest one (`LoadedInv`): so equal timestamps and equal
numbers of rows mean equal rows, a deletion changes the number, and the cache is dropped when there is
something new.

**Limits on probes.**  Whoever waits for an index waits for one that was read after its
probe came, and a probe that was there before is in the index, or in the list the index is
still to read (`Seen`).  What the three passes of a node disconnect (`SurplusIsRight`) follows from the
list alone, which is finite because `Probes` is, and `IpRanges` is assumed to be.  After the
first pass no two probes share an IP (`IpsApart`).  The second does one range after another, a fold,
so it is an induction over the sets of ranges done (`RangesFold`, `SubsetInduction`): a
range that is done stays apart while others close more (`RangesApart`, `RangesGrow`).  The third leaves the first
`GroupLimit` keys of each group (`FirstOnes`, `GroupsLimited`).  That nothing is disconnected
without a reason: the lowest probe of an IP or range outlives the first two passes (`LowestNearStays`), and
where the third closes a key, the group keeps as many others as it may have (`AMateStays`).

**Answers.**  From `StableAssumption`, the inequality between the time a test may take, the leases
and retries of `MaxCleanupFailures` cleanups, and the age at which answers become immutable.  The
invariant bounds how late a cleanup can be after each failure.

**Tokens.**  Each verdict, cached, or read and not used yet, was the table's at most as many ticks ago as
its entry has lived plus the slowest query; one that waits for the date of use to be written, at most as many
more as that query has taken.

**Schedules.**  The numbers of the timers that run are those of the map, each of its own schedule,
and there are as many numbers as timers at most, so that a new one is always free.
Cardinalities of the sets of timers are compared by bijections.

**Lists of addresses.**  A worker serves only after it has read all clouds; so the first cloud with
a range around an address is one of all clouds, whatever the order in which the files were read.

**Places.**  In any set of services: the group that is chosen is a largest one, services that name another
country could as well be missing (`SameGroup`), and the last service, fastly, is followed only
if it is alone (`LastIsAlone`).  A node that fills the list of cities has not lost a
city since it began, unless Redis was cleared.

**The process.**  A step of `ApiProcess` is a step of one component and leaves the others alone
(`EveryComponentBehaves`), so what is proved of the components is proved of their composition.

**What the proofs changed in the models.**  Type invariants now give full domains; sums and smallest
elements are written as cardinalities and minima of sets instead of recursive sums and sequences
(`RateLimits`, `GeoIp`, `AddressLists`), which TLC evaluates to the same; maps are merged and rows are sorted
by operators of the model instead of those of the TLC module (`Put`, `DProbes`), which mean nothing to the prover;
the orders of `Selection` are
sets of sequences with a property, where they had been built by sorting, and its filter by keywords is a recursive
function; assumptions that had been implicit in the instances are stated.  One exception became narrower: in
`Overrides`, a deletion is never excused, because the number of rows tells of it.  And the assumption that a
handshake is over before the drain, which the code does not give, became an exception that the property names.

**Only model-checked.**  Everything about liveness (fairness and `ENABLED` are beyond
the prover).  Every safety invariant and action property of the passing runs is
a theorem.  Where a proof
needs induction over finite sets or numbers it goes by the least element of a set
(`LeastExists`), and reaches what folds compute in that form; recursive operators and functions over
data are out of reach.

## 5. Findings

* `probe_list_lost_event`: `syncPush` makes the new list its own entry
  (`synced-probe-list.ts:386`) before it writes the document and announces the
  difference.  If the announcement fails, or the write took place but was
  reported as failed, stamps agree and nothing differs at the next push, which
  sends only a keep-alive.  All other nodes keep the old probes until something
  else changes about them, and `fetchProbes` resolves with a list that lacks the
  change, against the test "resolves fetchProbes() only after new data arrives".
* `credits_lost_update`: while `flush` awaits its UPDATE, a call that went to the
  database may replace the entry in the buffer (`credits-master.ts:127`).  If the
  UPDATE fails, the catch block puts the old object back (line 68), and what was
  granted from the new one is never deducted, against the test "should retry the buffer
  item after a generic flush error" and "each test above the limit costs one
  credit" (README).  Two measurements started at the same time and one deadlock in
  the database suffice.
* `world_over_limit`: when a request names no location, each continent gets the share of
  the limit that its weight gives it, rounded down, but at least one probe
  (`probes-location-filter.ts:179`), and only the equality of the number of
  probes with the limit, tested before each continent, stops the loop (line 174).  With the weights of
  the default configuration, in an order of the shuffle, a request for seven gets eight,
  against "The maximum number of probes that should run the measurement"
  (`public/v1/components/schemas.yaml`).
* Limits the models make explicit without calling them errors.  A document
  lost in the middle of a push is not noticed (the variable `lost` excludes this
  case and the one above from the properties of the passing runs).  And "occasionally also refresh the TTL" becomes
  "at every push" half an hour after the last change, because
  `changeTimestamp` is what the age is computed from, and a refresh keeps it.
  Progress that is handled after the result of its test, while other tests are open, replaces or extends
  the output of that result (`scripts.ts:34-49`, `73-88`): what clients read then is the reported status with the
  output of a progress message.  `ReportsAreKept` is about the status only.
  Credits: an entry that `updateBuffer` replaces after `flush` has listed it, and before it comes to it
  (`credits-master.ts:60`, `78`, `127`), is flushed although its credits are in the new entry too: they are deducted twice.
  `BooksBalance` excepts it by `doubled`.  It takes more than one entry to flush or a call that ends in
  the same turn of the event loop.  An entry that has been idle for a minute is dropped whatever it owes; a flush comes
  to it before, each second, so that takes a command that hangs for a minute (`expired`).
  A verdict on a token may be as old as the life of its entry (two minutes) and two slow queries: the one that
  read it, and the UPDATE of the date of use.
  When a host exits, a probe is cut off that was shaking hands when its worker was told, for longer than
  the fifteen seconds before the drain, which the retries of the lookups allow; and all of them may be if
  the request for the sockets fails, as nobody handles its rejection (`server.ts:104`).
  The addresses that must not be measured are looked up by their exact name when a request is validated: a name with a
  trailing dot, which the schema allows, is another name, and schedules are not validated.  So no property says
  that what is listed is not measured.
  A measurement whose cleanup fails three times may be kept unfinished for a year
  (`Answers`).  Two edits within a second may look like one (`blurred`, `unnoticed`).
  A list of cities that is being filled again, after Redis was cleared, is taken for complete
  (`cleared`).  The credits of a call that a worker gave up on are taken all the same (`gaveUp`).
  Each API host synchronises the table of adoptions on its own (`index.ts` gives the task to one process of a
  host), and two may delete each the row that the other one keeps.  Both hosts see a new probe and make a row for
  it; one reads both rows and plans to keep the one with the larger id; a user adopts the other one; the second host reads
  the rows, finds the adopted one first, and plans to keep that.  Both delete: the adoption is gone, although
  "First item will be preserved" (`adopted-probes.ts:372`) is true of each of them.  TLC finds this behaviour of
  17 states in `AdoptedProbes` with two hosts, one probe, two rows and one event, if `OneHost` is taken out of
  `AdoptionsAreKept`.
  Two nodes with different lists may disconnect each other's probe; both reconnect.
  The lines of the lists of domains are split at `/r?\n?\s+/` (`malware/domain.ts:27`), where
  `malware/ip.ts:31` has `\r?\n`: a name that ends in an r loses it, and is another domain or none.
  Of two clouds with overlapping ranges the tags are those of the file that was read first.

## 6. Not modelled, and what to prove next

Not modelled: schemas (declarative validation), Redis clients, metrics and logging.  Of the
modelled parts: the load statistics of probes and messages to single nodes
(`SyncedProbeList`), the limiter of GET requests (a counter of the library), the tokens that prove
alternative IPs (which ones a probe can show is nondeterministic in `ProbeLimits`),
notifications and tags (`AdoptedProbes`), the cache of adoption tokens and adoption by
codes, names and their normalisation and the conversions of each service (`GeoIp`),
session cookies and scopes (`Tokens`), what must not be measured (`AddressLists`), the fields of an id other than its minute
(`Answers`), stateless routes and middleware.  `PROJECT.json` says the same per component.
No property bounds how many credits are granted beyond the balance
while a balance is being read (`credits-master.ts:55`): it depends on how long the read takes.
Nor does one say that nodes which fill the list of cities again, after Redis was cleared, place addresses right.

Liveness stays with TLC.
