---------------------------- MODULE StoreOffloader ----------------------------
(***************************************************************************)
(* Archiving finished measurements, and reading them back:                 *)
(* src/src/measurement/store-offloader.ts and the read path of             *)
(* src/src/measurement/store.ts.                                           *)
(*                                                                         *)
(* enqueueForOffload pushes a record on an in-memory queue, which hands it *)
(* out in batches.  A batch is inserted into Postgres; if that fails its   *)
(* ids become a job of a persistent BullMQ queue, whose worker reads the   *)
(* records back from Redis and inserts them, again and again.  An inserted *)
(* record may leave Redis an hour later, any other one after resultTTL.    *)
(* A read asks Postgres first if the measurement is older than 30 minutes. *)
(*                                                                         *)
(* Time is counted in ticks of 30 minutes.  If n ticks separate two events *)
(* then more than n-1 and less than n+1 half hours do, so a condition like *)
(* "older than 30 minutes" is false for n = 0, true for n >= 2, and either *)
(* for n = 1.  Batches and reads take seconds: a tick waits for them.      *)
(***************************************************************************)
EXTENDS Naturals, Sequences, FiniteSets, SequencesExt

CONSTANTS Ids,          \* measurement ids, of one user tier
          BatchSize,    \* batchSize of the BatchQueue (100)
          MaxAttempts,  \* attempts of a fallback job (28)
          ResultTTL,    \* measurement.resultTTL (336 ticks)
          MaxAge,       \* bound on the ticks (the tables keep rows for 180 days)
          MaxFaults     \* bound on the faults of a behaviour

ShortTTL == 0           \* mutant: the key expires within the half hour

OffloadedTTL == 2       \* the 60 minutes of setOffloadedExpiration

ASSUME IdsAssumption == IsFiniteSet(Ids)
ASSUME BoundsAssumption ==
  /\ BatchSize \in Nat \ {0} /\ MaxAttempts \in Nat \ {0}
  /\ ResultTTL \in Nat /\ MaxAge \in Nat \ {0} /\ MaxFaults \in Nat

\* The backoff of at most 5 minutes makes a job use up its attempts, at least
\* one per tick, long before the records it must read back leave Redis.
ASSUME BackoffAssumption == MaxAttempts < ResultTTL

VARIABLES
  key,        \* the results key in Redis: "none" yet, "stored", "gone"
  age,        \* ticks since the measurement was created
  shortened,  \* ticks since the last EXPIRE of an hour, or Never
  rows,       \* rows of the id in measurement_{tier}; each one also exported
  queue,      \* the in-memory BatchQueue
  batches,    \* batches being inserted, or whose insertion has failed
  expiring,   \* inserted ids whose EXPIRE has not been executed
  jobs,       \* fallback jobs
  flight,     \* the read of id in flight: "none", or the store it asks;
              \* "onlyRedis" after an error of Postgres
  faults,     \* faults so far
  dropped     \* bookkeeping: ids whose batch or job died with nobody left to retry

vars == <<key, age, shortened, rows, queue, batches, expiring, jobs, flight,
          faults, dropped>>

Never == MaxAge + 1
Batch == [ids : SUBSET Ids, state : {"inserting", "failed"}]
Job == [ids : SUBSET Ids, attempts : 0..MaxAttempts - 1, tried : BOOLEAN,
        records : SUBSET Ids, state : {"waiting", "running"}]

TypeOK ==
  /\ key \in [Ids -> {"none", "stored", "gone"}]
  /\ age \in [Ids -> 0..MaxAge]
  /\ shortened \in [Ids -> 0..Never]
  /\ rows \in [Ids -> 0..1]
  /\ queue \in Seq(Ids)
  /\ batches \subseteq Batch
  /\ expiring \subseteq Ids
  /\ jobs \subseteq Job
  /\ flight \in [Ids -> {"none", "db", "redis", "onlyRedis"}]
  /\ faults \in 0..MaxFaults
  /\ dropped \subseteq Ids

Init ==
  /\ key = [id \in Ids |-> "none"]
  /\ age = [id \in Ids |-> 0]
  /\ shortened = [id \in Ids |-> Never]
  /\ rows = [id \in Ids |-> 0]
  /\ queue = <<>>
  /\ batches = {}
  /\ expiring = {}
  /\ jobs = {}
  /\ flight = [id \in Ids |-> "none"]
  /\ faults = 0
  /\ dropped = {}

Fault == faults < MaxFaults /\ faults' = faults + 1

-------------------------------------------------------------------------------
(* The in-memory queue and its batches *)

\* MeasurementStore has finished a record, and does so once.  It may have been
\* created before the last tick.
EnqueueForOffload(id) ==
  /\ key[id] = "none"
  /\ key' = [key EXCEPT ![id] = "stored"]
  /\ age' \in {[age EXCEPT ![id] = n] : n \in {0, 1}}
  /\ queue' = Append(queue, id)
  /\ UNCHANGED <<shortened, rows, batches, expiring, jobs, flight, faults, dropped>>

StartFullBatch ==  \* mutant: a queue without the timeout
  /\ Len(queue) >= BatchSize
  /\ batches' = batches \cup {[ids |-> ToSet(SubSeq(queue, 1, BatchSize)), state |-> "inserting"]}
  /\ queue' = SubSeq(queue, BatchSize + 1, Len(queue))
  /\ UNCHANGED <<key, age, shortened, rows, expiring, jobs, flight, faults, dropped>>

\* The queue is full or its timeout fires; several batches may be in progress.
StartBatch ==
  LET n == IF Len(queue) < BatchSize THEN Len(queue) ELSE BatchSize IN
  /\ queue # <<>>
  /\ batches' = batches \cup {[ids |-> ToSet(SubSeq(queue, 1, n)), state |-> "inserting"]}
  /\ queue' = SubSeq(queue, n + 1, Len(queue))
  /\ UNCHANGED <<key, age, shortened, rows, expiring, jobs, flight, faults, dropped>>

\* INSERT ... ON CONFLICT DO NOTHING, one transaction for all rows of a batch.
InsertRows(ids) == rows' = [id \in Ids |-> IF id \in ids THEN 1 ELSE rows[id]]

\* insertBatchToDb succeeds and, without waiting, sends the EXPIREs.
InsertBatch(b) ==
  /\ b.state = "inserting"
  /\ InsertRows(b.ids)
  /\ batches' = batches \ {b}
  /\ expiring' = expiring \cup b.ids
  /\ UNCHANGED <<key, age, shortened, queue, jobs, flight, faults, dropped>>

\* Reading the metas, compressing or inserting fails, or the reply of a
\* committed INSERT is lost.
InsertBatchFails(b) ==
  /\ Fault
  /\ b.state = "inserting"
  /\ InsertRows(b.ids) \/ UNCHANGED rows
  /\ batches' = (batches \ {b}) \cup {[b EXCEPT !.state = "failed"]}
  /\ UNCHANGED <<key, age, shortened, queue, expiring, jobs, flight, dropped>>

NewJob(ids) == [ids |-> ids, attempts |-> 0, tried |-> FALSE, records |-> {},
                state |-> "waiting"]

NoFallbackJob(b) ==  \* mutant: the failure is only logged
  /\ b.state = "failed"
  /\ batches' = batches \ {b}
  /\ UNCHANGED <<key, age, shortened, rows, queue, expiring, jobs, flight, faults, dropped>>

EnqueueFallbackJob(b) ==
  /\ b.state = "failed"
  /\ batches' = batches \ {b}
  /\ jobs' = jobs \cup {NewJob(b.ids)}
  /\ UNCHANGED <<key, age, shortened, rows, queue, expiring, flight, faults, dropped>>

\* The second failure in a row is only logged.  The job may exist all the same.
EnqueueFallbackJobFails(b) ==
  /\ Fault
  /\ b.state = "failed"
  /\ batches' = batches \ {b}
  /\ \/ jobs' = jobs \cup {NewJob(b.ids)} /\ UNCHANGED dropped
     \/ UNCHANGED jobs /\ dropped' = dropped \cup b.ids
  /\ UNCHANGED <<key, age, shortened, rows, queue, expiring, flight>>

-------------------------------------------------------------------------------
(* The expiration of archived records *)

\* EXPIRE on a key that is gone does nothing.
SetOffloadedExpiration(id) ==
  /\ id \in expiring
  /\ expiring' = expiring \ {id}
  /\ shortened' = [shortened EXCEPT ![id] = IF key[id] = "stored" THEN 0 ELSE @]
  /\ UNCHANGED <<key, age, rows, queue, batches, jobs, flight, faults, dropped>>

\* A failed EXPIRE also abandons those Bluebird.map has not issued.
SetOffloadedExpirationFails ==
  /\ Fault
  /\ \E abandoned \in (SUBSET expiring) \ {{}} : expiring' = expiring \ abandoned
  /\ UNCHANGED <<key, age, shortened, rows, queue, batches, jobs, flight, dropped>>

-------------------------------------------------------------------------------
(* The worker of the fallback queue *)

Replace(j, k) == jobs' = (jobs \ {j}) \cup {k}

\* getMeasurementsForOffloader; ids whose key is gone are filtered out.
StartJob(j) ==
  /\ j.state = "waiting"
  /\ Replace(j, [j EXCEPT !.state = "running",
                          !.records = {id \in j.ids : key[id] = "stored"}])
  /\ UNCHANGED <<key, age, shortened, rows, queue, batches, expiring, flight, faults, dropped>>

FinishJob(j) ==
  /\ j.state = "running"
  /\ InsertRows(j.records)
  /\ jobs' = jobs \ {j}
  /\ expiring' = expiring \cup j.records
  /\ UNCHANGED <<key, age, shortened, queue, batches, flight, faults, dropped>>

\* The attempt fails; the last one removes the job.
FailJob(j) ==
  /\ Fault
  /\ j.state = "running"
  /\ InsertRows(j.records) \/ UNCHANGED rows
  /\ IF j.attempts + 1 = MaxAttempts
     THEN jobs' = jobs \ {j} /\ dropped' = dropped \cup j.ids
     ELSE /\ Replace(j, [j EXCEPT !.attempts = @ + 1, !.tried = TRUE,
                                  !.state = "waiting", !.records = {}])
          /\ UNCHANGED dropped
  /\ UNCHANGED <<key, age, shortened, queue, batches, expiring, flight>>

\* The process dies: what it has in memory is lost, and BullMQ takes a job it
\* was running for stalled and gives it to another worker.
Crash ==
  /\ Fault
  /\ queue' = <<>>
  /\ batches' = {}
  /\ expiring' = {}
  /\ jobs' = {[j EXCEPT !.state = "waiting", !.records = {}] : j \in jobs}
  /\ flight' = [id \in Ids |-> "none"]
  /\ dropped' = dropped \cup ToSet(queue) \cup UNION {b.ids : b \in batches}
  /\ \E committed \in SUBSET {b \in batches : b.state = "inserting"} :
       InsertRows(UNION {b.ids : b \in committed})
  /\ UNCHANGED <<key, age, shortened>>

-------------------------------------------------------------------------------
(* Reads: getFromRedisOrOffloaderBufferCompressed, one flight per id *)

IsOlder(n, ticks) == IF n < ticks THEN {FALSE} ELSE IF n > ticks THEN {TRUE} ELSE BOOLEAN

StartRead(id) ==
  /\ key[id] # "none"
  /\ flight[id] = "none"
  /\ \E isOlderThan30m \in IsOlder(age[id], 1) :
       flight' = [flight EXCEPT ![id] = IF isOlderThan30m THEN "db" ELSE "redis"]
  /\ UNCHANGED <<key, age, shortened, rows, queue, batches, expiring, jobs, faults, dropped>>

\* The flight ends with the record.
ReadHit(id) ==
  /\ \/ flight[id] = "db" /\ rows[id] = 1
     \/ flight[id] \in {"redis", "onlyRedis"} /\ key[id] = "stored"
  /\ flight' = [flight EXCEPT ![id] = "none"]
  /\ UNCHANGED <<key, age, shortened, rows, queue, batches, expiring, jobs, faults, dropped>>

FallBackToRedis(id) ==
  /\ flight[id] = "db" /\ rows[id] = 0
  /\ flight' = [flight EXCEPT ![id] = "redis"]
  /\ UNCHANGED <<key, age, shortened, rows, queue, batches, expiring, jobs, faults, dropped>>

\* Any error of Postgres falls back to Redis, too.
ReadDbFails(id) ==
  /\ Fault
  /\ flight[id] = "db"
  /\ flight' = [flight EXCEPT ![id] = "onlyRedis"]
  /\ UNCHANGED <<key, age, shortened, rows, queue, batches, expiring, jobs, dropped>>

\* The flight ends with null: the client gets a 404.
ReadMiss(id) ==
  /\ flight[id] \in {"redis", "onlyRedis"} /\ key[id] = "gone"
  /\ flight' = [flight EXCEPT ![id] = "none"]
  /\ UNCHANGED <<key, age, shortened, rows, queue, batches, expiring, jobs, faults, dropped>>

-------------------------------------------------------------------------------
(* Time *)

\* Redis expires a key some time between the tick that makes it possible ...
MayExpire(id) == \/ age[id] >= ResultTTL
                 \/ shortened[id] # Never /\ shortened[id] >= OffloadedTTL

\* ... and the one before which it must have happened.
MustExpire(id) == \/ age[id] > ResultTTL
                  \/ shortened[id] # Never /\ shortened[id] > OffloadedTTL

Expire(id) ==
  /\ key[id] = "stored"
  /\ MayExpire(id)
  /\ key' = [key EXCEPT ![id] = "gone"]
  /\ UNCHANGED <<age, shortened, rows, queue, batches, expiring, jobs, flight, faults, dropped>>

\* What takes seconds is over, keys that had to expire are gone, and every job
\* has had an attempt since the last tick.
Tick ==
  /\ queue = <<>> /\ batches = {} /\ expiring = {}
  /\ \A id \in Ids : flight[id] = "none" /\ age[id] < MaxAge
  /\ \A id \in Ids : key[id] = "stored" => ~MustExpire(id)
  /\ \A j \in jobs : j.state = "waiting" /\ j.tried
  /\ age' = [id \in Ids |-> IF key[id] = "none" THEN 0 ELSE age[id] + 1]
  /\ shortened' = [id \in Ids |-> IF shortened[id] = Never \/ shortened[id] > OffloadedTTL
                                  THEN shortened[id] ELSE shortened[id] + 1]
  /\ jobs' = {[j EXCEPT !.tried = FALSE] : j \in jobs}
  /\ UNCHANGED <<key, rows, queue, batches, expiring, flight, faults, dropped>>

-------------------------------------------------------------------------------

QueueStep ==
  \/ StartBatch \/ SetOffloadedExpirationFails \/ Crash
  \/ \E id \in Ids : EnqueueForOffload(id) \/ SetOffloadedExpiration(id)
  \/ \E b \in batches : \/ InsertBatch(b) \/ InsertBatchFails(b)
                        \/ EnqueueFallbackJob(b) \/ EnqueueFallbackJobFails(b)

WorkerStep == \E j \in jobs : StartJob(j) \/ FinishJob(j) \/ FailJob(j)

ReadStep(id) == \/ StartRead(id) \/ ReadHit(id) \/ FallBackToRedis(id)
                \/ ReadDbFails(id) \/ ReadMiss(id)

Next == \/ QueueStep \/ WorkerStep \/ Tick
        \/ \E id \in Ids : ReadStep(id) \/ Expire(id)

Spec == Init /\ [][Next]_vars

\* The batch queue's timer fires, Node.js resumes what has been answered, and
\* the worker takes the jobs whose backoff has passed.
Fairness ==
  /\ WF_vars(StartBatch)
  /\ WF_vars(\E b \in batches : InsertBatch(b) \/ EnqueueFallbackJob(b))
  /\ WF_vars(\E j \in jobs : StartJob(j) \/ FinishJob(j))

FairSpec == Spec /\ Fairness

-------------------------------------------------------------------------------
(* Properties *)

InMemory(id) == id \in ToSet(queue) \/ \E b \in batches : id \in b.ids
InJob(id) == \E j \in jobs : id \in j.ids

\* Every record the store hands over is in the archive or on its way there --
\* in the queue, in a batch or in a job that can still read it from Redis --
\* unless a batch or job was dropped, by a crash, by the failure of the fallback
\* or by the last attempt; and only an archived record leaves Redis before its
\* resultTTL is over.
NothingIsForgotten ==
  /\ TypeOK
  /\ \A id \in Ids :
       key[id] # "none" /\ id \notin dropped =>
         rows[id] = 1 \/ InMemory(id) \/ (InJob(id) /\ key[id] = "stored")
  /\ \A id \in Ids : key[id] = "gone" /\ age[id] < ResultTTL => rows[id] = 1

\* A read that Postgres answers, or that does not need Postgres, ends in a 404
\* only for a measurement whose archiving was given up.
ReadsFindTheRecord ==
  \A id \in Ids : flight[id] = "redis" /\ key[id] = "gone" => id \in dropped

\* Every record reaches the archive, through any failures that leave a batch, a
\* job and an attempt to go on with.
EveryRecordIsArchived ==
  \A id \in Ids : key[id] # "none" ~> rows[id] = 1 \/ id \in dropped
===============================================================================
