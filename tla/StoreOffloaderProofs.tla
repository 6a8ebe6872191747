-------------------------- MODULE StoreOffloaderProofs --------------------------
(***************************************************************************)
(* Proofs about StoreOffloader, for any set of ids, any batch size, any    *)
(* number of attempts that ends before the records expire, any number of   *)
(* faults and any length of the behaviour.                                 *)
(***************************************************************************)
EXTENDS StoreOffloader, SequenceTheorems, TLAPS

\* What is in memory is younger than two ticks: time waits for batches.
MemoryInv(id) == InMemory(id) => key[id] # "none" /\ age[id] <= 1

\* Every tick of a job's life has cost it an attempt, so its attempts run out
\* before its records expire.  A running job has read all records there are.
JobInv(id) ==
  \A j \in jobs :
    id \in j.ids =>
      /\ key[id] # "none"
      /\ age[id] <= j.attempts + 1
      /\ j.tried => age[id] <= j.attempts
      /\ j.state = "running" /\ id \notin j.records => key[id] = "gone"

\* Only archived records get the short expiration, and no record expires young.
ExpiryInv(id) ==
  /\ id \in expiring => rows[id] = 1
  /\ shortened[id] # Never =>
       key[id] # "none" /\ rows[id] = 1 /\ shortened[id] <= age[id]
  /\ key[id] = "gone" => age[id] >= 2
  /\ key[id] = "gone" /\ age[id] < ResultTTL => rows[id] = 1

\* Every record is archived or on its way to the archive, or was dropped.
ArchiveInv(id) ==
  key[id] # "none" /\ id \notin dropped =>
    rows[id] = 1 \/ InMemory(id) \/ (InJob(id) /\ key[id] = "stored")

\* A read that Redis has to answer finds a record that no clock can expire
\* before the read is over.
ReadInv(id) ==
  /\ flight[id] # "none" => key[id] # "none"
  /\ flight[id] = "redis" =>
       \/ id \in dropped
       \/ /\ key[id] = "stored" /\ age[id] < ResultTTL
          /\ shortened[id] = Never \/ shortened[id] <= 1

RecordInv(id) == /\ MemoryInv(id) /\ JobInv(id) /\ ExpiryInv(id)
                 /\ ArchiveInv(id) /\ ReadInv(id)

OInv == \A id \in Ids : RecordInv(id)

-------------------------------------------------------------------------------
(* The queue, as a sequence and as a set *)

\* A record that is pushed is in the queue, and so are those before it.
LEMMA ToSetAppend ==
  ASSUME NEW S, NEW s \in Seq(S), NEW e \in S
  PROVE  /\ Append(s, e) \in Seq(S)
         /\ ToSet(Append(s, e)) = ToSet(s) \cup {e}
<1>1. /\ Append(s, e) \in Seq(S)
      /\ DOMAIN s = 1..Len(s) /\ Len(s) \in Nat
      /\ DOMAIN Append(s, e) = 1..Len(s) + 1
      /\ \A i \in 1..Len(s) : Append(s, e)[i] = s[i]
      /\ Append(s, e)[Len(s) + 1] = e
  OBVIOUS
<1>2. QED
  BY <1>1 DEF ToSet

\* A queue is what the next batch takes and what it leaves.
LEMMA ToSetSplit ==
  ASSUME NEW S, NEW s \in Seq(S), NEW n \in 0..Len(s)
  PROVE  /\ SubSeq(s, n + 1, Len(s)) \in Seq(S)
         /\ ToSet(SubSeq(s, 1, n)) \subseteq S
         /\ ToSet(s) = ToSet(SubSeq(s, 1, n)) \cup ToSet(SubSeq(s, n + 1, Len(s)))
<1>1. Len(s) \in Nat /\ DOMAIN s = 1..Len(s) /\ n \in Nat /\ \A i \in 1..Len(s) : s[i] \in S
  OBVIOUS
<1>2. /\ DOMAIN SubSeq(s, 1, n) = 1..n
      /\ \A i \in 1..n : SubSeq(s, 1, n)[i] = s[i]
  BY <1>1
<1>3. /\ SubSeq(s, n + 1, Len(s)) \in Seq(S)
      /\ DOMAIN SubSeq(s, n + 1, Len(s)) = 1..Len(s) - n
      /\ \A i \in 1..Len(s) - n : SubSeq(s, n + 1, Len(s))[i] = s[n + i]
  BY <1>1
<1>4. ToSet(SubSeq(s, 1, n)) \subseteq ToSet(s)
  BY <1>1, <1>2 DEF ToSet
<1>5. ToSet(SubSeq(s, n + 1, Len(s))) \subseteq ToSet(s)
  BY <1>1, <1>3 DEF ToSet
<1>6. ASSUME NEW i \in 1..Len(s)
      PROVE  s[i] \in ToSet(SubSeq(s, 1, n)) \cup ToSet(SubSeq(s, n + 1, Len(s)))
  <2>1. CASE i \in 1..n
    BY <1>2, <2>1 DEF ToSet
  <2>2. CASE i \notin 1..n
    <3>1. i - n \in 1..Len(s) - n /\ s[i] = SubSeq(s, n + 1, Len(s))[i - n]
      BY <1>1, <1>3, <2>2
    <3>2. QED
      BY <1>3, <3>1 DEF ToSet
  <2>3. QED
    BY <2>1, <2>2
<1>7. ToSet(s) \subseteq S
  BY <1>1 DEF ToSet
<1>8. QED
  BY <1>1, <1>3, <1>4, <1>5, <1>6, <1>7 DEF ToSet

\* Nothing is in an empty queue.
LEMMA ToSetEmpty == ToSet(<<>>) = {}
BY DEF ToSet


-------------------------------------------------------------------------------
(* Rows and jobs *)

\* Inserting never takes a row away, and gives every inserted record its row.
LEMMA RowsGrow ==
  ASSUME TypeOK, NEW ids, InsertRows(ids) \/ UNCHANGED rows
  PROVE  /\ rows' \in [Ids -> 0..1]
         /\ \A id \in Ids : rows[id] = 1 => rows'[id] = 1
         /\ InsertRows(ids) => \A id \in Ids \cap ids : rows'[id] = 1
BY DEF TypeOK, InsertRows

\* A job as it is while running, before its next attempt, after a crash of its
\* worker and after a tick.
Started(j) == [j EXCEPT !.state = "running", !.records = {id \in j.ids : key[id] = "stored"}]
Retried(j) == [j EXCEPT !.attempts = @ + 1, !.tried = TRUE, !.state = "waiting", !.records = {}]
Stalled(j) == [j EXCEPT !.state = "waiting", !.records = {}]
Untried(j) == [j EXCEPT !.tried = FALSE]

\* What a job is made of.
LEMMA JobFields ==
  ASSUME NEW j \in Job
  PROVE  /\ j.ids \subseteq Ids /\ j.attempts \in 0..MaxAttempts - 1
         /\ j.tried \in BOOLEAN /\ j.records \subseteq Ids
BY DEF Job

\* Starting a job reads its records and costs no attempt.
LEMMA StartedJob ==
  ASSUME NEW j \in Job
  PROVE  /\ Started(j) \in Job
         /\ Started(j).ids = j.ids /\ Started(j).attempts = j.attempts
         /\ Started(j).tried = j.tried
         /\ Started(j).records = {id \in j.ids : key[id] = "stored"}
<1>1. {id \in j.ids : key[id] = "stored"} \subseteq Ids
  BY JobFields
<1>2. QED
  BY <1>1 DEF Started, Job

\* A job that is taken over keeps its attempts.
LEMMA StalledJob ==
  ASSUME NEW j \in Job
  PROVE  /\ Stalled(j) \in Job /\ Stalled(j).state = "waiting"
         /\ Stalled(j).ids = j.ids /\ Stalled(j).attempts = j.attempts
         /\ Stalled(j).tried = j.tried
BY DEF Stalled, Job

\* A tick only forgets that a job has been tried.
LEMMA UntriedJob ==
  ASSUME NEW j \in Job
  PROVE  /\ Untried(j) \in Job /\ Untried(j).state = j.state
         /\ Untried(j).ids = j.ids /\ Untried(j).attempts = j.attempts
         /\ Untried(j).tried = FALSE /\ Untried(j).records = j.records
BY DEF Untried, Job

\* A failed attempt is counted.
LEMMA RetriedJob ==
  ASSUME NEW j \in Job, j.attempts + 1 # MaxAttempts
  PROVE  /\ Retried(j) \in Job /\ Retried(j).state = "waiting"
         /\ Retried(j).ids = j.ids /\ Retried(j).attempts = j.attempts + 1
<1>1. j.attempts + 1 \in 0..MaxAttempts - 1
  BY JobFields, BoundsAssumption
<1>2. QED
  BY <1>1 DEF Retried, Job

-------------------------------------------------------------------------------
(* Type correctness *)

\* Every step keeps the types of the stores, of the queues and of the reads.
LEMMA TypeStep == TypeOK /\ [Next]_vars => TypeOK'
<1> SUFFICES ASSUME TypeOK, [Next]_vars PROVE TypeOK'
  OBVIOUS
<1> USE BoundsAssumption DEF TypeOK, Fault
<1>1. CASE StartBatch
  <2> DEFINE n == IF Len(queue) < BatchSize THEN Len(queue) ELSE BatchSize
  <2>1. n \in 0..Len(queue)
    BY LenProperties
  <2> HIDE DEF n
  <2>2. /\ batches' = batches \cup {[ids |-> ToSet(SubSeq(queue, 1, n)), state |-> "inserting"]}
        /\ queue' = SubSeq(queue, n + 1, Len(queue))
    BY <1>1 DEF StartBatch, n
  <2>3. batches' \subseteq Batch /\ queue' \in Seq(Ids)
    BY <2>1, <2>2, ToSetSplit DEF Batch
  <2>4. QED
    BY <1>1, <2>3 DEF StartBatch
<1>2. CASE SetOffloadedExpirationFails
  BY <1>2 DEF SetOffloadedExpirationFails
<1>3. CASE Crash
  <2>1. jobs' \subseteq Job
    <3>1. jobs' = {Stalled(j) : j \in jobs}
      BY <1>3 DEF Crash, Stalled
    <3>2. QED
      BY <3>1, StalledJob
  <2>2. dropped' \subseteq Ids
    <3>1. ToSet(queue) \subseteq Ids
      BY DEF ToSet
    <3>2. UNION {b.ids : b \in batches} \subseteq Ids
      BY DEF Batch
    <3>3. dropped' = dropped \cup ToSet(queue) \cup UNION {b.ids : b \in batches}
      BY <1>3 DEF Crash
    <3>4. QED
      BY <3>1, <3>2, <3>3
  <2>3. rows' \in [Ids -> 0..1]
    BY <1>3, RowsGrow DEF Crash
  <2>4. /\ queue' = <<>> /\ batches' = {} /\ expiring' = {} /\ UNCHANGED <<key, age, shortened>>
        /\ flight' = [id \in Ids |-> "none"] /\ Fault
    BY <1>3, Zenon DEF Crash
  <2>5. QED
    BY <2>1, <2>2, <2>3, <2>4
<1>4. ASSUME NEW id \in Ids, EnqueueForOffload(id) PROVE TypeOK'
  <2>1. queue' \in Seq(Ids)
    BY <1>4, ToSetAppend DEF EnqueueForOffload
  <2>2. age' \in [Ids -> 0..MaxAge]
    <3>1. PICK n \in {0, 1} : age' = [age EXCEPT ![id] = n]
      BY <1>4 DEF EnqueueForOffload
    <3>2. QED
      BY <3>1
  <2>3. QED
    BY <1>4, <2>1, <2>2 DEF EnqueueForOffload
<1>5. ASSUME NEW id \in Ids, SetOffloadedExpiration(id) PROVE TypeOK'
  BY <1>5 DEF SetOffloadedExpiration, Never
<1>6. ASSUME NEW b \in batches, InsertBatch(b) PROVE TypeOK'
  BY <1>6 DEF InsertBatch, InsertRows, Batch
<1>7. ASSUME NEW b \in batches, InsertBatchFails(b) PROVE TypeOK'
  <2>1. batches' \subseteq Batch
    BY <1>7 DEF InsertBatchFails, Batch
  <2>2. QED
    BY <1>7, <2>1, RowsGrow DEF InsertBatchFails
<1>8. ASSUME NEW b \in batches PROVE NewJob(b.ids) \in Job /\ b.ids \subseteq Ids
  BY DEF NewJob, Job, Batch
<1>9. ASSUME NEW b \in batches, EnqueueFallbackJob(b) PROVE TypeOK'
  BY <1>8, <1>9 DEF EnqueueFallbackJob
<1>10. ASSUME NEW b \in batches, EnqueueFallbackJobFails(b) PROVE TypeOK'
  BY <1>8, <1>10 DEF EnqueueFallbackJobFails
<1>11. ASSUME NEW j \in jobs, StartJob(j) PROVE TypeOK'
  <2>1. jobs' \subseteq Job
    BY <1>11, StartedJob DEF StartJob, Replace, Started
  <2>2. QED
    BY <1>11, <2>1 DEF StartJob
<1>12. ASSUME NEW j \in jobs, FinishJob(j) PROVE TypeOK'
  BY <1>12 DEF FinishJob, InsertRows, Job
<1>13. ASSUME NEW j \in jobs, FailJob(j) PROVE TypeOK'
  <2>1. j \in Job /\ j.ids \subseteq Ids /\ j.attempts \in 0..MaxAttempts - 1
    BY DEF Job
  <2>2. \/ jobs' = jobs \ {j}
        \/ jobs' = (jobs \ {j}) \cup {Retried(j)} /\ j.attempts + 1 # MaxAttempts
    BY <1>13, Zenon DEF FailJob, Replace, Retried
  <2>3. jobs' \subseteq Job
    BY <2>1, <2>2, RetriedJob
  <2>4. dropped' \subseteq Ids /\ faults' \in 0..MaxFaults
    BY <1>13, <2>1 DEF FailJob
  <2>5. rows' \in [Ids -> 0..1]
    BY <1>13, RowsGrow DEF FailJob
  <2>6. QED
    BY <1>13, <2>3, <2>4, <2>5 DEF FailJob
<1>14. CASE Tick
  <2>1. jobs' \subseteq Job
    <3>1. jobs' = {Untried(j) : j \in jobs}
      BY <1>14 DEF Tick, Untried
    <3>2. \A j \in jobs : Untried(j) \in Job
      BY UntriedJob
    <3>3. QED
      BY <3>1, <3>2
  <2>2. /\ age' \in [Ids -> 0..MaxAge]
        /\ shortened' \in [Ids -> 0..Never]
    BY <1>14 DEF Tick, Never
  <2>3. QED
    BY <1>14, <2>1, <2>2 DEF Tick
<1>15. ASSUME NEW id \in Ids, ReadStep(id) PROVE TypeOK'
  <2>1. /\ \E f \in {"none", "db", "redis", "onlyRedis"} : flight' = [flight EXCEPT ![id] = f]
        /\ faults' \in 0..MaxFaults
    <3>1. CASE StartRead(id)
      BY <1>15, <3>1 DEF StartRead
    <3>2. CASE ~StartRead(id)
      BY <1>15, <3>2 DEF ReadStep, ReadHit, FallBackToRedis, ReadDbFails, ReadMiss
    <3>3. QED
      BY <3>1, <3>2
  <2>2. UNCHANGED <<key, age, shortened, rows, queue, batches, expiring, jobs, dropped>>
    BY <1>15 DEF ReadStep, StartRead, ReadHit, FallBackToRedis, ReadDbFails, ReadMiss
  <2>3. QED
    BY <2>1, <2>2
<1>16. ASSUME NEW id \in Ids, Expire(id) PROVE TypeOK'
  BY <1>16 DEF Expire
<1>17. CASE UNCHANGED vars
  BY <1>17 DEF vars
<1>18. QED
  BY <1>1, <1>2, <1>3, <1>4, <1>5, <1>6, <1>7, <1>9, <1>10, <1>11, <1>12, <1>13, <1>14,
     <1>15, <1>16, <1>17
     DEF Next, QueueStep, WorkerStep

\* Everything the offloader and its reads keep has its type.
THEOREM OffloaderTypeCorrect == Spec => []TypeOK
<1>1. Init => TypeOK
  BY BoundsAssumption DEF Init, TypeOK, Never
<1>2. QED
  BY <1>1, TypeStep, PTL DEF Spec

-------------------------------------------------------------------------------
(* Nothing is forgotten *)

\* What is not older than a tick count is at most that many ticks old.
LEMMA IsOlderWhenNot ==
  ASSUME NEW n \in Nat, NEW b \in IsOlder(n, 1)
  PROVE  b \in BOOLEAN /\ (~b => n <= 1)
<1>1. CASE n > 1
  <2>1. ~(n < 1)
    BY <1>1
  <2>2. IsOlder(n, 1) = {TRUE}
    BY <1>1, <2>1, Zenon DEF IsOlder
  <2>3. QED
    BY <2>2, Zenon
<1>2. CASE ~(n > 1)
  <2>1. n <= 1
    BY <1>2
  <2>2. IsOlder(n, 1) = {FALSE} \/ IsOlder(n, 1) = BOOLEAN
    BY <1>2 DEF IsOlder
  <2>3. QED
    BY <2>1, <2>2, Zenon
<1>3. QED
  BY <1>1, <1>2

\* Every step keeps the five parts of the invariant, for every record x.
LEMMA RecordStep == TypeOK /\ OInv /\ [Next]_vars => OInv'
<1> SUFFICES ASSUME TypeOK, OInv, [Next]_vars, NEW x \in Ids
             PROVE  RecordInv(x)'
  BY DEF OInv
<1>a. MemoryInv(x) /\ JobInv(x) /\ ExpiryInv(x) /\ ArchiveInv(x) /\ ReadInv(x)
  BY DEF OInv, RecordInv
<1>b. /\ jobs \subseteq Job /\ batches \subseteq Batch /\ queue \in Seq(Ids) /\ expiring \subseteq Ids
      /\ rows \in [Ids -> 0..1] /\ age \in [Ids -> 0..MaxAge] /\ shortened \in [Ids -> 0..Never]
      /\ key \in [Ids -> {"none", "stored", "gone"}]
      /\ flight \in [Ids -> {"none", "db", "redis", "onlyRedis"}]
  BY DEF TypeOK
<1>c. 2 <= ResultTTL /\ ResultTTL \in Nat /\ MaxAge \in Nat /\ Never = MaxAge + 1
  BY BoundsAssumption, BackoffAssumption DEF Never
<1>e. /\ age[x] \in Nat /\ shortened[x] \in Nat /\ shortened[x] <= Never /\ rows[x] \in {0, 1}
      /\ key[x] \in {"none", "stored", "gone"} /\ Never \in Nat
  BY <1>b, <1>c
<1>d. ASSUME NEW j \in jobs, x \in j.ids PROVE age[x] < ResultTTL
  <2>1. age[x] <= j.attempts + 1 /\ age[x] \in Nat
    BY <1>a, <1>b, <1>c, <1>d DEF JobInv
  <2>2. j.attempts \in 0..MaxAttempts - 1
    BY <1>b, JobFields
  <2>3. QED
    BY <2>1, <2>2, BoundsAssumption, BackoffAssumption
<1>1. CASE StartBatch
  <2> DEFINE n == IF Len(queue) < BatchSize THEN Len(queue) ELSE BatchSize
  <2>1. n \in 0..Len(queue)
    BY <1>b, LenProperties, BoundsAssumption
  <2> HIDE DEF n
  <2>2. /\ batches' = batches \cup {[ids |-> ToSet(SubSeq(queue, 1, n)), state |-> "inserting"]}
        /\ queue' = SubSeq(queue, n + 1, Len(queue))
    BY <1>1 DEF StartBatch, n
  <2>3. ToSet(queue) = ToSet(SubSeq(queue, 1, n)) \cup ToSet(queue')
    BY <1>b, <2>1, <2>2, ToSetSplit
  <2>4. (\E b \in batches' : x \in b.ids)
          <=> x \in ToSet(SubSeq(queue, 1, n)) \/ \E b \in batches : x \in b.ids
    <3> DEFINE new == [ids |-> ToSet(SubSeq(queue, 1, n)), state |-> "inserting"]
    <3>1. new.ids = ToSet(SubSeq(queue, 1, n))
      OBVIOUS
    <3>2. batches' = batches \cup {new}
      BY <2>2
    <3> HIDE DEF new
    <3>3. QED
      BY <3>1, <3>2
  <2>5. InMemory(x)' <=> InMemory(x)
    BY <2>3, <2>4 DEF InMemory
  <2>6. QED
    BY <1>1, <1>a, <2>5 DEF StartBatch, RecordInv, MemoryInv, JobInv, ExpiryInv, ArchiveInv,
       ReadInv, InJob, Never
<1>2. CASE SetOffloadedExpirationFails
  BY <1>2, <1>a DEF SetOffloadedExpirationFails, RecordInv, MemoryInv, JobInv, ExpiryInv,
     ArchiveInv, ReadInv, InMemory, InJob, Never
<1>3. CASE Crash
  <2>1. jobs' = {Stalled(j) : j \in jobs}
    BY <1>3 DEF Crash, Stalled
  <2>2. /\ queue' = <<>> /\ batches' = {} /\ expiring' = {} /\ UNCHANGED <<key, age, shortened>>
        /\ flight' = [id \in Ids |-> "none"]
        /\ dropped' = dropped \cup ToSet(queue) \cup UNION {b.ids : b \in batches}
    BY <1>3, Zenon DEF Crash
  <2>3. rows[x] = 1 => rows'[x] = 1
    BY <1>3, RowsGrow DEF Crash
  <2>4. ~InMemory(x)' /\ (InMemory(x) => x \in dropped')
    BY <2>2, ToSetEmpty DEF InMemory
  <2>5. \A j \in jobs : Stalled(j).ids = j.ids /\ Stalled(j).attempts = j.attempts
                        /\ Stalled(j).tried = j.tried /\ Stalled(j).state = "waiting"
    BY <1>b, StalledJob
  <2>6. JobInv(x)' /\ (InJob(x) => InJob(x)')
    BY <1>a, <2>1, <2>2, <2>5 DEF JobInv, InJob
  <2>7. QED
    BY <1>a, <2>2, <2>3, <2>4, <2>6 DEF RecordInv, MemoryInv, ExpiryInv, ArchiveInv, ReadInv, Never
<1>4. ASSUME NEW id \in Ids, EnqueueForOffload(id) PROVE RecordInv(x)'
  <2>1. PICK m \in {0, 1} : age' = [age EXCEPT ![id] = m]
    BY <1>4 DEF EnqueueForOffload
  <2>2. /\ key[id] = "none" /\ key' = [key EXCEPT ![id] = "stored"] /\ queue' = Append(queue, id)
        /\ UNCHANGED <<shortened, rows, batches, expiring, jobs, flight, faults, dropped>>
    BY <1>4 DEF EnqueueForOffload
  <2>3. ToSet(queue') = ToSet(queue) \cup {id}
    BY <1>b, <2>2, ToSetAppend
  <2>4. CASE id = x
    <3>1. key'[x] = "stored" /\ age'[x] \in {0, 1} /\ InMemory(x)'
      BY <1>b, <2>1, <2>2, <2>3, <2>4 DEF InMemory
    <3>2. /\ ~InJob(x) /\ shortened[x] = Never /\ flight[x] = "none"
          /\ x \in expiring => rows[x] = 1
      BY <1>a, <2>2, <2>4 DEF JobInv, InJob, ExpiryInv, ReadInv
    <3>3. QED
      BY <2>2, <3>1, <3>2 DEF RecordInv, MemoryInv, JobInv, ExpiryInv, ArchiveInv, ReadInv,
         InJob, Never
  <2>5. CASE id # x
    <3>1. key'[x] = key[x] /\ age'[x] = age[x] /\ (InMemory(x)' <=> InMemory(x))
      BY <1>b, <2>1, <2>2, <2>3, <2>5 DEF InMemory
    <3>2. QED
      BY <1>a, <2>2, <3>1 DEF RecordInv, MemoryInv, JobInv, ExpiryInv, ArchiveInv, ReadInv,
         InJob, Never
  <2>6. QED
    BY <2>4, <2>5
<1>5. ASSUME NEW id \in Ids, SetOffloadedExpiration(id) PROVE RecordInv(x)'
  <2>1. /\ expiring' = expiring \ {id} /\ id \in expiring
        /\ UNCHANGED <<key, age, rows, queue, batches, jobs, flight, faults, dropped>>
    BY <1>5 DEF SetOffloadedExpiration
  <2>2. shortened'[x] = IF id = x /\ key[x] = "stored" THEN 0 ELSE shortened[x]
    BY <1>5, <1>b DEF SetOffloadedExpiration
  <2>3. QED
    BY <1>a, <1>b, <1>c, <2>1, <2>2 DEF RecordInv, MemoryInv, JobInv, ExpiryInv, ArchiveInv,
       ReadInv, InMemory, InJob, Never
<1>6. ASSUME NEW b \in batches, InsertBatch(b) PROVE RecordInv(x)'
  <2>1. /\ batches' = batches \ {b} /\ expiring' = expiring \cup b.ids
        /\ UNCHANGED <<key, age, shortened, queue, jobs, flight, faults, dropped>>
    BY <1>6 DEF InsertBatch
  <2>2. (rows[x] = 1 => rows'[x] = 1) /\ (x \in b.ids => rows'[x] = 1)
    BY <1>6, RowsGrow DEF InsertBatch
  <2>3. QED
    BY <1>a, <2>1, <2>2 DEF RecordInv, MemoryInv, JobInv, ExpiryInv, ArchiveInv,
       ReadInv, InMemory, InJob, Never
<1>7. ASSUME NEW b \in batches, InsertBatchFails(b) PROVE RecordInv(x)'
  <2>1. /\ batches' = (batches \ {b}) \cup {[b EXCEPT !.state = "failed"]}
        /\ UNCHANGED <<key, age, shortened, queue, expiring, jobs, flight, dropped>>
    BY <1>7 DEF InsertBatchFails
  <2>2. rows[x] = 1 => rows'[x] = 1
    BY <1>7, RowsGrow DEF InsertBatchFails
  <2>3. [b EXCEPT !.state = "failed"].ids = b.ids
    BY <1>b DEF Batch
  <2>4. InMemory(x)' <=> InMemory(x)
    BY <2>1, <2>3 DEF InMemory
  <2>5. QED
    BY <1>a, <2>1, <2>2, <2>4 DEF RecordInv, MemoryInv, JobInv, ExpiryInv, ArchiveInv,
       ReadInv, InJob, Never
<1>8. ASSUME NEW b \in batches, jobs' = jobs \cup {NewJob(b.ids)}, batches' = batches \ {b},
             UNCHANGED <<key, age, shortened, rows, queue, expiring, flight, dropped>>
      PROVE  RecordInv(x)'
  <2>1. JobInv(x)'
    BY <1>a, <1>8, <1>b, <1>c DEF JobInv, MemoryInv, InMemory, NewJob
  <2>2. InMemory(x) => InMemory(x)' \/ (InJob(x)' /\ (key[x] = "stored" \/ rows[x] = 1))
    <3>1. CASE x \in b.ids
      <4>1. NewJob(b.ids) \in jobs' /\ x \in NewJob(b.ids).ids
        BY <1>8, <3>1 DEF NewJob
      <4>2. age[x] <= 1 /\ key[x] # "none"
        BY <1>a, <3>1 DEF MemoryInv, InMemory
      <4>3. key[x] = "stored" \/ rows[x] = 1
        BY <1>a, <1>c, <1>e, <4>2 DEF ExpiryInv
      <4>4. QED
        BY <4>1, <4>3 DEF InJob
    <3>2. CASE x \notin b.ids
      <4>1. \A c \in batches : x \in c.ids => c \in batches'
        BY <1>8, <3>2
      <4>2. UNCHANGED queue
        BY <1>8
      <4>3. QED
        BY <4>1, <4>2 DEF InMemory
    <3>3. QED
      BY <3>1, <3>2
  <2>3. (InMemory(x)' => InMemory(x)) /\ (InJob(x) => InJob(x)')
    BY <1>8 DEF InMemory, InJob
  <2>4. QED
    BY <1>a, <1>8, <2>1, <2>2, <2>3 DEF RecordInv, MemoryInv, ExpiryInv, ArchiveInv, ReadInv, Never
<1>9. ASSUME NEW b \in batches, EnqueueFallbackJob(b) \/ EnqueueFallbackJobFails(b)
      PROVE  RecordInv(x)'
  <2>1. CASE jobs' = jobs \cup {NewJob(b.ids)} /\ UNCHANGED dropped
    BY <1>8, <1>9, <2>1 DEF EnqueueFallbackJob, EnqueueFallbackJobFails
  <2>2. CASE UNCHANGED jobs /\ dropped' = dropped \cup b.ids
    <3>1. batches' = batches \ {b} /\ UNCHANGED <<key, age, shortened, rows, queue, expiring, flight>>
      BY <1>9 DEF EnqueueFallbackJob, EnqueueFallbackJobFails
    <3>2. QED
      BY <1>a, <2>2, <3>1 DEF RecordInv, MemoryInv, JobInv, ExpiryInv, ArchiveInv, ReadInv,
         InMemory, InJob, Never
  <2>3. QED
    BY <1>9, <2>1, <2>2 DEF EnqueueFallbackJob, EnqueueFallbackJobFails
<1>10. ASSUME NEW j \in jobs, StartJob(j) PROVE RecordInv(x)'
  <2>1. /\ jobs' = (jobs \ {j}) \cup {Started(j)}
        /\ UNCHANGED <<key, age, shortened, rows, queue, batches, expiring, flight, faults, dropped>>
    BY <1>10 DEF StartJob, Replace, Started
  <2>2. /\ Started(j).ids = j.ids /\ Started(j).attempts = j.attempts
        /\ Started(j).tried = j.tried /\ Started(j).records = {id \in j.ids : key[id] = "stored"}
    BY <1>b, StartedJob
  <2>3. InJob(x) <=> InJob(x)'
    BY <2>1, <2>2 DEF InJob
  <2>4. JobInv(x)'
    BY <1>a, <1>b, <2>1, <2>2 DEF JobInv
  <2>5. QED
    BY <1>a, <2>1, <2>3, <2>4 DEF RecordInv, MemoryInv, ExpiryInv, ArchiveInv, ReadInv,
       InMemory, Never
<1>11. ASSUME NEW j \in jobs, FinishJob(j) PROVE RecordInv(x)'
  <2>1. /\ j.state = "running" /\ jobs' = jobs \ {j} /\ expiring' = expiring \cup j.records
        /\ UNCHANGED <<key, age, shortened, queue, batches, flight, faults, dropped>>
    BY <1>11 DEF FinishJob
  <2>2. (rows[x] = 1 => rows'[x] = 1) /\ (x \in j.records => rows'[x] = 1)
    BY <1>11, RowsGrow DEF FinishJob
  <2>3. x \in j.ids => rows'[x] = 1
    BY <1>a, <1>d, <2>1, <2>2 DEF JobInv, ExpiryInv
  <2>4. QED
    BY <1>a, <2>1, <2>2, <2>3 DEF RecordInv, MemoryInv, JobInv, ExpiryInv, ArchiveInv,
       ReadInv, InMemory, InJob, Never
<1>12. ASSUME NEW j \in jobs, FailJob(j) PROVE RecordInv(x)'
  <2>1. UNCHANGED <<key, age, shortened, queue, batches, expiring, flight>>
    BY <1>12 DEF FailJob
  <2>2. rows[x] = 1 => rows'[x] = 1
    BY <1>12, RowsGrow DEF FailJob
  <2>3. CASE j.attempts + 1 = MaxAttempts
    <3>1. jobs' = jobs \ {j} /\ dropped' = dropped \cup j.ids
      BY <1>12, <2>3 DEF FailJob
    <3>2. QED
      BY <1>a, <2>1, <2>2, <3>1 DEF RecordInv, MemoryInv, JobInv, ExpiryInv, ArchiveInv,
         ReadInv, InMemory, InJob, Never
  <2>4. CASE j.attempts + 1 # MaxAttempts
    <3>1. jobs' = (jobs \ {j}) \cup {Retried(j)} /\ UNCHANGED dropped
      BY <1>12, <2>4 DEF FailJob, Replace, Retried
    <3>2. /\ Retried(j).ids = j.ids /\ Retried(j).attempts = j.attempts + 1
          /\ Retried(j).state = "waiting" /\ j.attempts \in Nat
      BY <1>b, <2>4, RetriedJob, JobFields
    <3>3. InJob(x) <=> InJob(x)'
      BY <3>1, <3>2 DEF InJob
    <3>4. JobInv(x)'
      BY <1>a, <1>b, <2>1, <3>1, <3>2 DEF JobInv
    <3>5. QED
      BY <1>a, <2>1, <2>2, <3>1, <3>3, <3>4 DEF RecordInv, MemoryInv, ExpiryInv, ArchiveInv,
         ReadInv, InMemory, Never
  <2>5. QED
    BY <2>3, <2>4
<1>13. CASE Tick
  <2>1. /\ queue = <<>> /\ batches = {} /\ expiring = {} /\ flight[x] = "none"
        /\ \A j \in jobs : j.state = "waiting" /\ j.tried
        /\ UNCHANGED <<key, rows, queue, batches, expiring, flight, faults, dropped>>
    BY <1>13 DEF Tick
  <2>2. /\ age'[x] = IF key[x] = "none" THEN 0 ELSE age[x] + 1
        /\ shortened'[x] = IF shortened[x] = Never \/ shortened[x] > OffloadedTTL
                           THEN shortened[x] ELSE shortened[x] + 1
    BY <1>13 DEF Tick
  <2>3. jobs' = {Untried(j) : j \in jobs}
    BY <1>13 DEF Tick, Untried
  <2>4. \A j \in jobs : /\ Untried(j).ids = j.ids /\ Untried(j).attempts = j.attempts
                        /\ Untried(j).tried = FALSE /\ Untried(j).state = j.state
    BY <1>b, UntriedJob
  <2>5. InJob(x) <=> InJob(x)'
    BY <2>3, <2>4 DEF InJob
  <2>6. JobInv(x)'
    <3>1. ASSUME NEW j \in jobs, x \in j.ids
          PROVE  key[x] # "none" /\ age'[x] <= j.attempts + 1 /\ j.state # "running"
      <4>1. j.attempts \in Nat
        BY <1>b, JobFields
      <4>2. QED
        BY <1>a, <1>e, <2>1, <2>2, <3>1, <4>1 DEF JobInv
    <3>2. QED
      BY <2>1, <2>3, <2>4, <3>1 DEF JobInv
  <2>7. ~InMemory(x) /\ ~InMemory(x)'
    BY <2>1, ToSetEmpty DEF InMemory
  <2>8. ExpiryInv(x)'
    BY <1>a, <1>c, <1>e, <2>1, <2>2 DEF ExpiryInv, OffloadedTTL
  <2>9. QED
    BY <1>a, <2>1, <2>5, <2>6, <2>7, <2>8 DEF RecordInv, MemoryInv, ArchiveInv, ReadInv
<1>14. ASSUME NEW id \in Ids, ReadStep(id) PROVE RecordInv(x)'
  <2>1. UNCHANGED <<key, age, shortened, rows, queue, batches, expiring, jobs, dropped>>
    BY <1>14 DEF ReadStep, StartRead, ReadHit, FallBackToRedis, ReadDbFails, ReadMiss
  <2>2. ReadInv(x)'
    <3>1. CASE StartRead(id)
      <4>1. PICK older \in IsOlder(age[id], 1) :
              flight' = [flight EXCEPT ![id] = IF older THEN "db" ELSE "redis"]
        BY <3>1 DEF StartRead
      <4>2. key[id] # "none"
        BY <3>1 DEF StartRead
      <4>3. older \in BOOLEAN /\ (~older => age[id] <= 1)
        <5>1. age[id] \in Nat
          BY <1>b, <1>c
        <5>2. QED
          BY <4>1, <5>1, IsOlderWhenNot
      <4>4. CASE id = x
        <5>1. flight'[x] = IF older THEN "db" ELSE "redis"
          BY <1>b, <4>1, <4>4
        <5>2. ~older => key[x] = "stored" /\ age[x] < ResultTTL
                        /\ (shortened[x] = Never \/ shortened[x] <= 1)
          BY <1>a, <1>c, <1>e, <4>2, <4>3, <4>4 DEF ExpiryInv
        <5>3. QED
          BY <2>1, <4>2, <4>4, <5>1, <5>2 DEF ReadInv, Never
      <4>5. CASE id # x
        BY <1>a, <1>b, <2>1, <4>1, <4>5 DEF ReadInv, Never
      <4>6. QED
        BY <4>4, <4>5
    <3>2. CASE FallBackToRedis(id)
      <4>1. rows[id] = 0 /\ flight[id] = "db" /\ flight' = [flight EXCEPT ![id] = "redis"]
        BY <3>2 DEF FallBackToRedis
      <4>2. CASE id = x
        <5>1. key[x] # "none" /\ shortened[x] = Never
          BY <1>a, <4>1, <4>2 DEF ReadInv, ExpiryInv
        <5>2. InJob(x) => age[x] < ResultTTL
          BY <1>d DEF InJob
        <5>3. x \in dropped \/ (key[x] = "stored" /\ age[x] < ResultTTL)
          <6>1. InMemory(x) => key[x] = "stored" /\ age[x] < ResultTTL
            BY <1>a, <1>c, <1>e, <5>1 DEF MemoryInv, ExpiryInv
          <6>2. QED
            BY <1>a, <4>1, <4>2, <5>1, <5>2, <6>1 DEF ArchiveInv
        <5>4. QED
          BY <1>b, <2>1, <4>1, <4>2, <5>1, <5>3 DEF ReadInv, Never
      <4>3. CASE id # x
        BY <1>a, <1>b, <2>1, <4>1, <4>3 DEF ReadInv, Never
      <4>4. QED
        BY <4>2, <4>3
    <3>3. CASE ReadHit(id) \/ ReadDbFails(id) \/ ReadMiss(id)
      BY <1>a, <1>b, <2>1, <3>3 DEF ReadHit, ReadDbFails, ReadMiss, ReadInv, Never
    <3>4. QED
      BY <1>14, <3>1, <3>2, <3>3 DEF ReadStep
  <2>3. QED
    BY <1>a, <2>1, <2>2 DEF RecordInv, MemoryInv, JobInv, ExpiryInv, ArchiveInv, InMemory, InJob, Never
<1>15. ASSUME NEW id \in Ids, Expire(id) PROVE RecordInv(x)'
  <2>1. /\ key[id] = "stored" /\ MayExpire(id) /\ key' = [key EXCEPT ![id] = "gone"]
        /\ UNCHANGED <<age, shortened, rows, queue, batches, expiring, jobs, flight, faults, dropped>>
    BY <1>15 DEF Expire
  <2>2. CASE id # x
    <3>1. key'[x] = key[x]
      BY <1>b, <2>1, <2>2
    <3>2. QED
      BY <1>a, <2>1, <3>1 DEF RecordInv, MemoryInv, JobInv, ExpiryInv, ArchiveInv, ReadInv,
         InMemory, InJob, Never
  <2>3. CASE id = x
    <3>1. key[x] = "stored" /\ key'[x] = "gone"
      BY <1>b, <2>1, <2>3
    <3>2. age[x] >= ResultTTL \/ (rows[x] = 1 /\ shortened[x] # Never /\ shortened[x] >= 2)
      BY <1>a, <2>1, <2>3 DEF MayExpire, ExpiryInv, OffloadedTTL
    <3>3. ExpiryInv(x)'
      BY <1>a, <1>c, <1>e, <2>1, <3>1, <3>2 DEF ExpiryInv, Never
    <3>4. InJob(x) => age[x] < ResultTTL
      BY <1>d DEF InJob
    <3>5. ArchiveInv(x)'
      <4>1. InJob(x) => rows[x] = 1
        BY <1>c, <1>e, <3>2, <3>4
      <4>2. QED
        BY <1>a, <2>1, <3>1, <4>1 DEF ArchiveInv, InMemory, InJob
    <3>6. ReadInv(x)'
      <4>1. flight[x] = "redis" => x \in dropped
        BY <1>a, <1>c, <1>e, <3>2 DEF ReadInv
      <4>2. QED
        BY <1>a, <2>1, <3>1, <4>1 DEF ReadInv
    <3>7. MemoryInv(x)' /\ JobInv(x)'
      BY <1>a, <2>1, <3>1 DEF MemoryInv, JobInv, InMemory
    <3>8. QED
      BY <3>3, <3>5, <3>6, <3>7 DEF RecordInv
  <2>4. QED
    BY <2>2, <2>3
<1>16. CASE UNCHANGED vars
  BY <1>a, <1>16 DEF vars, RecordInv, MemoryInv, JobInv, ExpiryInv, ArchiveInv, ReadInv,
     InMemory, InJob, Never
<1>17. QED
  BY <1>1, <1>2, <1>3, <1>4, <1>5, <1>6, <1>7, <1>9, <1>10, <1>11, <1>12, <1>13, <1>14,
     <1>15, <1>16
     DEF Next, QueueStep, WorkerStep

\* The invariant of the offloader holds in every reachable state.
THEOREM OffloaderInvariant == Spec => []OInv
<1>1. Init => OInv
  BY ToSetEmpty DEF Init, OInv, RecordInv, MemoryInv, JobInv, ExpiryInv, ArchiveInv, ReadInv,
     InMemory, InJob
<1>2. QED
  BY <1>1, RecordStep, OffloaderTypeCorrect, PTL DEF Spec

\* However inserts, fallback jobs, crashes and expirations interleave, a record is
\* archived or on its way there until a batch or a job of it is dropped.
THEOREM NothingEverForgotten == Spec => []NothingIsForgotten
<1>1. TypeOK /\ OInv => NothingIsForgotten
  BY DEF OInv, RecordInv, ExpiryInv, ArchiveInv, NothingIsForgotten
<1>2. QED
  BY <1>1, OffloaderTypeCorrect, OffloaderInvariant, PTL

\* A client gets a 404 only for a measurement whose archiving was given up.
THEOREM ReadsAlwaysFindTheRecord == Spec => []ReadsFindTheRecord
<1>1. OInv => ReadsFindTheRecord
  BY DEF OInv, RecordInv, ReadInv, ReadsFindTheRecord
<1>2. QED
  BY <1>1, OffloaderInvariant, PTL

===============================================================================
