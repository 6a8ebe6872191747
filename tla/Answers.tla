-------------------------------- MODULE Answers --------------------------------
(***************************************************************************)
(* Reading a measurement while it runs, and keeping what one has read.     *)
(*   src/src/measurement/route/get-measurement.ts                          *)
(*   src/src/measurement/id.ts, src/src/measurement/store.ts               *)
(*   src/src/lib/http/middleware/compressed.ts and etag.ts                 *)
(*                                                                         *)
(* The answer to a GET may be kept for a year, unseen by the API, if the   *)
(* measurement is three minutes old, by a clock that knows only the minute *)
(* of its id, and whatever its status.  So the cleanup must have finished  *)
(* it by then: it looks every five seconds for what has timed out, and     *)
(* leases it, so that after a failure it looks again when the lease is     *)
(* over.                                                                   *)
(*                                                                         *)
(* Time is counted in units of 5 seconds.  A read of Redis, a cleanup, and *)
(* the time between two cleanups take at most one unit.                    *)
(***************************************************************************)
EXTENDS Naturals

CONSTANTS CreationTimes,  \* when the measurement may be created
          TestTimeout,    \* measurement.timeout, 6 units
          StableAge,      \* the three minutes, 36 units
          Minute,         \* 12 units
          MaxReports,     \* bound on the messages of probes that do not finish it
          MaxCleanupFailures, \* bound on the failures of cleanups
          EndOfTime,      \* bound on the clock
          NoReply

ASSUME AnswersAssumption ==
  /\ CreationTimes \subseteq 0..EndOfTime /\ Minute \in Nat \ {0}
  /\ {TestTimeout, StableAge, MaxReports, MaxCleanupFailures, EndOfTime} \subseteq Nat

LeaseTime == 6   \* CLEANUP_LEASE_TIME

\* The cleanup and a read each take a unit, a failure costs a lease and the unit after it, and
\* the id may have lost all but a unit of the minute: that is what the three minutes are for.
ASSUME StableAssumption ==
  TestTimeout + (LeaseTime + 1) * MaxCleanupFailures + 3 + Minute <= StableAge

VARIABLES
  time,
  createdAt,
  record,   \* the results: reports so far, and the status
  due,      \* the score in gp:in-progress-timeouts
  scanBy,   \* when a cleanup will have looked for the measurement again
  claim,    \* when the running cleanup has claimed it
  flight,   \* the read that is shared by all requests: what it has found, and since when
  asking,  \* the encoding the client has asked for
  kept,     \* what the client has, its tag, and whether it will ever ask again
  cleanupFailures

answersVars == <<time, createdAt, record, due, scanBy, claim, flight, asking, kept,
                 cleanupFailures>>

Encodings == {"br", "identity"}

Results == [reports : 0..MaxReports, finished : BOOLEAN]
Reads == [results : Results, since : 0..EndOfTime]

ASSUME NoReplyAssumption == NoReply \notin Nat /\ NoReply \notin Encodings /\ NoReply \notin Reads

AnswersTypeOK ==
  /\ createdAt \in CreationTimes /\ time \in createdAt..EndOfTime
  /\ record \in Results
  /\ due \in Nat /\ scanBy \in Nat /\ due <= scanBy /\ cleanupFailures \in 0..MaxCleanupFailures
  /\ claim = NoReply \/ claim \in {time, time - 1}
  /\ flight = NoReply \/ (flight.results \in Results /\ flight.since \in {time, time - 1})
  /\ asking \in Encodings \cup {NoReply}
  /\ asking # NoReply => flight # NoReply

\* createMeasurement
AnswersInit ==
  /\ createdAt \in CreationTimes /\ time = createdAt
  /\ record = [reports |-> 0, finished |-> FALSE]
  /\ due = createdAt + TestTimeout /\ scanBy = due + 1
  /\ claim = NoReply /\ flight = NoReply /\ asking = NoReply /\ kept = NoReply
  /\ cleanupFailures = 0

-------------------------------------------------------------------------------
(* The measurement *)

\* Progress, or a result that is not the last one.
StoreReport ==
  /\ ~record.finished /\ record.reports < MaxReports
  /\ record' = [record EXCEPT !.reports = @ + 1]
  /\ UNCHANGED <<time, createdAt, due, scanBy, claim, flight, asking, kept, cleanupFailures>>

\* The last one, unless the counter it must bring to zero has expired, 30 s after the timeout.
StoreLastResult ==
  /\ ~record.finished /\ time < createdAt + TestTimeout + 6
  /\ record' = [record EXCEPT !.finished = TRUE]
  /\ UNCHANGED <<time, createdAt, due, scanBy, claim, flight, asking, kept, cleanupFailures>>

LongLease == due' = time + 2 * LeaseTime /\ scanBy' = due' + 1  \* mutant: a minute

Lease == due' = time + LeaseTime /\ scanBy' = due' + 1

\* cleanup: claimTimedOutMeasurements
ClaimTimedOut ==
  /\ ~record.finished /\ claim = NoReply /\ due <= time
  /\ Lease /\ claim' = time
  /\ UNCHANGED <<time, createdAt, record, flight, asking, kept, cleanupFailures>>

CleanupFailure ==
  cleanupFailures < MaxCleanupFailures /\ cleanupFailures' = cleanupFailures + 1

\* The script fails, or its answer is lost.  The next cleanup comes as usual.
ClaimingFails ==
  /\ CleanupFailure
  /\ ~record.finished /\ claim = NoReply /\ due <= time
  /\ Lease \/ (scanBy' = time + 1 /\ UNCHANGED due)
  /\ UNCHANGED <<time, createdAt, record, claim, flight, asking, kept>>

\* markFinishedByTimeout; a record that has its last result is left as it is.
FinishTimedOut ==
  /\ claim # NoReply
  /\ record' = [record EXCEPT !.finished = TRUE] /\ claim' = NoReply
  /\ UNCHANGED <<time, createdAt, due, scanBy, flight, asking, kept, cleanupFailures>>

\* The script for this record, or for one before it, fails, or the process dies.
MarkingFails ==
  /\ CleanupFailure
  /\ claim # NoReply
  /\ claim' = NoReply
  /\ UNCHANGED <<time, createdAt, record, due, scanBy, flight, asking, kept>>

-------------------------------------------------------------------------------
(* GET /v1/measurements/:id *)

ToIdTimestamp(t) == t \div Minute

\* Of the id only its minute matters here.
GenerateMeasurementId(t) == [minutesSinceEpoch |-> ToIdTimestamp(t)]

IsStableMeasurement ==
  LET id == GenerateMeasurementId(createdAt)
  IN time - id.minutesSinceEpoch * Minute >= StableAge

ReadFromRedis == [results |-> record, since |-> time]

\* singleFlight: a read that is under way is joined.
Flight == flight' = IF flight = NoReply THEN ReadFromRedis ELSE flight

\* Another client's request.
StartFlight ==
  /\ flight = NoReply /\ Flight
  /\ UNCHANGED <<time, createdAt, record, due, scanBy, claim, asking, kept, cleanupFailures>>

\* The client has no answer yet, or must ask whether it is still valid.
Get(encoding) ==
  /\ asking = NoReply
  /\ IF kept = NoReply THEN TRUE ELSE ~kept.immutable
  /\ Flight /\ asking' = encoding
  /\ UNCHANGED <<time, createdAt, record, due, scanBy, claim, kept, cleanupFailures>>

\* compressed: the bytes of the body depend on the encoding.
Compressed(results, encoding) == [results |-> results, encoding |-> encoding]

\* etag: a hash of the bytes.
ETag(body) == <<"W", body>>

\* 304: the client has the body, and gets the headers.
IsFresh(tag) == IF kept = NoReply THEN FALSE ELSE kept.tag = tag

Answer ==
  /\ flight # NoReply
  /\ LET body == Compressed(flight.results, asking)
         tag == ETag(body)
     IN kept' = IF asking = NoReply THEN kept
                ELSE [body |-> IF IsFresh(tag) THEN kept.body ELSE body,
                      tag |-> tag, immutable |-> IsStableMeasurement]
  /\ flight' = NoReply /\ asking' = NoReply
  /\ UNCHANGED <<time, createdAt, record, due, scanBy, claim, cleanupFailures>>

\* All that share the read get an error, and nothing to keep.
ReadFails ==
  /\ flight # NoReply
  /\ flight' = NoReply /\ asking' = NoReply
  /\ UNCHANGED <<time, createdAt, record, due, scanBy, claim, kept, cleanupFailures>>

-------------------------------------------------------------------------------

PassTime ==
  /\ time < EndOfTime
  /\ ~record.finished => time < scanBy
  /\ claim # NoReply => claim = time
  /\ IF flight = NoReply THEN TRUE ELSE flight.since = time
  /\ time' = time + 1
  /\ UNCHANGED <<createdAt, record, due, scanBy, claim, flight, asking, kept, cleanupFailures>>

AnswersNext ==
  \/ StoreReport \/ StoreLastResult
  \/ ClaimTimedOut \/ ClaimingFails \/ FinishTimedOut \/ MarkingFails
  \/ StartFlight \/ Answer \/ ReadFails \/ PassTime
  \/ \E e \in Encodings : Get(e)

AnswersSpec == AnswersInit /\ [][AnswersNext]_answersVars

-------------------------------------------------------------------------------
(* Properties *)

\* What a client keeps for good is the measurement's last word: it is finished, and nothing
\* will be added to it.  That is so although the status is not looked at, the id is up to a
\* minute older than the measurement and the read may be older than the answer, as long as
\* at most two cleanups fail.
ImmutableAnswersAreFinal ==
  /\ AnswersTypeOK
  /\ kept # NoReply => (kept.immutable => kept.body.results = record /\ record.finished)
===============================================================================
