--------------------------- MODULE MeasurementStore ---------------------------
(***************************************************************************)
(* The life of measurements in Redis: src/src/measurement/store.ts and the *)
(* Lua scripts of src/src/lib/redis/scripts.ts, driven by runner.ts and    *)
(* the handlers of probe messages.                                         *)
(*                                                                         *)
(* A Lua script is one step.  Everything else awaits between its Redis     *)
(* commands, so createMeasurement, storeMeasurementResult and cleanup are  *)
(* processes with a control state, and any step of another process may     *)
(* happen between two of theirs.  A fault is a failed command, a lost      *)
(* reply or message, or the death of the process that runs the code; there *)
(* are at most MaxFaults of them in a behaviour.                           *)
(*                                                                         *)
(* Time is abstracted to the order of the deadlines it sets: the score of  *)
(* 'gp:in-progress-timeouts' (30 s after creation) passes before the TTL   *)
(* of 'probes_awaiting' (60 s); the commands of createMeasurement reach    *)
(* Redis before that; the 7 days of resultTTL never pass.  The fields of   *)
(* 'gp:test-to-probe' outlive the counter (150 s), so a message that the   *)
(* validator no longer knows is one that the scripts would ignore.         *)
(***************************************************************************)
EXTENDS Integers, FiniteSets

CONSTANTS Ids,              \* ids drawn by generateMeasurementId, each once
          Tests,            \* indexes of the results array (test ids)
          Cleaners,         \* API processes that run scheduleCleanup
          NoKey,            \* GET of a key that does not exist
          MaxFaults,        \* bound on the faults of a behaviour
          DuplicateResults  \* may a probe report the same test again?

ASSUME TestsAssumption == IsFiniteSet(Tests) /\ Tests # {}
ASSUME NoKeyAssumption == NoKey \notin Int
ASSUME MaxFaultsAssumption == MaxFaults \in Nat
ASSUME DuplicateResultsAssumption == DuplicateResults \in BOOLEAN

VARIABLES
  \* Redis
  status,       \* .status of gp:m:{id}:results, "absent" when there is no document
  results,      \* .results[t].result.status of the document
  output,       \* what .results[t].result.rawOutput is made of
  compressed,   \* is the document replaced by its compressed form?
  awaiting,     \* gp:m:{id}:probes_awaiting
  timeouts,     \* entry of gp:in-progress-timeouts: score ahead, passed, or a lease
  \* processes
  creator,      \* control state of runner.run/createMeasurement for id
  pending,      \* commands of its Promise.all that Redis has not executed
  online,       \* keys of its onlineProbesMap
  handler,      \* control state of the result handler of a test
  cleaner,      \* control state of a cleanup
  claimed,      \* ids returned by claimTimedOutMeasurements
  todo,         \* claimed ids whose markFinishedByTimeout script has not run
  records,      \* ids whose record the cleanup holds
  \* bookkeeping
  offloads,     \* number of enqueueForOffload calls for id
  faults        \* faults so far

redis == <<status, results, output, compressed, awaiting, timeouts>>
creation == <<creator, pending, online>>
cleanup == <<cleaner, claimed, todo, records>>
vars == <<redis, creation, handler, cleanup, offloads, faults>>

Open == {"in-progress"}
Reported == {"finished", "failed"}         \* the statuses a probe may report
ResultStatus == {"none", "offline", "timedout"} \cup Open \cup Reported

\* "others" stands for the ips, the meta, the TTLs and the fields of
\* gp:test-to-probe, which matter here only because they can fail.
Writes == {"timeouts", "awaiting", "doc", "others"}

OpenTests(rs) == {t \in Tests : rs[t] \in Open}

TypeOK ==
  /\ status \in [Ids -> {"absent", "in-progress", "finished"}]
  /\ results \in [Ids -> [Tests -> ResultStatus]]
  /\ output \in [Ids -> [Tests -> {"none", "progress", "report"}]]
  /\ compressed \in [Ids -> BOOLEAN]
  /\ awaiting \in [Ids -> Int \cup {NoKey}]
  /\ timeouts \in [Ids -> {"absent", "scheduled", "due", "leased"}]
  /\ creator \in [Ids -> {"idle", "writing", "enqueuing", "done", "rejected"}]
  /\ pending \in [Ids -> SUBSET Writes]
  /\ online \in [Ids -> SUBSET Tests]
  /\ handler \in [Ids -> [Tests -> {"idle", "running", "removing", "enqueuing", "done"}]]
  /\ cleaner \in [Cleaners -> {"idle", "marking", "draining", "enqueuing"}]
  /\ claimed \in [Cleaners -> SUBSET Ids]
  /\ todo \in [Cleaners -> SUBSET Ids]
  /\ records \in [Cleaners -> SUBSET Ids]
  /\ offloads \in [Ids -> Nat]
  /\ faults \in 0..MaxFaults

Init ==
  /\ status = [id \in Ids |-> "absent"]
  /\ results = [id \in Ids |-> [t \in Tests |-> "none"]]
  /\ output = results
  /\ compressed = [id \in Ids |-> FALSE]
  /\ awaiting = [id \in Ids |-> NoKey]
  /\ timeouts = [id \in Ids |-> "absent"]
  /\ creator = [id \in Ids |-> "idle"]
  /\ pending = [id \in Ids |-> {}]
  /\ online = [id \in Ids |-> {}]
  /\ handler = [id \in Ids |-> [t \in Tests |-> "idle"]]
  /\ cleaner = [c \in Cleaners |-> "idle"]
  /\ claimed = [c \in Cleaners |-> {}]
  /\ todo = [c \in Cleaners |-> {}]
  /\ records = [c \in Cleaners |-> {}]
  /\ offloads = [id \in Ids |-> 0]
  /\ faults = 0

Fault == faults < MaxFaults /\ faults' = faults + 1

-------------------------------------------------------------------------------
(* createMeasurement *)

\* The probes are chosen and the commands of Promise.all are issued.
Create(id) ==
  /\ creator[id] = "idle"
  /\ \E on \in SUBSET Tests :
       /\ online' = [online EXCEPT ![id] = on]
       /\ pending' = [pending EXCEPT ![id] = IF on = {} THEN {"doc", "others"} ELSE Writes]
  /\ creator' = [creator EXCEPT ![id] = "writing"]
  /\ UNCHANGED <<redis, handler, cleanup, offloads, faults>>

\* Redis executes one of them.  The keys live on different cluster slots, so
\* they are executed in any order, and also after Promise.all has rejected.
Land(id, w) ==
  /\ w \in pending[id]
  /\ pending' = [pending EXCEPT ![id] = @ \ {w}]
  /\ UNCHANGED <<creator, online, compressed, handler, cleanup, offloads, faults>>

LandTimeouts(id) ==
  /\ Land(id, "timeouts")
  /\ timeouts' = [timeouts EXCEPT ![id] = "scheduled"]
  /\ UNCHANGED <<status, results, output, awaiting>>

LandAllProbes(id) ==  \* mutant: the counter starts at allProbes.length
  /\ Land(id, "awaiting")
  /\ awaiting' = [awaiting EXCEPT ![id] = Cardinality(Tests)]
  /\ UNCHANGED <<status, results, output, timeouts>>

LandAwaiting(id) ==
  /\ Land(id, "awaiting")
  /\ awaiting' = [awaiting EXCEPT ![id] = Cardinality(online[id])]
  /\ UNCHANGED <<status, results, output, timeouts>>

LandOpenDoc(id) ==  \* mutant: isFinishedImmediately is forgotten
  /\ Land(id, "doc")
  /\ status' = [status EXCEPT ![id] = "in-progress"]
  /\ results' = [results EXCEPT ![id] =
                   [t \in Tests |-> IF t \in online[id] THEN "in-progress" ELSE "offline"]]
  /\ UNCHANGED <<output, awaiting, timeouts>>

LandDoc(id) ==
  /\ Land(id, "doc")
  /\ status' = [status EXCEPT ![id] = IF online[id] = {} THEN "finished" ELSE "in-progress"]
  /\ results' = [results EXCEPT ![id] =
                   [t \in Tests |-> IF t \in online[id] THEN "in-progress" ELSE "offline"]]
  /\ UNCHANGED <<output, awaiting, timeouts>>

LandOthers(id) ==
  /\ Land(id, "others")
  /\ UNCHANGED <<status, results, output, awaiting, timeouts>>

\* A command fails: createMeasurement throws, no request is sent.
WriteFails(id, w) ==
  /\ Fault
  /\ w \in pending[id]
  /\ pending' = [pending EXCEPT ![id] = @ \ {w}]
  /\ creator' = [creator EXCEPT ![id] = "rejected"]
  /\ UNCHANGED <<redis, online, handler, cleanup, offloads>>

\* All commands are acknowledged: sendToProbes emits one request per online probe.
SendToProbes(id) ==
  /\ creator[id] = "writing"
  /\ pending[id] = {}
  /\ online[id] # {}
  /\ handler' = [handler EXCEPT ![id] =
                   [t \in Tests |-> IF t \in online[id] THEN "running" ELSE @[t]]]
  /\ creator' = [creator EXCEPT ![id] = "done"]
  /\ UNCHANGED <<redis, pending, online, cleanup, offloads, faults>>

\* Without online probes the record is compressed and archived right away.
CompressFinished(id) ==
  /\ creator[id] = "writing"
  /\ pending[id] = {}
  /\ online[id] = {}
  /\ compressed' = [compressed EXCEPT ![id] = TRUE]
  /\ creator' = [creator EXCEPT ![id] = "enqueuing"]
  /\ UNCHANGED <<status, results, output, awaiting, timeouts, pending, online,
                 handler, cleanup, offloads, faults>>

EnqueueImmediate(id) ==
  /\ creator[id] = "enqueuing"
  /\ offloads' = [offloads EXCEPT ![id] = @ + 1]
  /\ creator' = [creator EXCEPT ![id] = "done"]
  /\ UNCHANGED <<redis, pending, online, handler, cleanup, faults>>

\* The process dies, or the compression fails; unsent commands are lost.
CrashCreator(id) ==
  /\ Fault
  /\ creator[id] \in {"writing", "enqueuing"}
  /\ creator' = [creator EXCEPT ![id] = "rejected"]
  /\ pending' = [pending EXCEPT ![id] = {}]
  /\ UNCHANGED <<redis, online, handler, cleanup, offloads>>

-------------------------------------------------------------------------------
(* Messages of the probes *)

LateProgress(id, t) ==  \* mutant: the script does not look at the counter
  /\ handler[id][t] # "idle"
  /\ output' = [output EXCEPT ![id][t] = "progress"]
  /\ UNCHANGED <<status, results, compressed, awaiting, timeouts,
                 creation, handler, cleanup, offloads, faults>>

\* A progress message that finds the counter; without it the script does nothing.  Its
\* handler awaits the validator, as the one of the result does, and may come second:
\* then it replaces or extends the output of the report, and leaves its status alone.
RecordProgress(id, t) ==
  /\ handler[id][t] # "idle"
  /\ awaiting[id] # NoKey
  /\ output' = [output EXCEPT ![id][t] = "progress"]
  /\ UNCHANGED <<status, results, compressed, awaiting, timeouts,
                 creation, handler, cleanup, offloads, faults>>

\* Part common to both ways a result is recorded.  An invalid message is
\* recorded as "failed".
Record(id, t) ==
  /\ handler[id][t] = "running"
  /\ awaiting[id] # NoKey
  /\ \E outcome \in Reported : results' = [results EXCEPT ![id][t] = outcome]
  /\ output' = [output EXCEPT ![id][t] = "report"]
  /\ UNCHANGED <<timeouts, creation, cleanup, offloads, faults>>

RecordResult(id, t) ==
  /\ Record(id, t)
  /\ awaiting[id] - 1 # 0
  /\ awaiting' = [awaiting EXCEPT ![id] = @ - 1]
  /\ handler' = [handler EXCEPT ![id][t] = "done"]
  /\ UNCHANGED <<status, compressed>>

\* The counter reaches zero: the script finishes the record and returns it.
RecordLastResult(id, t) ==
  /\ Record(id, t)
  /\ awaiting[id] - 1 = 0
  /\ awaiting' = [awaiting EXCEPT ![id] = NoKey]
  /\ status' = [status EXCEPT ![id] = "finished"]
  /\ compressed' = [compressed EXCEPT ![id] = TRUE]
  /\ handler' = [handler EXCEPT ![id][t] = "removing"]

\* The record has finished or the counter has expired: the result is dropped.
DropResult(id, t) ==
  /\ handler[id][t] = "running"
  /\ awaiting[id] = NoKey
  /\ handler' = [handler EXCEPT ![id][t] = "done"]
  /\ UNCHANGED <<redis, creation, cleanup, offloads, faults>>

RemoveOnly(id, t) ==  \* mutant: the record is not enqueued after the zRem
  /\ handler[id][t] = "removing"
  /\ timeouts' = [timeouts EXCEPT ![id] = "absent"]
  /\ handler' = [handler EXCEPT ![id][t] = "done"]
  /\ UNCHANGED <<status, results, output, compressed, awaiting,
                 creation, cleanup, offloads, faults>>

RemoveTimeout(id, t) ==
  /\ handler[id][t] = "removing"
  /\ timeouts' = [timeouts EXCEPT ![id] = "absent"]
  /\ handler' = [handler EXCEPT ![id][t] = "enqueuing"]
  /\ UNCHANGED <<status, results, output, compressed, awaiting,
                 creation, cleanup, offloads, faults>>

EnqueueRecord(id, t) ==
  /\ handler[id][t] = "enqueuing"
  /\ offloads' = [offloads EXCEPT ![id] = @ + 1]
  /\ handler' = [handler EXCEPT ![id][t] = "done"]
  /\ UNCHANGED <<redis, creation, cleanup, faults>>

\* The message, the script call, its reply or the zRem is lost, or the process dies.
CrashHandler(id, t) ==
  /\ Fault
  /\ handler[id][t] \in {"running", "removing", "enqueuing"}
  /\ handler' = [handler EXCEPT ![id][t] = "done"]
  /\ UNCHANGED <<redis, creation, cleanup, offloads>>

\* Nothing in the handler or the script remembers that a test has reported.
ReportAgain(id, t) ==
  /\ DuplicateResults
  /\ handler[id][t] = "done"
  /\ handler' = [handler EXCEPT ![id][t] = "running"]
  /\ UNCHANGED <<redis, creation, cleanup, offloads, faults>>

-------------------------------------------------------------------------------
(* cleanup and markFinishedByTimeout *)

ClaimForGood(c) ==  \* mutant: the claim removes the entries instead of leasing them
  LET due == {id \in Ids : timeouts[id] = "due"} IN
  /\ cleaner[c] = "idle"
  /\ due # {}
  /\ timeouts' = [id \in Ids |-> IF id \in due THEN "absent" ELSE timeouts[id]]
  /\ claimed' = [claimed EXCEPT ![c] = due]
  /\ todo' = [todo EXCEPT ![c] = due]
  /\ cleaner' = [cleaner EXCEPT ![c] = "marking"]
  /\ UNCHANGED <<status, results, output, compressed, awaiting,
                 creation, handler, records, offloads, faults>>

\* The bound of 2000 ids per scan is not reached: all due entries are claimed.
Claim(c) ==
  LET due == {id \in Ids : timeouts[id] = "due"} IN
  /\ cleaner[c] = "idle"
  /\ due # {}
  /\ timeouts' = [id \in Ids |-> IF id \in due THEN "leased" ELSE timeouts[id]]
  /\ claimed' = [claimed EXCEPT ![c] = due]
  /\ todo' = [todo EXCEPT ![c] = due]
  /\ cleaner' = [cleaner EXCEPT ![c] = "marking"]
  /\ UNCHANGED <<status, results, output, compressed, awaiting,
                 creation, handler, records, offloads, faults>>

AnyStatus(id) == status[id] # "absent"  \* mutant: any document is finished (again)

\* The script on an id: JSON.GET fails on a missing or a compressed document.
Unfinished(id) == status[id] = "in-progress" /\ ~compressed[id]

FinishLeavingOpen(id) ==  \* mutant: the open results are left as they are
  /\ status' = [status EXCEPT ![id] = "finished"]
  /\ compressed' = [compressed EXCEPT ![id] = TRUE]
  /\ awaiting' = [awaiting EXCEPT ![id] = NoKey]
  /\ UNCHANGED <<results, output>>

FinishFailingAll(id) ==  \* mutant: all the results are failed, not the open ones
  /\ status' = [status EXCEPT ![id] = "finished"]
  /\ results' = [results EXCEPT ![id] = [t \in Tests |-> "timedout"]]
  /\ compressed' = [compressed EXCEPT ![id] = TRUE]
  /\ awaiting' = [awaiting EXCEPT ![id] = NoKey]
  /\ UNCHANGED output

FinishByTimeout(id) ==
  /\ status' = [status EXCEPT ![id] = "finished"]
  /\ results' = [results EXCEPT ![id] =
                   [t \in Tests |-> IF @[t] \in Open THEN "timedout" ELSE @[t]]]
  /\ compressed' = [compressed EXCEPT ![id] = TRUE]
  /\ awaiting' = [awaiting EXCEPT ![id] = NoKey]
  /\ UNCHANGED output

LeaveFinished(id) ==
  /\ awaiting' = [awaiting EXCEPT ![id] =
                    IF status[id] = "finished" /\ ~compressed[id] THEN NoKey ELSE @]
  /\ UNCHANGED <<status, results, output, compressed>>

\* The ids of a batch are mapped concurrently, 32 at a time: in any order.
Mark(c, id) ==
  /\ cleaner[c] = "marking"
  /\ id \in todo[c]
  /\ todo' = [todo EXCEPT ![c] = @ \ {id}]
  /\ UNCHANGED <<timeouts, creation, handler, cleaner, claimed, offloads, faults>>

MarkWithoutRecord(c, id) ==  \* mutant: the record the script returns is ignored
  Mark(c, id) /\ Unfinished(id) /\ FinishByTimeout(id) /\ UNCHANGED records

MarkUnfinished(c, id) ==
  /\ Mark(c, id)
  /\ Unfinished(id)
  /\ FinishByTimeout(id)
  /\ records' = [records EXCEPT ![c] = @ \cup {id}]

MarkFinished(c, id) ==
  /\ Mark(c, id)
  /\ ~Unfinished(id)
  /\ LeaveFinished(id)
  /\ UNCHANGED records

\* One call rejects, so Bluebird.map does, and the records of the batch are
\* dropped; calls already issued still execute, the failed one perhaps too.
MarkFails(c) ==
  /\ Fault
  /\ cleaner[c] = "marking"
  /\ todo[c] # {}
  /\ cleaner' = [cleaner EXCEPT ![c] = "draining"]
  /\ records' = [records EXCEPT ![c] = {}]
  /\ UNCHANGED <<redis, creation, handler, claimed, todo, offloads>>

Drain(c, id) ==
  /\ cleaner[c] = "draining"
  /\ id \in todo[c]
  /\ todo' = [todo EXCEPT ![c] = @ \ {id}]
  /\ UNCHANGED <<timeouts, creation, handler, cleaner, claimed, records, offloads, faults>>

DrainUnfinished(c, id) == Drain(c, id) /\ Unfinished(id) /\ FinishByTimeout(id)

DrainFinished(c, id) == Drain(c, id) /\ ~Unfinished(id) /\ LeaveFinished(id)

GiveUpForGood(c) ==  \* mutant: scheduleCleanup is called by then, not by finally
  /\ cleaner[c] = "draining"
  /\ cleaner' = [cleaner EXCEPT ![c] = "stopped"]
  /\ claimed' = [claimed EXCEPT ![c] = {}]
  /\ todo' = [todo EXCEPT ![c] = {}]
  /\ UNCHANGED <<redis, creation, handler, records, offloads, faults>>

\* The cleanup ends without zRem; .finally schedules the next one.
GiveUp(c) ==
  /\ cleaner[c] = "draining"
  /\ cleaner' = [cleaner EXCEPT ![c] = "idle"]
  /\ claimed' = [claimed EXCEPT ![c] = {}]
  /\ todo' = [todo EXCEPT ![c] = {}]
  /\ UNCHANGED <<redis, creation, handler, records, offloads, faults>>

RemoveTimeouts(c) ==
  /\ cleaner[c] = "marking"
  /\ todo[c] = {}
  /\ timeouts' = [id \in Ids |-> IF id \in claimed[c] THEN "absent" ELSE timeouts[id]]
  /\ claimed' = [claimed EXCEPT ![c] = {}]
  /\ cleaner' = [cleaner EXCEPT ![c] = "enqueuing"]
  /\ UNCHANGED <<status, results, output, compressed, awaiting,
                 creation, handler, todo, records, offloads, faults>>

EnqueueRecords(c) ==
  /\ cleaner[c] = "enqueuing"
  /\ offloads' = [id \in Ids |-> IF id \in records[c] THEN offloads[id] + 1 ELSE offloads[id]]
  /\ records' = [records EXCEPT ![c] = {}]
  /\ cleaner' = [cleaner EXCEPT ![c] = "idle"]
  /\ UNCHANGED <<redis, creation, handler, claimed, todo, faults>>

\* The zRem fails, or the process dies and is forked again.
CrashCleaner(c) ==
  /\ Fault
  /\ cleaner[c] # "idle"
  /\ cleaner' = [cleaner EXCEPT ![c] = "idle"]
  /\ claimed' = [claimed EXCEPT ![c] = {}]
  /\ todo' = [todo EXCEPT ![c] = {}]
  /\ records' = [records EXCEPT ![c] = {}]
  /\ UNCHANGED <<redis, creation, handler, offloads>>

-------------------------------------------------------------------------------
(* Time *)

\* The score of the entry passes: 30 s after creation, or 30 s after a claim.
Deadline(id) ==
  /\ \/ timeouts[id] = "scheduled" /\ pending[id] = {}
     \/ timeouts[id] = "leased"
  /\ timeouts' = [timeouts EXCEPT ![id] = "due"]
  /\ UNCHANGED <<status, results, output, compressed, awaiting,
                 creation, handler, cleanup, offloads, faults>>

AwaitingExpires(id) ==
  /\ timeouts[id] # "scheduled"
  /\ pending[id] = {}
  /\ awaiting[id] # NoKey
  /\ awaiting' = [awaiting EXCEPT ![id] = NoKey]
  /\ UNCHANGED <<status, results, output, compressed, timeouts,
                 creation, handler, cleanup, offloads, faults>>

-------------------------------------------------------------------------------

CreatorStep(id) ==
  \/ Create(id)
  \/ LandTimeouts(id) \/ LandAwaiting(id) \/ LandDoc(id) \/ LandOthers(id)
  \/ SendToProbes(id) \/ CompressFinished(id) \/ EnqueueImmediate(id)
  \/ CrashCreator(id)
  \/ \E w \in Writes : WriteFails(id, w)

HandlerStep(id, t) ==
  \/ RecordProgress(id, t) \/ RecordResult(id, t) \/ RecordLastResult(id, t)
  \/ DropResult(id, t) \/ RemoveTimeout(id, t) \/ EnqueueRecord(id, t)
  \/ CrashHandler(id, t) \/ ReportAgain(id, t)

CleanerStep(c) ==
  \/ Claim(c) \/ MarkFails(c) \/ GiveUp(c) \/ RemoveTimeouts(c)
  \/ EnqueueRecords(c) \/ CrashCleaner(c)
  \/ \E id \in Ids : \/ MarkUnfinished(c, id) \/ MarkFinished(c, id)
                     \/ DrainUnfinished(c, id) \/ DrainFinished(c, id)

TimeStep(id) == Deadline(id) \/ AwaitingExpires(id)

Next == \/ \E id \in Ids : CreatorStep(id) \/ TimeStep(id)
        \/ \E id \in Ids, t \in Tests : HandlerStep(id, t)
        \/ \E c \in Cleaners : CleanerStep(c)

Spec == Init /\ [][Next]_vars

\* Time passes, Node.js resumes what has been acknowledged, and every cleaner
\* reschedules itself; probes owe no answer, and faults owe nothing at all.
Fairness ==
  /\ \A id \in Ids :
       /\ WF_vars(Deadline(id))
       /\ WF_vars(LandTimeouts(id) \/ LandAwaiting(id) \/ LandDoc(id) \/ LandOthers(id))
       /\ WF_vars(SendToProbes(id) \/ CompressFinished(id) \/ EnqueueImmediate(id))
       /\ \A t \in Tests : WF_vars(RemoveTimeout(id, t) \/ EnqueueRecord(id, t))
  /\ \A c \in Cleaners :
       /\ WF_vars(Claim(c))
       /\ WF_vars(\/ \E id \in Ids : MarkUnfinished(c, id) \/ MarkFinished(c, id)
                  \/ RemoveTimeouts(c) \/ EnqueueRecords(c))
       /\ WF_vars(GiveUp(c))

FairSpec == Spec /\ Fairness

-------------------------------------------------------------------------------
(* Properties *)

\* The processes that hold the record of id on its way to enqueueForOffload:
\* the creator, one of the result handlers, or a cleanup.
HandlerHolds(id, t) == handler[id][t] \in {"removing", "enqueuing"}
CleanerHolds(id, c) == id \in records[c]
Held(id) == \/ creator[id] = "enqueuing"
            \/ \E t \in Tests : HandlerHolds(id, t)
            \/ \E c \in Cleaners : CleanerHolds(id, c)

\* The counter of scripts.ts is right: as long as probes_awaiting exists, the
\* record is in progress, not compressed (JSON.SET would fail on it), and the
\* counter is the number of results that are still open, never 0.
CounterIsExact ==
  \A id \in Ids :
    status[id] # "absent" /\ awaiting[id] # NoKey =>
      /\ Unfinished(id)
      /\ awaiting[id] = Cardinality(OpenTests(results[id]))
      /\ awaiting[id] # 0

\* A record that says "finished" has no open result, whoever finished it: a
\* client that polls until then has all it will ever get.
FinishedIsComplete ==
  \A id \in Ids : status[id] = "finished" => OpenTests(results[id]) = {}

\* The archive gets a record at most once, although results, cleanups of several
\* processes and cleanups whose lease ran out race to finish it.
OffloadedAtMostOnce == \A id \in Ids : offloads[id] <= 1

\* A measurement whose requests were sent is never forgotten by the cleanup: it
\* keeps its entry in gp:in-progress-timeouts until it is finished, through
\* failed batches, expired leases and crashes.
InProgressIsTracked ==
  \A id \in Ids :
    creator[id] = "done" /\ status[id] = "in-progress" => timeouts[id] # "absent"

\* Only a fault can separate finishing a record from archiving it: otherwise a
\* finished record is archived or in the hands of a process about to do so.
FinishedIsHandedOver ==
  \A id \in Ids :
    faults = 0 /\ status[id] = "finished" /\ creator[id] # "writing" =>
      offloads[id] = 1 \/ Held(id)

\* No late result, late progress or second cleanup alters a finished record.
FinishedIsFinal ==
  [][\A id \in Ids : status[id] = "finished" =>
       status'[id] = "finished" /\ results'[id] = results[id] /\ output'[id] = output[id]]_vars

\* "Any value other than in-progress is final": the status a probe has reported for a
\* test stays, although progress may still change its output, and the timeout of the
\* measurement fails the tests that are open.
ReportsAreKept ==
  [][\A id \in Ids, t \in Tests :
       results[id][t] \in Reported => results'[id][t] = results[id][t]]_vars

\* Every measurement whose requests were sent finishes, even if no probe
\* answers and although cleanups fail and die.
EveryMeasurementFinishes ==
  \A id \in Ids : creator[id] = "done" ~> status[id] = "finished"

\* Every measurement reaches the archive, unless a fault happens on its way.
EveryMeasurementIsOffloaded ==
  \A id \in Ids : creator[id] = "writing" ~> offloads[id] = 1 \/ faults # 0

\* The store implements the lifecycle its clients rely on.
Lifecycle == INSTANCE MeasurementLifecycle
ImplementsLifecycle == Lifecycle!Spec
===============================================================================
