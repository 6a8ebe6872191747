------------------------ MODULE MeasurementStoreProofs ------------------------
(***************************************************************************)
(* Proofs about MeasurementStore, for any sets of ids, tests and cleaners  *)
(* and any number of faults.                                               *)
(***************************************************************************)
EXTENDS MeasurementStore, FiniteSetTheorems, TLAPS

\* Where createMeasurement is decides which of its commands can be missing.
CreationInv(id) ==
  /\ creator[id] = "idle" =>
       /\ status[id] = "absent" /\ pending[id] = {} /\ online[id] = {}
       /\ ~compressed[id] /\ awaiting[id] = NoKey /\ timeouts[id] = "absent"
  /\ pending[id] # {} => /\ creator[id] \in {"writing", "rejected"}
                         /\ timeouts[id] \in {"absent", "scheduled"}
                         /\ ~compressed[id]
  /\ "doc" \in pending[id] => status[id] = "absent"
  /\ creator[id] \in {"writing", "enqueuing", "done"} /\ "doc" \notin pending[id]
       => status[id] # "absent"
  /\ creator[id] = "writing" /\ online[id] = {} => ~compressed[id]
  /\ online[id] = {} => /\ {"awaiting", "timeouts"} \cap pending[id] = {}
                        /\ awaiting[id] = NoKey
                        /\ timeouts[id] = "absent"
                        /\ status[id] # "in-progress"
  /\ \A t \in Tests : handler[id][t] # "idle" => creator[id] = "done" /\ t \in online[id]

\* Finishing a record removes its counter, and compresses it if it was in progress.
DocumentInv(id) ==
  /\ compressed[id] => status[id] = "finished"
  /\ status[id] = "finished" => awaiting[id] = NoKey
  /\ status[id] = "finished" /\ online[id] # {} => compressed[id]

\* A record has one holder, and none once it has been archived.
HoldingInv(id) ==
  /\ Held(id) \/ offloads[id] # 0 => compressed[id]
  /\ Held(id) => offloads[id] = 0
  /\ offloads[id] \in {0, 1}
  /\ creator[id] = "enqueuing" =>
       /\ online[id] = {}
       /\ \A t \in Tests : ~HandlerHolds(id, t)
       /\ \A c \in Cleaners : ~CleanerHolds(id, c)
  /\ \A t, u \in Tests : HandlerHolds(id, t) /\ HandlerHolds(id, u) => t = u
  /\ \A c, d \in Cleaners : CleanerHolds(id, c) /\ CleanerHolds(id, d) => c = d
  /\ \A t \in Tests, c \in Cleaners : ~(HandlerHolds(id, t) /\ CleanerHolds(id, c))

\* A cleanup works on measurements whose creation is over, and removes the
\* entries of finished ones only.
CleanupInv(id) ==
  \A c \in Cleaners :
    /\ id \in claimed[c] \cup todo[c] => pending[id] = {} /\ online[id] # {}
    /\ cleaner[c] = "marking" /\ id \in claimed[c] \ todo[c] => status[id] # "in-progress"

\* An unfinished measurement keeps its timeout.
TrackingInv(id) ==
  /\ creator[id] \in {"writing", "done"}
  /\ online[id] # {}
  /\ "timeouts" \notin pending[id]
  /\ status[id] # "finished"
  => timeouts[id] # "absent"

IInv == \A id \in Ids : /\ CreationInv(id) /\ DocumentInv(id) /\ HoldingInv(id)
                        /\ CleanupInv(id) /\ TrackingInv(id)

\* If no test reports twice, the results of the document say which handlers are
\* still to come, and the counter counts them.
CounterInv(id) ==
  /\ pending[id] # {} /\ status[id] # "absent" => OpenTests(results[id]) = online[id]
  /\ creator[id] = "writing" /\ Unfinished(id) => OpenTests(results[id]) = online[id]
  /\ awaiting[id] # NoKey =>
       /\ awaiting[id] # 0
       /\ awaiting[id] = IF status[id] = "absent" THEN Cardinality(online[id])
                         ELSE Cardinality(OpenTests(results[id]))
  /\ \A t \in Tests :
       handler[id][t] = "running" /\ status[id] = "in-progress" => results[id][t] \in Open
  /\ status[id] = "finished" => OpenTests(results[id]) = {}

CInv == \A id \in Ids : CounterInv(id)

-------------------------------------------------------------------------------
(* Type correctness *)

\* The open results of a record can be counted.
LEMMA OpenTestsFinite ==
  ASSUME NEW rs
  PROVE  /\ IsFiniteSet(OpenTests(rs))
         /\ Cardinality(OpenTests(rs)) \in Nat
BY TestsAssumption, FS_Subset, FS_CardinalityType DEF OpenTests

\* So can the online probes of a measurement.
LEMMA OnlineFinite ==
  ASSUME NEW S \in SUBSET Tests
  PROVE  /\ IsFiniteSet(S)
         /\ Cardinality(S) \in Nat
BY TestsAssumption, FS_Subset, FS_CardinalityType

\* Every step keeps the types of the Redis keys and of the control states.
LEMMA TypeStep == TypeOK /\ [Next]_vars => TypeOK'
<1> SUFFICES ASSUME TypeOK, [Next]_vars PROVE TypeOK'
  OBVIOUS
<1> USE MaxFaultsAssumption
    DEF TypeOK, redis, creation, cleanup, Fault, Writes, ResultStatus, Open, Reported
<1>1. ASSUME NEW id \in Ids, Create(id) PROVE TypeOK'
  BY <1>1 DEF Create
<1>2. ASSUME NEW id \in Ids, LandTimeouts(id) PROVE TypeOK'
  BY <1>2 DEF LandTimeouts, Land
<1>3. ASSUME NEW id \in Ids, LandAwaiting(id) PROVE TypeOK'
  BY <1>3, OnlineFinite DEF LandAwaiting, Land
<1>4. ASSUME NEW id \in Ids, LandDoc(id) PROVE TypeOK'
  BY <1>4 DEF LandDoc, Land
<1>5. ASSUME NEW id \in Ids, LandOthers(id) PROVE TypeOK'
  BY <1>5 DEF LandOthers, Land
<1>6. ASSUME NEW id \in Ids, SendToProbes(id) PROVE TypeOK'
  BY <1>6 DEF SendToProbes
<1>7. ASSUME NEW id \in Ids, CompressFinished(id) PROVE TypeOK'
  BY <1>7 DEF CompressFinished
<1>8. ASSUME NEW id \in Ids, EnqueueImmediate(id) PROVE TypeOK'
  BY <1>8 DEF EnqueueImmediate
<1>9. ASSUME NEW id \in Ids, CrashCreator(id) PROVE TypeOK'
  BY <1>9 DEF CrashCreator
<1>10. ASSUME NEW id \in Ids, NEW w \in Writes, WriteFails(id, w) PROVE TypeOK'
  BY <1>10 DEF WriteFails
<1>11. ASSUME NEW id \in Ids, NEW t \in Tests, RecordProgress(id, t) PROVE TypeOK'
  BY <1>11 DEF RecordProgress
<1>12. ASSUME NEW id \in Ids, NEW t \in Tests, RecordResult(id, t) PROVE TypeOK'
  BY <1>12 DEF RecordResult, Record
<1>13. ASSUME NEW id \in Ids, NEW t \in Tests, RecordLastResult(id, t) PROVE TypeOK'
  BY <1>13 DEF RecordLastResult, Record
<1>14. ASSUME NEW id \in Ids, NEW t \in Tests, DropResult(id, t) PROVE TypeOK'
  BY <1>14 DEF DropResult
<1>15. ASSUME NEW id \in Ids, NEW t \in Tests, RemoveTimeout(id, t) PROVE TypeOK'
  BY <1>15 DEF RemoveTimeout
<1>16. ASSUME NEW id \in Ids, NEW t \in Tests, EnqueueRecord(id, t) PROVE TypeOK'
  BY <1>16 DEF EnqueueRecord
<1>17. ASSUME NEW id \in Ids, NEW t \in Tests, CrashHandler(id, t) PROVE TypeOK'
  BY <1>17 DEF CrashHandler
<1>18. ASSUME NEW id \in Ids, NEW t \in Tests, ReportAgain(id, t) PROVE TypeOK'
  BY <1>18 DEF ReportAgain
<1>19. ASSUME NEW c \in Cleaners, Claim(c) PROVE TypeOK'
  BY <1>19 DEF Claim
<1>20. ASSUME NEW c \in Cleaners, MarkFails(c) PROVE TypeOK'
  BY <1>20 DEF MarkFails
<1>21. ASSUME NEW c \in Cleaners, GiveUp(c) PROVE TypeOK'
  BY <1>21 DEF GiveUp
<1>22. ASSUME NEW c \in Cleaners, RemoveTimeouts(c) PROVE TypeOK'
  BY <1>22 DEF RemoveTimeouts
<1>23. ASSUME NEW c \in Cleaners, EnqueueRecords(c) PROVE TypeOK'
  BY <1>23 DEF EnqueueRecords
<1>24. ASSUME NEW c \in Cleaners, CrashCleaner(c) PROVE TypeOK'
  BY <1>24 DEF CrashCleaner
<1>25. ASSUME NEW c \in Cleaners, NEW id \in Ids, MarkUnfinished(c, id) PROVE TypeOK'
  BY <1>25 DEF MarkUnfinished, Mark, FinishByTimeout
<1>26. ASSUME NEW c \in Cleaners, NEW id \in Ids, MarkFinished(c, id) PROVE TypeOK'
  BY <1>26 DEF MarkFinished, Mark, LeaveFinished
<1>27. ASSUME NEW c \in Cleaners, NEW id \in Ids, DrainUnfinished(c, id) PROVE TypeOK'
  BY <1>27 DEF DrainUnfinished, Drain, FinishByTimeout
<1>28. ASSUME NEW c \in Cleaners, NEW id \in Ids, DrainFinished(c, id) PROVE TypeOK'
  BY <1>28 DEF DrainFinished, Drain, LeaveFinished
<1>29. ASSUME NEW id \in Ids, Deadline(id) PROVE TypeOK'
  BY <1>29 DEF Deadline
<1>30. ASSUME NEW id \in Ids, AwaitingExpires(id) PROVE TypeOK'
  BY <1>30 DEF AwaitingExpires
<1>31. CASE UNCHANGED vars
  BY <1>31 DEF vars
<1>32. QED
  BY <1>1, <1>2, <1>3, <1>4, <1>5, <1>6, <1>7, <1>8, <1>9, <1>10, <1>11, <1>12, <1>13,
     <1>14, <1>15, <1>16, <1>17, <1>18, <1>19, <1>20, <1>21, <1>22, <1>23, <1>24,
     <1>25, <1>26, <1>27, <1>28, <1>29, <1>30, <1>31
     DEF Next, CreatorStep, HandlerStep, CleanerStep, TimeStep

\* Every key and every control state keeps its type.
THEOREM TypeCorrect == Spec => []TypeOK
<1>1. Init => TypeOK
  BY NoKeyAssumption, MaxFaultsAssumption DEF Init, TypeOK, ResultStatus
<1>2. QED
  BY <1>1, TypeStep, PTL DEF Spec

-------------------------------------------------------------------------------
(* One holder per record, final documents, no forgotten measurement *)

MeasurementInv(id) == /\ CreationInv(id) /\ DocumentInv(id) /\ HoldingInv(id)
                      /\ CleanupInv(id) /\ TrackingInv(id)

\* Every step keeps the five parts of the invariant, for every measurement j.
LEMMA InvariantStep == TypeOK /\ IInv /\ [Next]_vars => IInv'
<1> SUFFICES ASSUME TypeOK, IInv, [Next]_vars, NEW j \in Ids
             PROVE  MeasurementInv(j)'
  BY DEF IInv, MeasurementInv
<1> USE DEF TypeOK, redis, creation, cleanup, Fault, Writes, ResultStatus, Open, Reported,
            IInv, MeasurementInv, Unfinished
<1> USE DEF CreationInv, DocumentInv, HoldingInv, CleanupInv, TrackingInv,
            Held, HandlerHolds, CleanerHolds
<1>1. ASSUME NEW id \in Ids, Create(id) PROVE MeasurementInv(j)'
  BY <1>1 DEF Create
<1>2. ASSUME NEW id \in Ids, LandTimeouts(id) PROVE MeasurementInv(j)'
  BY <1>2 DEF LandTimeouts, Land
<1>3. ASSUME NEW id \in Ids, LandAwaiting(id) PROVE MeasurementInv(j)'
  BY <1>3, OnlineFinite DEF LandAwaiting, Land
<1>4. ASSUME NEW id \in Ids, LandDoc(id) PROVE MeasurementInv(j)'
  BY <1>4 DEF LandDoc, Land
<1>5. ASSUME NEW id \in Ids, LandOthers(id) PROVE MeasurementInv(j)'
  BY <1>5 DEF LandOthers, Land
<1>6. ASSUME NEW id \in Ids, SendToProbes(id) PROVE MeasurementInv(j)'
  BY <1>6 DEF SendToProbes
<1>7. ASSUME NEW id \in Ids, CompressFinished(id) PROVE MeasurementInv(j)'
  BY <1>7 DEF CompressFinished
<1>8. ASSUME NEW id \in Ids, EnqueueImmediate(id) PROVE MeasurementInv(j)'
  BY <1>8 DEF EnqueueImmediate
<1>9. ASSUME NEW id \in Ids, CrashCreator(id) PROVE MeasurementInv(j)'
  BY <1>9 DEF CrashCreator
<1>10. ASSUME NEW id \in Ids, NEW w \in Writes, WriteFails(id, w) PROVE MeasurementInv(j)'
  BY <1>10 DEF WriteFails
<1>11. ASSUME NEW id \in Ids, NEW t \in Tests, RecordProgress(id, t) PROVE MeasurementInv(j)'
  BY <1>11 DEF RecordProgress
<1>12. ASSUME NEW id \in Ids, NEW t \in Tests, RecordResult(id, t) PROVE MeasurementInv(j)'
  BY <1>12 DEF RecordResult, Record
<1>13. ASSUME NEW id \in Ids, NEW t \in Tests, RecordLastResult(id, t) PROVE MeasurementInv(j)'
  BY <1>13 DEF RecordLastResult, Record
<1>14. ASSUME NEW id \in Ids, NEW t \in Tests, DropResult(id, t) PROVE MeasurementInv(j)'
  BY <1>14 DEF DropResult
<1>15. ASSUME NEW id \in Ids, NEW t \in Tests, RemoveTimeout(id, t) PROVE MeasurementInv(j)'
  BY <1>15 DEF RemoveTimeout
<1>16. ASSUME NEW id \in Ids, NEW t \in Tests, EnqueueRecord(id, t) PROVE MeasurementInv(j)'
  BY <1>16 DEF EnqueueRecord
<1>17. ASSUME NEW id \in Ids, NEW t \in Tests, CrashHandler(id, t) PROVE MeasurementInv(j)'
  BY <1>17 DEF CrashHandler
<1>18. ASSUME NEW id \in Ids, NEW t \in Tests, ReportAgain(id, t) PROVE MeasurementInv(j)'
  BY <1>18 DEF ReportAgain
<1>19. ASSUME NEW c \in Cleaners, Claim(c) PROVE MeasurementInv(j)'
  BY <1>19 DEF Claim
<1>20. ASSUME NEW c \in Cleaners, MarkFails(c) PROVE MeasurementInv(j)'
  <2>1. CreationInv(j)' /\ DocumentInv(j)' /\ TrackingInv(j)'
    BY <1>20 DEF MarkFails
  <2>2. HoldingInv(j)'
    BY <1>20 DEF MarkFails
  <2>3. CleanupInv(j)'
    BY <1>20 DEF MarkFails
  <2>4. QED
    BY <2>1, <2>2, <2>3
<1>21. ASSUME NEW c \in Cleaners, GiveUp(c) PROVE MeasurementInv(j)'
  <2>1. CreationInv(j)' /\ DocumentInv(j)' /\ TrackingInv(j)'
    BY <1>21 DEF GiveUp
  <2>2. HoldingInv(j)'
    BY <1>21 DEF GiveUp
  <2>3. CleanupInv(j)'
    BY <1>21 DEF GiveUp
  <2>4. QED
    BY <2>1, <2>2, <2>3
<1>22. ASSUME NEW c \in Cleaners, RemoveTimeouts(c) PROVE MeasurementInv(j)'
  <2>1. TrackingInv(j)'
    <3>1. CASE j \in claimed[c]
      <4>1. status[j] # "in-progress" /\ pending[j] = {}
        BY <1>22, <3>1 DEF RemoveTimeouts
      <4>2. QED
        BY <1>22, <4>1 DEF RemoveTimeouts
    <3>2. CASE j \notin claimed[c]
      BY <1>22, <3>2 DEF RemoveTimeouts
    <3>3. QED
      BY <3>1, <3>2
  <2>2. CreationInv(j)' /\ DocumentInv(j)' /\ HoldingInv(j)'
    BY <1>22 DEF RemoveTimeouts
  <2>3. CleanupInv(j)'
    BY <1>22 DEF RemoveTimeouts
  <2>4. QED
    BY <2>1, <2>2, <2>3
<1>23. ASSUME NEW c \in Cleaners, EnqueueRecords(c) PROVE MeasurementInv(j)'
  BY <1>23 DEF EnqueueRecords
<1>24. ASSUME NEW c \in Cleaners, CrashCleaner(c) PROVE MeasurementInv(j)'
  BY <1>24 DEF CrashCleaner
<1>25. ASSUME NEW c \in Cleaners, NEW id \in Ids, MarkUnfinished(c, id) PROVE MeasurementInv(j)'
  BY <1>25 DEF MarkUnfinished, Mark, FinishByTimeout
<1>26. ASSUME NEW c \in Cleaners, NEW id \in Ids, MarkFinished(c, id) PROVE MeasurementInv(j)'
  BY <1>26 DEF MarkFinished, Mark, LeaveFinished
<1>27. ASSUME NEW c \in Cleaners, NEW id \in Ids, DrainUnfinished(c, id) PROVE MeasurementInv(j)'
  BY <1>27 DEF DrainUnfinished, Drain, FinishByTimeout
<1>28. ASSUME NEW c \in Cleaners, NEW id \in Ids, DrainFinished(c, id) PROVE MeasurementInv(j)'
  BY <1>28 DEF DrainFinished, Drain, LeaveFinished
<1>29. ASSUME NEW id \in Ids, Deadline(id) PROVE MeasurementInv(j)'
  BY <1>29 DEF Deadline
<1>30. ASSUME NEW id \in Ids, AwaitingExpires(id) PROVE MeasurementInv(j)'
  BY <1>30 DEF AwaitingExpires
<1>31. CASE UNCHANGED vars
  BY <1>31 DEF vars
<1> HIDE DEF IInv, MeasurementInv, TypeOK
<1>32. QED
  BY <1>1, <1>2, <1>3, <1>4, <1>5, <1>6, <1>7, <1>8, <1>9, <1>10, <1>11, <1>12, <1>13,
     <1>14, <1>15, <1>16, <1>17, <1>18, <1>19, <1>20, <1>21, <1>22, <1>23, <1>24,
     <1>25, <1>26, <1>27, <1>28, <1>29, <1>30, <1>31
     DEF Next, CreatorStep, HandlerStep, CleanerStep, TimeStep

\* The inductive invariant of the store holds in every reachable state.
THEOREM InvariantCorrect == Spec => []IInv
<1>1. Init => IInv
  BY DEF Init, IInv, CreationInv, DocumentInv, HoldingInv, CleanupInv, TrackingInv,
         Held, HandlerHolds, CleanerHolds
<1>2. QED
  BY <1>1, InvariantStep, TypeCorrect, PTL DEF Spec

\* However results, cleanups and lapsed leases race, whatever fails and however
\* often probes report, the archive gets a record at most once.
THEOREM ArchivedAtMostOnce == Spec => []OffloadedAtMostOnce
<1>1. IInv => OffloadedAtMostOnce
  BY DEF IInv, HoldingInv, OffloadedAtMostOnce
<1>2. QED
  BY <1>1, InvariantCorrect, PTL

\* No measurement whose requests were sent loses its timeout before it finishes.
THEOREM NeverForgotten == Spec => []InProgressIsTracked
<1>1. IInv => InProgressIsTracked
  BY DEF IInv, CreationInv, TrackingInv, InProgressIsTracked
<1>2. QED
  BY <1>1, InvariantCorrect, PTL

\* A finished record keeps its status, its results and their output.
THEOREM FinishedForGood == Spec => FinishedIsFinal
<1>1. TypeOK /\ IInv /\ [Next]_vars =>
        [\A id \in Ids : status[id] = "finished" =>
           status'[id] = "finished" /\ results'[id] = results[id] /\ output'[id] = output[id]]_vars
  <2> SUFFICES ASSUME TypeOK, IInv, Next, NEW j \in Ids, status[j] = "finished"
               PROVE  status'[j] = "finished" /\ results'[j] = results[j] /\ output'[j] = output[j]
    BY DEF vars
  <2>1. awaiting[j] = NoKey /\ "doc" \notin pending[j] /\ ~Unfinished(j)
    BY DEF IInv, CreationInv, DocumentInv, Unfinished
  <2>2. ASSUME NEW id \in Ids, CreatorStep(id) \/ TimeStep(id)
        PROVE  status'[j] = "finished" /\ results'[j] = results[j] /\ output'[j] = output[j]
    BY <2>1, <2>2 DEF CreatorStep, TimeStep, TypeOK, redis, Create, Land, LandTimeouts,
       LandAwaiting, LandDoc, LandOthers, SendToProbes, CompressFinished, EnqueueImmediate,
       CrashCreator, WriteFails, Deadline, AwaitingExpires
  <2>3. ASSUME NEW id \in Ids, NEW t \in Tests, HandlerStep(id, t)
        PROVE  status'[j] = "finished" /\ results'[j] = results[j] /\ output'[j] = output[j]
    BY <2>1, <2>3 DEF HandlerStep, TypeOK, redis, RecordProgress, Record, RecordResult,
       RecordLastResult, DropResult, RemoveTimeout, EnqueueRecord, CrashHandler, ReportAgain
  <2>4. ASSUME NEW c \in Cleaners, CleanerStep(c)
        PROVE  status'[j] = "finished" /\ results'[j] = results[j] /\ output'[j] = output[j]
    BY <2>1, <2>4 DEF CleanerStep, TypeOK, redis, Claim, MarkFails, GiveUp, RemoveTimeouts,
       EnqueueRecords, CrashCleaner, MarkUnfinished, MarkFinished, DrainUnfinished,
       DrainFinished, Mark, Drain, FinishByTimeout, LeaveFinished
  <2>5. QED
    BY <2>2, <2>3, <2>4 DEF Next
<1>2. QED
  BY <1>1, TypeCorrect, InvariantCorrect, PTL DEF Spec, FinishedIsFinal

-------------------------------------------------------------------------------
(* Nothing but a fault separates finishing from archiving *)

\* Without a fault no cleanup drops its records, no creation is rejected, and a
\* finished record that sendToProbes has to deal with is handed over already.
HandoverInv ==
  faults = 0 =>
    /\ \A c \in Cleaners : cleaner[c] # "draining"
    /\ \A id \in Ids :
         /\ creator[id] # "rejected"
         /\ status[id] = "finished" /\ (creator[id] # "writing" \/ online[id] # {})
              => offloads[id] = 1 \/ Held(id)

\* Every step keeps it: who finishes a record holds it, and lets go of it only
\* by passing it on or by a fault.
LEMMA HandoverStep == TypeOK /\ IInv /\ HandoverInv /\ [Next]_vars => HandoverInv'
<1> DEFINE Handed(i) == /\ creator[i] # "rejected"
                        /\ status[i] = "finished" /\ (creator[i] # "writing" \/ online[i] # {})
                             => offloads[i] = 1 \/ Held(i)
           NoDrain == \A c \in Cleaners : cleaner[c] # "draining"
<1> SUFFICES ASSUME TypeOK, IInv, HandoverInv, [Next]_vars, (faults = 0)'
             PROVE  NoDrain' /\ \A i \in Ids : Handed(i)'
  BY DEF HandoverInv
<1> USE DEF TypeOK, redis, creation, cleanup, Fault
<1>1. faults = 0 /\ NoDrain /\ \A i \in Ids : Handed(i)
  <2>1. faults = 0
    BY MaxFaultsAssumption DEF Next, CreatorStep, HandlerStep, CleanerStep, TimeStep, vars,
       Create, Land, LandTimeouts, LandAwaiting, LandDoc, LandOthers, WriteFails, SendToProbes,
       CompressFinished, EnqueueImmediate, CrashCreator, RecordProgress, Record, RecordResult,
       RecordLastResult, DropResult, RemoveTimeout, EnqueueRecord, CrashHandler, ReportAgain,
       Claim, Mark, MarkUnfinished, MarkFinished, MarkFails, Drain, DrainUnfinished,
       DrainFinished, GiveUp, RemoveTimeouts, EnqueueRecords, CrashCleaner, Deadline,
       AwaitingExpires
  <2>2. QED
    BY <2>1 DEF HandoverInv
<1>2. NoDrain'
  BY <1>1 DEF Next, CreatorStep, HandlerStep, CleanerStep, TimeStep, vars,
       Create, Land, LandTimeouts, LandAwaiting, LandDoc, LandOthers, WriteFails, SendToProbes,
       CompressFinished, EnqueueImmediate, CrashCreator, RecordProgress, Record, RecordResult,
       RecordLastResult, DropResult, RemoveTimeout, EnqueueRecord, CrashHandler, ReportAgain,
       Claim, Mark, MarkUnfinished, MarkFinished, MarkFails, Drain, DrainUnfinished,
       DrainFinished, GiveUp, RemoveTimeouts, EnqueueRecords, CrashCleaner, Deadline,
       AwaitingExpires
<1> SUFFICES ASSUME NEW j \in Ids PROVE Handed(j)'
  BY <1>2
<1>3. /\ faults = 0 /\ NoDrain /\ Handed(j)
      /\ CreationInv(j) /\ HoldingInv(j)
  BY <1>1 DEF IInv
<1> USE DEF Held, HandlerHolds, CleanerHolds
<1>4. ASSUME NEW id \in Ids, CreatorStep(id) PROVE Handed(j)'
  <2> USE <1>3 DEF CreationInv, HoldingInv
  <2>1. CASE Create(id)
    BY <2>1 DEF Create
  <2>2. CASE LandTimeouts(id) \/ LandAwaiting(id) \/ LandOthers(id)
    BY <2>2 DEF LandTimeouts, LandAwaiting, LandOthers, Land
  <2>3. CASE LandDoc(id)
    BY <2>3 DEF LandDoc, Land
  <2>4. CASE SendToProbes(id)
    BY <2>4 DEF SendToProbes
  <2>5. CASE CompressFinished(id)
    BY <2>5 DEF CompressFinished
  <2>6. CASE EnqueueImmediate(id)
    BY <2>6 DEF EnqueueImmediate
  <2>7. CASE CrashCreator(id)
    BY <2>7 DEF CrashCreator
  <2>8. ASSUME NEW w \in Writes, WriteFails(id, w) PROVE Handed(j)'
    BY <2>8 DEF WriteFails
  <2>9. QED
    BY <1>4, <2>1, <2>2, <2>3, <2>4, <2>5, <2>6, <2>7, <2>8 DEF CreatorStep
<1>5. ASSUME NEW id \in Ids, NEW t \in Tests, HandlerStep(id, t) PROVE Handed(j)'
  <2> USE <1>3 DEF HoldingInv
  <2>0. CASE RecordProgress(id, t)
    BY <2>0 DEF RecordProgress
  <2>1. CASE DropResult(id, t)
    BY <2>1 DEF DropResult
  <2>2. CASE RecordResult(id, t)
    BY <2>2 DEF RecordResult, Record
  <2>3. CASE RecordLastResult(id, t)
    BY <2>3 DEF RecordLastResult, Record
  <2>4. CASE RemoveTimeout(id, t)
    BY <2>4 DEF RemoveTimeout
  <2>5. CASE EnqueueRecord(id, t)
    BY <2>5 DEF EnqueueRecord
  <2>6. CASE CrashHandler(id, t)
    BY <2>6 DEF CrashHandler
  <2>7. CASE ReportAgain(id, t)
    BY <2>7 DEF ReportAgain
  <2>8. QED
    BY <1>5, <2>0, <2>1, <2>2, <2>3, <2>4, <2>5, <2>6, <2>7 DEF HandlerStep
<1>6. ASSUME NEW c \in Cleaners, CleanerStep(c) PROVE Handed(j)'
  <2> USE <1>3 DEF HoldingInv
  <2>1. CASE Claim(c) \/ RemoveTimeouts(c)
    BY <2>1 DEF Claim, RemoveTimeouts
  <2>2. CASE MarkFails(c) \/ CrashCleaner(c) \/ GiveUp(c)
    BY <2>2 DEF MarkFails, CrashCleaner, GiveUp
  <2>3. CASE EnqueueRecords(c)
    BY <2>3 DEF EnqueueRecords
  <2>4. ASSUME NEW id \in Ids, MarkUnfinished(c, id) PROVE Handed(j)'
    BY <2>4 DEF MarkUnfinished, Mark, FinishByTimeout
  <2>5. ASSUME NEW id \in Ids, MarkFinished(c, id) PROVE Handed(j)'
    BY <2>5 DEF MarkFinished, Mark, LeaveFinished
  <2>6. ASSUME NEW id \in Ids, DrainUnfinished(c, id) \/ DrainFinished(c, id) PROVE Handed(j)'
    BY <2>6 DEF DrainUnfinished, DrainFinished, Drain
  <2>7. QED
    BY <1>6, <2>1, <2>2, <2>3, <2>4, <2>5, <2>6 DEF CleanerStep
<1>7. ASSUME NEW id \in Ids, TimeStep(id) PROVE Handed(j)'
  BY <1>3, <1>7 DEF TimeStep, Deadline, AwaitingExpires
<1>8. CASE UNCHANGED vars
  BY <1>3, <1>8 DEF vars
<1>9. QED
  BY <1>4, <1>5, <1>6, <1>7, <1>8 DEF Next

\* A finished record is archived or in the hands of the process that will do it,
\* as long as no fault has happened.
THEOREM FinishedAlwaysHandedOver == Spec => []FinishedIsHandedOver
<1>1. Init => HandoverInv
  BY DEF Init, HandoverInv
<1>2. HandoverInv => FinishedIsHandedOver
  BY DEF HandoverInv, FinishedIsHandedOver
<1>3. QED
  BY <1>1, <1>2, HandoverStep, TypeCorrect, InvariantCorrect, PTL DEF Spec

-------------------------------------------------------------------------------
(* The counter and the results, when no test reports twice *)

\* The open tests of a new document are those of its online probes.
LEMMA OpenAtCreation ==
  ASSUME NEW on \in SUBSET Tests
  PROVE  OpenTests([t \in Tests |-> IF t \in on THEN "in-progress" ELSE "offline"]) = on
BY DEF OpenTests, Open

\* A report closes its own test: there is one open test less.
LEMMA OpenAfterReport ==
  ASSUME NEW rs \in [Tests -> ResultStatus], NEW t \in Tests, rs[t] \in Open,
         NEW outcome \in Reported
  PROVE  /\ OpenTests([rs EXCEPT ![t] = outcome]) = OpenTests(rs) \ {t}
         /\ Cardinality(OpenTests(rs) \ {t}) = Cardinality(OpenTests(rs)) - 1
<1>1. OpenTests([rs EXCEPT ![t] = outcome]) = OpenTests(rs) \ {t}
  BY DEF OpenTests, Open, Reported
<1>2. t \in OpenTests(rs)
  BY DEF OpenTests
<1>3. QED
  BY <1>1, <1>2, OpenTestsFinite, FS_RemoveElement

\* The timeout closes every test.
LEMMA OpenAfterTimeout ==
  ASSUME NEW rs \in [Tests -> ResultStatus]
  PROVE  OpenTests([t \in Tests |-> IF rs[t] \in Open THEN "timedout" ELSE rs[t]]) = {}
BY DEF OpenTests, Open

\* Both ways of recording a result find the record open, and close one test.
LEMMA ReportClosesOne ==
  ASSUME ~DuplicateResults, TypeOK, IInv, CInv, NEW id \in Ids, NEW t \in Tests, Record(id, t)
  PROVE  /\ status[id] = "in-progress" /\ pending[id] = {} /\ creator[id] = "done"
         /\ results[id][t] \in Open
         /\ awaiting[id] = Cardinality(OpenTests(results[id]))
         /\ OpenTests(results'[id]) = OpenTests(results[id]) \ {t}
         /\ Cardinality(OpenTests(results'[id])) = awaiting[id] - 1
         /\ \A u \in Tests \ {t} : results'[id][u] = results[id][u]
<1>1. creator[id] = "done" /\ pending[id] = {} /\ status[id] # "absent"
  BY DEF Record, IInv, CreationInv
<1>2. status[id] = "in-progress"
  BY <1>1 DEF Record, IInv, DocumentInv, TypeOK
<1>3. results[id][t] \in Open
  BY <1>2 DEF Record, CInv, CounterInv
<1>4. PICK outcome \in Reported : results' = [results EXCEPT ![id][t] = outcome]
  BY DEF Record
<1>5. results[id] \in [Tests -> ResultStatus] /\ results'[id] = [results[id] EXCEPT ![t] = outcome]
  BY <1>4 DEF TypeOK
<1>6. /\ OpenTests(results'[id]) = OpenTests(results[id]) \ {t}
      /\ Cardinality(OpenTests(results[id]) \ {t}) = Cardinality(OpenTests(results[id])) - 1
  BY <1>3, <1>5, OpenAfterReport
<1>7. awaiting[id] = Cardinality(OpenTests(results[id]))
  BY <1>2 DEF Record, CInv, CounterInv
<1>8. QED
  BY <1>1, <1>2, <1>3, <1>5, <1>6, <1>7

\* Every step keeps the counter equal to the number of open results.
LEMMA CounterStep == ~DuplicateResults /\ TypeOK /\ IInv /\ CInv /\ [Next]_vars => CInv'
<1> SUFFICES ASSUME ~DuplicateResults, TypeOK, IInv, CInv, [Next]_vars, NEW j \in Ids
             PROVE  CounterInv(j)'
  BY DEF CInv
<1> USE DEF redis, creation, cleanup, IInv, CInv
<1>timeout. ASSUME NEW c \in Cleaners, NEW id \in Ids, FinishByTimeout(id), id \in todo[c],
             UNCHANGED <<creation, handler>>
      PROVE  CounterInv(j)'
  <2>1. CASE j = id
    <3>1. OpenTests(results'[id]) = {}
      BY <1>timeout, OpenAfterTimeout DEF FinishByTimeout, TypeOK
    <3>2. QED
      BY <1>timeout, <2>1, <3>1 DEF FinishByTimeout, CounterInv, CleanupInv, TypeOK, Unfinished
  <2>2. CASE j # id
    BY <1>timeout, <2>2 DEF FinishByTimeout, CounterInv, TypeOK, Unfinished
  <2>3. QED
    BY <2>1, <2>2
<1>1. ASSUME NEW id \in Ids, Create(id) PROVE CounterInv(j)'
  BY <1>1
  DEF Create, CounterInv, CreationInv, DocumentInv, Unfinished, TypeOK
<1>2. ASSUME NEW id \in Ids, LandTimeouts(id) PROVE CounterInv(j)'
  BY <1>2
  DEF LandTimeouts, Land, CounterInv, CreationInv, DocumentInv, Unfinished, TypeOK
<1>3. ASSUME NEW id \in Ids, LandAwaiting(id) PROVE CounterInv(j)'
  <2>1. Cardinality(online[id]) \in Nat /\ (Cardinality(online[id]) = 0 => online[id] = {})
    BY OnlineFinite, FS_EmptySet DEF TypeOK
  <2>2. online[id] # {}
    BY <1>3 DEF LandAwaiting, Land, CreationInv
  <2>3. QED
    BY <1>3, <2>1, <2>2 DEF LandAwaiting, Land, CounterInv, CreationInv, Unfinished, TypeOK
<1>4. ASSUME NEW id \in Ids, LandDoc(id) PROVE CounterInv(j)'
  <2>1. CASE j = id
    <3>1. OpenTests(results'[id]) = online[id] /\ online'[id] = online[id]
      BY <1>4, OpenAtCreation DEF LandDoc, Land, TypeOK
    <3>2. status'[id] = (IF online[id] = {} THEN "finished" ELSE "in-progress")
      BY <1>4 DEF LandDoc, TypeOK
    <3>3. QED
      BY <1>4, <2>1, <3>1, <3>2 DEF LandDoc, Land, CounterInv, CreationInv
  <2>2. CASE j # id
    BY <1>4, <2>2 DEF LandDoc, Land, CounterInv, Unfinished, TypeOK
  <2>3. QED
    BY <2>1, <2>2
<1>5. ASSUME NEW id \in Ids, LandOthers(id) PROVE CounterInv(j)'
  BY <1>5
  DEF LandOthers, Land, CounterInv, CreationInv, DocumentInv, Unfinished, TypeOK
<1>6. ASSUME NEW id \in Ids, SendToProbes(id) PROVE CounterInv(j)'
  <2>1. CASE j = id
    <3>1. ASSUME NEW t \in Tests, handler'[id][t] = "running", status'[id] = "in-progress"
          PROVE  results'[id][t] \in Open
      <4>1. t \in online[id]
        BY <1>6, <3>1 DEF SendToProbes, CreationInv, TypeOK
      <4>2. ~compressed[id] /\ status[id] = "in-progress"
        BY <1>6, <3>1 DEF SendToProbes, DocumentInv, TypeOK
      <4>3. OpenTests(results[id]) = online[id]
        BY <1>6, <4>2 DEF SendToProbes, Unfinished, CounterInv
      <4>4. QED
        BY <1>6, <4>1, <4>3 DEF SendToProbes, OpenTests
    <3>2. QED
      BY <1>6, <2>1, <3>1 DEF SendToProbes, CounterInv, Unfinished, TypeOK
  <2>2. CASE j # id
    BY <1>6, <2>2 DEF SendToProbes, CounterInv, Unfinished, TypeOK
  <2>3. QED
    BY <2>1, <2>2
<1>7. ASSUME NEW id \in Ids, CompressFinished(id) PROVE CounterInv(j)'
  BY <1>7
  DEF CompressFinished, CounterInv, CreationInv, DocumentInv, Unfinished, TypeOK
<1>8. ASSUME NEW id \in Ids, EnqueueImmediate(id) PROVE CounterInv(j)'
  BY <1>8
  DEF EnqueueImmediate, CounterInv, CreationInv, DocumentInv, Unfinished, TypeOK
<1>9. ASSUME NEW id \in Ids, CrashCreator(id) PROVE CounterInv(j)'
  BY <1>9
  DEF CrashCreator, CounterInv, CreationInv, DocumentInv, Unfinished, TypeOK
<1>10. ASSUME NEW id \in Ids, NEW w \in Writes, WriteFails(id, w) PROVE CounterInv(j)'
  BY <1>10
  DEF WriteFails, CounterInv, CreationInv, DocumentInv, Unfinished, TypeOK
<1>11. ASSUME NEW id \in Ids, NEW t \in Tests, RecordProgress(id, t) PROVE CounterInv(j)'
  BY <1>11 DEF RecordProgress, CounterInv, Unfinished
<1>12. ASSUME NEW id \in Ids, NEW t \in Tests, RecordResult(id, t) PROVE CounterInv(j)'
  <2>record. Record(id, t)
    BY <1>12 DEF RecordResult
  <2>1. CASE j = id
    <3>1. ASSUME NEW u \in Tests, handler'[id][u] = "running"
          PROVE  results'[id][u] \in Open
      BY <1>12, <2>record, ReportClosesOne, <3>1 DEF RecordResult, CounterInv, TypeOK
    <3>2. awaiting'[id] = awaiting[id] - 1 /\ awaiting'[id] # 0
      BY <1>12 DEF RecordResult, TypeOK
    <3>3. QED
      BY <1>12, <2>record, ReportClosesOne, <2>1, <3>1, <3>2 DEF RecordResult, Record, CounterInv
  <2>2. CASE j # id
    BY <1>12, <2>record, <2>2 DEF RecordResult, Record, CounterInv, TypeOK, Unfinished
  <2>3. QED
    BY <2>1, <2>2
<1>13. ASSUME NEW id \in Ids, NEW t \in Tests, RecordLastResult(id, t) PROVE CounterInv(j)'
  <2>record. Record(id, t)
    BY <1>13 DEF RecordLastResult
  <2>1. CASE j = id
    <3>1. OpenTests(results'[id]) = {}
      BY <1>13, <2>record, ReportClosesOne, OpenTestsFinite, FS_EmptySet DEF RecordLastResult
    <3>2. status[id] = "in-progress" /\ pending[id] = {} /\ creator[id] = "done"
      BY <2>record, ReportClosesOne
    <3>3. /\ status'[id] = "finished" /\ awaiting'[id] = NoKey
          /\ pending'[id] = {} /\ creator'[id] = "done"
      BY <1>13, <2>record, <3>2 DEF RecordLastResult, Record, TypeOK
    <3>4. QED
      BY <2>1, <3>1, <3>3 DEF CounterInv, Unfinished
  <2>2. CASE j # id
    BY <1>13, <2>record, <2>2 DEF RecordLastResult, Record, CounterInv, TypeOK, Unfinished
  <2>3. QED
    BY <2>1, <2>2
<1>14. ASSUME NEW id \in Ids, NEW t \in Tests, DropResult(id, t) PROVE CounterInv(j)'
  BY <1>14
  DEF DropResult, CounterInv, CreationInv, DocumentInv, Unfinished, TypeOK
<1>15. ASSUME NEW id \in Ids, NEW t \in Tests, RemoveTimeout(id, t) PROVE CounterInv(j)'
  BY <1>15
  DEF RemoveTimeout, CounterInv, CreationInv, DocumentInv, Unfinished, TypeOK
<1>16. ASSUME NEW id \in Ids, NEW t \in Tests, EnqueueRecord(id, t) PROVE CounterInv(j)'
  BY <1>16
  DEF EnqueueRecord, CounterInv, CreationInv, DocumentInv, Unfinished, TypeOK
<1>17. ASSUME NEW id \in Ids, NEW t \in Tests, CrashHandler(id, t) PROVE CounterInv(j)'
  BY <1>17
  DEF CrashHandler, CounterInv, CreationInv, DocumentInv, Unfinished, TypeOK
<1>18. ASSUME NEW id \in Ids, NEW t \in Tests, ReportAgain(id, t) PROVE CounterInv(j)'
  BY <1>18
  DEF ReportAgain, CounterInv, CreationInv, DocumentInv, Unfinished, TypeOK
<1>19. ASSUME NEW c \in Cleaners, Claim(c) PROVE CounterInv(j)'
  BY <1>19
  DEF Claim, CounterInv, CreationInv, DocumentInv, Unfinished, TypeOK
<1>20. ASSUME NEW c \in Cleaners, MarkFails(c) PROVE CounterInv(j)'
  BY <1>20
  DEF MarkFails, CounterInv, CreationInv, DocumentInv, Unfinished, TypeOK
<1>21. ASSUME NEW c \in Cleaners, GiveUp(c) PROVE CounterInv(j)'
  BY <1>21
  DEF GiveUp, CounterInv, CreationInv, DocumentInv, Unfinished, TypeOK
<1>22. ASSUME NEW c \in Cleaners, RemoveTimeouts(c) PROVE CounterInv(j)'
  BY <1>22
  DEF RemoveTimeouts, CounterInv, CreationInv, DocumentInv, Unfinished, TypeOK
<1>23. ASSUME NEW c \in Cleaners, EnqueueRecords(c) PROVE CounterInv(j)'
  BY <1>23
  DEF EnqueueRecords, CounterInv, CreationInv, DocumentInv, Unfinished, TypeOK
<1>24. ASSUME NEW c \in Cleaners, CrashCleaner(c) PROVE CounterInv(j)'
  BY <1>24
  DEF CrashCleaner, CounterInv, CreationInv, DocumentInv, Unfinished, TypeOK
<1>25. ASSUME NEW c \in Cleaners, NEW id \in Ids, MarkUnfinished(c, id) PROVE CounterInv(j)'
  BY <1>25, <1>timeout DEF MarkUnfinished, Mark
<1>26. ASSUME NEW c \in Cleaners, NEW id \in Ids, MarkFinished(c, id) PROVE CounterInv(j)'
  BY <1>26
  DEF MarkFinished, Mark, LeaveFinished, CounterInv, CreationInv, DocumentInv, Unfinished, TypeOK
<1>27. ASSUME NEW c \in Cleaners, NEW id \in Ids, DrainUnfinished(c, id) PROVE CounterInv(j)'
  BY <1>27, <1>timeout DEF DrainUnfinished, Drain
<1>28. ASSUME NEW c \in Cleaners, NEW id \in Ids, DrainFinished(c, id) PROVE CounterInv(j)'
  BY <1>28
  DEF DrainFinished, Drain, LeaveFinished, CounterInv, CreationInv, DocumentInv, Unfinished, TypeOK
<1>29. ASSUME NEW id \in Ids, Deadline(id) PROVE CounterInv(j)'
  BY <1>29
  DEF Deadline, CounterInv, CreationInv, DocumentInv, Unfinished, TypeOK
<1>30. ASSUME NEW id \in Ids, AwaitingExpires(id) PROVE CounterInv(j)'
  BY <1>30
  DEF AwaitingExpires, CounterInv, CreationInv, DocumentInv, Unfinished, TypeOK
<1>31. CASE UNCHANGED vars
  BY <1>31 DEF vars, CounterInv, Unfinished
<1>32. QED
  BY <1>1, <1>2, <1>3, <1>4, <1>5, <1>6, <1>7, <1>8, <1>9, <1>10, <1>11, <1>12, <1>13,
     <1>14, <1>15, <1>16, <1>17, <1>18, <1>19, <1>20, <1>21, <1>22, <1>23, <1>24,
     <1>25, <1>26, <1>27, <1>28, <1>29, <1>30, <1>31
     DEF Next, CreatorStep, HandlerStep, CleanerStep, TimeStep

\* When no test reports twice, the counter of open results is never off.
LEMMA CounterCorrect == ~DuplicateResults /\ Spec => []CInv
<1>1. Init => CInv
  BY DEF Init, CInv, CounterInv, Unfinished, OpenTests, Open
<1>2. ASSUME ~DuplicateResults PROVE TypeOK /\ IInv /\ CInv /\ [Next]_vars => CInv'
  BY <1>2, CounterStep
<1>3. ASSUME ~DuplicateResults PROVE Spec => []CInv
  BY <1>1, <1>2, <1>3, TypeCorrect, InvariantCorrect, PTL DEF Spec
<1>4. QED
  BY <1>3

\* When no test reports twice, the counter is the number of open results.
THEOREM CounterAlwaysExact == ~DuplicateResults /\ Spec => []CounterIsExact
<1>1. TypeOK /\ IInv /\ CInv => CounterIsExact
  BY DEF TypeOK, IInv, CInv, DocumentInv, CounterInv, CounterIsExact, Unfinished
<1>2. QED
  BY <1>1, TypeCorrect, InvariantCorrect, CounterCorrect, PTL

\* When no test reports twice, a finished record has no open result.
THEOREM FinishedIsAlwaysComplete == ~DuplicateResults /\ Spec => []FinishedIsComplete
<1>1. CInv => FinishedIsComplete
  BY DEF CInv, CounterInv, FinishedIsComplete
<1>2. QED
  BY <1>1, CounterCorrect, PTL

-------------------------------------------------------------------------------
(* Refinement of MeasurementLifecycle *)

\* A step of the store is a step of the lifecycle or leaves its variables alone.
LEMMA LifecycleStep ==
  ~DuplicateResults /\ TypeOK /\ IInv /\ CInv /\ [Next]_vars
  => [Lifecycle!Next]_(Lifecycle!vars)
<1> SUFFICES ASSUME ~DuplicateResults, TypeOK, IInv, CInv, [Next]_vars
             PROVE  Lifecycle!Next \/ UNCHANGED <<status, results, offloads>>
  BY DEF Lifecycle!vars
<1> USE DEF redis, creation, cleanup
<1>handover. ASSUME NEW batch \in SUBSET Ids, \A id \in batch : Held(id),
                    offloads' = [id \in Ids |-> IF id \in batch THEN offloads[id] + 1
                                                ELSE offloads[id]],
                    UNCHANGED <<status, results>>
             PROVE  Lifecycle!Next \/ UNCHANGED <<status, results, offloads>>
  <2>1. \A id \in batch : status[id] = "finished" /\ offloads[id] = 0
    BY <1>handover DEF IInv, HoldingInv, DocumentInv
  <2>2. CASE batch = {}
    BY <1>handover, <2>2 DEF TypeOK
  <2>3. CASE batch # {}
    <3>1. offloads' = [id \in Ids |-> IF id \in batch THEN 1 ELSE offloads[id]]
      BY <1>handover, <2>1
    <3>2. Lifecycle!HandOver(batch)
      BY <1>handover, <2>1, <2>3, <3>1 DEF Lifecycle!HandOver
    <3>3. QED
      BY <3>2 DEF Lifecycle!Next
  <2>4. QED
    BY <2>2, <2>3
<1>timeout. ASSUME NEW id \in Ids, Unfinished(id), FinishByTimeout(id), UNCHANGED offloads
            PROVE  Lifecycle!Next
  <2>1. Lifecycle!TimeOut(id)
    BY <1>timeout DEF Unfinished, FinishByTimeout, Lifecycle!TimeOut, Open, Lifecycle!Open
  <2>2. QED
    BY <2>1 DEF Lifecycle!Next
<1>closed. ASSUME NEW id \in Ids, LeaveFinished(id), UNCHANGED offloads
           PROVE  UNCHANGED <<status, results, offloads>>
  BY <1>closed DEF LeaveFinished
<1>1. ASSUME NEW id \in Ids, Create(id)
      PROVE  Lifecycle!Next \/ UNCHANGED <<status, results, offloads>>
  BY <1>1 DEF Create
<1>2. ASSUME NEW id \in Ids, LandTimeouts(id)
      PROVE  Lifecycle!Next \/ UNCHANGED <<status, results, offloads>>
  BY <1>2 DEF LandTimeouts, Land
<1>3. ASSUME NEW id \in Ids, LandAwaiting(id)
      PROVE  Lifecycle!Next \/ UNCHANGED <<status, results, offloads>>
  BY <1>3 DEF LandAwaiting, Land
<1>4. ASSUME NEW id \in Ids, LandDoc(id)
      PROVE  Lifecycle!Next \/ UNCHANGED <<status, results, offloads>>
  <2>1. status[id] = "absent" /\ online[id] \in SUBSET Tests
    BY <1>4 DEF LandDoc, Land, IInv, CreationInv, TypeOK
  <2>2. /\ status' = [status EXCEPT ![id] =
                       IF online[id] = {} THEN "finished" ELSE "in-progress"]
        /\ results' = [results EXCEPT ![id] =
                        [t \in Tests |-> IF t \in online[id] THEN "in-progress" ELSE "offline"]]
        /\ UNCHANGED offloads
    BY <1>4 DEF LandDoc, Land
  <2>3. Lifecycle!Create(id)
    BY <2>1, <2>2 DEF Lifecycle!Create
  <2>4. QED
    BY <2>3 DEF Lifecycle!Next
<1>5. ASSUME NEW id \in Ids, LandOthers(id)
      PROVE  Lifecycle!Next \/ UNCHANGED <<status, results, offloads>>
  BY <1>5 DEF LandOthers, Land
<1>6. ASSUME NEW id \in Ids, SendToProbes(id)
      PROVE  Lifecycle!Next \/ UNCHANGED <<status, results, offloads>>
  BY <1>6 DEF SendToProbes
<1>7. ASSUME NEW id \in Ids, CompressFinished(id)
      PROVE  Lifecycle!Next \/ UNCHANGED <<status, results, offloads>>
  BY <1>7 DEF CompressFinished
<1>8. ASSUME NEW id \in Ids, EnqueueImmediate(id)
      PROVE  Lifecycle!Next \/ UNCHANGED <<status, results, offloads>>
  <2>1. Held(id)
    BY <1>8 DEF EnqueueImmediate, Held
  <2>2. offloads' = [i \in Ids |-> IF i \in {id} THEN offloads[i] + 1 ELSE offloads[i]]
    BY <1>8 DEF EnqueueImmediate, TypeOK
  <2>3. QED
    BY <1>8, <1>handover, <2>1, <2>2 DEF EnqueueImmediate
<1>9. ASSUME NEW id \in Ids, CrashCreator(id)
      PROVE  Lifecycle!Next \/ UNCHANGED <<status, results, offloads>>
  BY <1>9 DEF CrashCreator
<1>10. ASSUME NEW id \in Ids, NEW w \in Writes, WriteFails(id, w)
       PROVE  Lifecycle!Next \/ UNCHANGED <<status, results, offloads>>
  BY <1>10 DEF WriteFails
<1>11. ASSUME NEW id \in Ids, NEW t \in Tests, RecordProgress(id, t)
       PROVE  Lifecycle!Next \/ UNCHANGED <<status, results, offloads>>
  BY <1>11 DEF RecordProgress
<1>12. ASSUME NEW id \in Ids, NEW t \in Tests, RecordResult(id, t)
       PROVE  Lifecycle!Next \/ UNCHANGED <<status, results, offloads>>
  <2>1. Record(id, t)
    BY <1>12 DEF RecordResult
  <2>2. /\ status[id] = "in-progress" /\ results[id][t] \in Open
        /\ OpenTests(results'[id]) = OpenTests(results[id]) \ {t}
        /\ Cardinality(OpenTests(results'[id])) # 0
    BY <1>12, <2>1, ReportClosesOne DEF RecordResult
  <2>3. OpenTests(results[id]) \ {t} # {}
    BY <2>2, OpenTestsFinite, FS_EmptySet
  <2>4. \E u \in Tests \ {t} : results[id][u] \in Open
    BY <2>3 DEF OpenTests
  <2>5. \E outcome \in Reported : results' = [results EXCEPT ![id][t] = outcome]
    BY <2>1 DEF Record
  <2>6. status' = [status EXCEPT ![id] = "in-progress"] /\ UNCHANGED offloads
    BY <1>12, <2>2 DEF RecordResult, Record, TypeOK
  <2>7. Lifecycle!Report(id, t)
    BY <2>2, <2>4, <2>5, <2>6
    DEF Lifecycle!Report, Open, Reported, Lifecycle!Open, Lifecycle!Reported
  <2>8. QED
    BY <2>7 DEF Lifecycle!Next
<1>13. ASSUME NEW id \in Ids, NEW t \in Tests, RecordLastResult(id, t)
       PROVE  Lifecycle!Next \/ UNCHANGED <<status, results, offloads>>
  <2>1. Record(id, t)
    BY <1>13 DEF RecordLastResult
  <2>2. /\ status[id] = "in-progress" /\ results[id][t] \in Open
        /\ OpenTests(results'[id]) = OpenTests(results[id]) \ {t}
        /\ Cardinality(OpenTests(results'[id])) = 0
    BY <1>13, <2>1, ReportClosesOne DEF RecordLastResult
  <2>3. OpenTests(results[id]) \ {t} = {}
    BY <2>2, OpenTestsFinite, FS_EmptySet
  <2>4. ~\E u \in Tests \ {t} : results[id][u] \in Open
    BY <2>3 DEF OpenTests
  <2>5. \E outcome \in Reported : results' = [results EXCEPT ![id][t] = outcome]
    BY <2>1 DEF Record
  <2>6. status' = [status EXCEPT ![id] = "finished"] /\ UNCHANGED offloads
    BY <1>13, <2>2 DEF RecordLastResult, Record, TypeOK
  <2>7. Lifecycle!Report(id, t)
    BY <2>2, <2>4, <2>5, <2>6
    DEF Lifecycle!Report, Open, Reported, Lifecycle!Open, Lifecycle!Reported
  <2>8. QED
    BY <2>7 DEF Lifecycle!Next
<1>14. ASSUME NEW id \in Ids, NEW t \in Tests, DropResult(id, t)
       PROVE  Lifecycle!Next \/ UNCHANGED <<status, results, offloads>>
  BY <1>14 DEF DropResult
<1>15. ASSUME NEW id \in Ids, NEW t \in Tests, RemoveTimeout(id, t)
       PROVE  Lifecycle!Next \/ UNCHANGED <<status, results, offloads>>
  BY <1>15 DEF RemoveTimeout
<1>16. ASSUME NEW id \in Ids, NEW t \in Tests, EnqueueRecord(id, t)
       PROVE  Lifecycle!Next \/ UNCHANGED <<status, results, offloads>>
  <2>1. Held(id)
    BY <1>16 DEF EnqueueRecord, Held, HandlerHolds
  <2>2. offloads' = [i \in Ids |-> IF i \in {id} THEN offloads[i] + 1 ELSE offloads[i]]
    BY <1>16 DEF EnqueueRecord, TypeOK
  <2>3. QED
    BY <1>16, <1>handover, <2>1, <2>2 DEF EnqueueRecord
<1>17. ASSUME NEW id \in Ids, NEW t \in Tests, CrashHandler(id, t)
       PROVE  Lifecycle!Next \/ UNCHANGED <<status, results, offloads>>
  BY <1>17 DEF CrashHandler
<1>18. ASSUME NEW id \in Ids, NEW t \in Tests, ReportAgain(id, t)
       PROVE  Lifecycle!Next \/ UNCHANGED <<status, results, offloads>>
  BY <1>18 DEF ReportAgain
<1>19. ASSUME NEW c \in Cleaners, Claim(c)
       PROVE  Lifecycle!Next \/ UNCHANGED <<status, results, offloads>>
  BY <1>19 DEF Claim
<1>20. ASSUME NEW c \in Cleaners, MarkFails(c)
       PROVE  Lifecycle!Next \/ UNCHANGED <<status, results, offloads>>
  BY <1>20 DEF MarkFails
<1>21. ASSUME NEW c \in Cleaners, GiveUp(c)
       PROVE  Lifecycle!Next \/ UNCHANGED <<status, results, offloads>>
  BY <1>21 DEF GiveUp
<1>22. ASSUME NEW c \in Cleaners, RemoveTimeouts(c)
       PROVE  Lifecycle!Next \/ UNCHANGED <<status, results, offloads>>
  BY <1>22 DEF RemoveTimeouts
<1>23. ASSUME NEW c \in Cleaners, EnqueueRecords(c)
       PROVE  Lifecycle!Next \/ UNCHANGED <<status, results, offloads>>
  <2>1. records[c] \in SUBSET Ids /\ \A id \in records[c] : Held(id)
    BY DEF TypeOK, Held, CleanerHolds
  <2>2. QED
    BY <1>23, <1>handover, <2>1 DEF EnqueueRecords
<1>24. ASSUME NEW c \in Cleaners, CrashCleaner(c)
       PROVE  Lifecycle!Next \/ UNCHANGED <<status, results, offloads>>
  BY <1>24 DEF CrashCleaner
<1>25. ASSUME NEW c \in Cleaners, NEW id \in Ids, MarkUnfinished(c, id)
       PROVE  Lifecycle!Next \/ UNCHANGED <<status, results, offloads>>
  BY <1>25, <1>timeout DEF MarkUnfinished, Mark
<1>26. ASSUME NEW c \in Cleaners, NEW id \in Ids, MarkFinished(c, id)
       PROVE  Lifecycle!Next \/ UNCHANGED <<status, results, offloads>>
  BY <1>26, <1>closed DEF MarkFinished, Mark
<1>27. ASSUME NEW c \in Cleaners, NEW id \in Ids, DrainUnfinished(c, id)
       PROVE  Lifecycle!Next \/ UNCHANGED <<status, results, offloads>>
  BY <1>27, <1>timeout DEF DrainUnfinished, Drain
<1>28. ASSUME NEW c \in Cleaners, NEW id \in Ids, DrainFinished(c, id)
       PROVE  Lifecycle!Next \/ UNCHANGED <<status, results, offloads>>
  BY <1>28, <1>closed DEF DrainFinished, Drain
<1>29. ASSUME NEW id \in Ids, Deadline(id)
       PROVE  Lifecycle!Next \/ UNCHANGED <<status, results, offloads>>
  BY <1>29 DEF Deadline
<1>30. ASSUME NEW id \in Ids, AwaitingExpires(id)
       PROVE  Lifecycle!Next \/ UNCHANGED <<status, results, offloads>>
  BY <1>30 DEF AwaitingExpires
<1>31. CASE UNCHANGED vars
  BY <1>31 DEF vars
<1>32. QED
  BY <1>1, <1>2, <1>3, <1>4, <1>5, <1>6, <1>7, <1>8, <1>9, <1>10, <1>11, <1>12, <1>13,
     <1>14, <1>15, <1>16, <1>17, <1>18, <1>19, <1>20, <1>21, <1>22, <1>23, <1>24,
     <1>25, <1>26, <1>27, <1>28, <1>29, <1>30, <1>31
     DEF Next, CreatorStep, HandlerStep, CleanerStep, TimeStep

\* The store implements the lifecycle: what clients and the archive see of it is
\* a behaviour of MeasurementLifecycle, when no test reports twice.
THEOREM StoreImplementsLifecycle == ~DuplicateResults /\ Spec => ImplementsLifecycle
<1>1. Init => Lifecycle!Init
  BY DEF Init, Lifecycle!Init
<1>2. ASSUME ~DuplicateResults
      PROVE  TypeOK /\ IInv /\ CInv /\ [Next]_vars => [Lifecycle!Next]_(Lifecycle!vars)
  BY <1>2, LifecycleStep
<1>3. ASSUME ~DuplicateResults PROVE Spec => ImplementsLifecycle
  BY <1>1, <1>2, <1>3, TypeCorrect, InvariantCorrect, CounterCorrect, PTL
     DEF Spec, ImplementsLifecycle, Lifecycle!Spec
<1>4. QED
  BY <1>3

\* A document that has not been written has no results.
BlankInv == \A id \in Ids : status[id] = "absent" => \A t \in Tests : results[id][t] = "none"

\* Results appear only together with their document.
LEMMA BlankCorrect == Spec => []BlankInv
<1>1. Init => BlankInv
  BY DEF Init, BlankInv
<1>2. TypeOK /\ IInv /\ BlankInv /\ [Next]_vars => BlankInv'
  <2> SUFFICES ASSUME TypeOK, IInv, BlankInv, [Next]_vars, NEW j \in Ids, status'[j] = "absent",
                      NEW u \in Tests
               PROVE  results'[j][u] = "none"
    BY DEF BlankInv
  <2> USE DEF TypeOK, redis, BlankInv
  <2>1. ASSUME NEW id \in Ids, CreatorStep(id) \/ TimeStep(id)
        PROVE  results'[j][u] = "none"
    BY <2>1 DEF CreatorStep, TimeStep, Create, Land, LandTimeouts,
       LandAwaiting, LandDoc, LandOthers, SendToProbes, CompressFinished, EnqueueImmediate,
       CrashCreator, WriteFails, Deadline, AwaitingExpires
  <2>2. ASSUME NEW id \in Ids, NEW t \in Tests, HandlerStep(id, t)
        PROVE  results'[j][u] = "none"
    <3>1. handler[id][t] = "running" => status[id] # "absent"
      BY DEF IInv, CreationInv
    <3>2. CASE Record(id, t)
      <4>1. id # j
        BY <2>2, <3>1, <3>2 DEF HandlerStep, RecordProgress, Record, RecordResult,
           RecordLastResult, DropResult, RemoveTimeout, EnqueueRecord, CrashHandler, ReportAgain
      <4>2. results'[j] = results[j] /\ status'[j] = status[j]
        BY <2>2, <3>2, <4>1 DEF HandlerStep, RecordProgress, Record, RecordResult,
           RecordLastResult, DropResult, RemoveTimeout, EnqueueRecord, CrashHandler, ReportAgain
      <4>3. QED
        BY <4>2
    <3>3. CASE ~Record(id, t)
      BY <2>2, <3>3 DEF HandlerStep, RecordProgress, RecordResult,
         RecordLastResult, DropResult, RemoveTimeout, EnqueueRecord, CrashHandler, ReportAgain
    <3>4. QED
      BY <3>2, <3>3
  <2>3. ASSUME NEW c \in Cleaners, CleanerStep(c)
        PROVE  results'[j][u] = "none"
    BY <2>3 DEF CleanerStep, Claim, MarkFails, GiveUp, RemoveTimeouts,
       EnqueueRecords, CrashCleaner, MarkUnfinished, MarkFinished, DrainUnfinished,
       DrainFinished, Mark, Drain, FinishByTimeout, LeaveFinished
  <2>4. CASE UNCHANGED vars
    BY <2>4 DEF vars
  <2>5. QED
    BY <2>1, <2>2, <2>3, <2>4 DEF Next
<1>3. QED
  BY <1>1, <1>2, TypeCorrect, InvariantCorrect, PTL DEF Spec

\* When no test reports twice, the status that a probe has reported for a test is final:
\* neither the timeout of the measurement nor another cleanup changes it.
THEOREM ReportsAlwaysKept == ~DuplicateResults /\ Spec => ReportsAreKept
<1>1. ~DuplicateResults /\ TypeOK /\ IInv /\ CInv /\ BlankInv /\ [Next]_vars =>
        [\A id \in Ids, t \in Tests :
           results[id][t] \in Reported => results'[id][t] = results[id][t]]_vars
  <2> SUFFICES ASSUME ~DuplicateResults, TypeOK, IInv, CInv, BlankInv, [Next]_vars,
                      NEW i \in Ids, NEW u \in Tests, results[i][u] \in Reported
               PROVE  results'[i][u] = results[i][u]
    OBVIOUS
  <2>1. status[i] # "absent" /\ results[i][u] \notin Open
    BY DEF BlankInv, Reported, Open
  <2>2. Lifecycle!Next \/ UNCHANGED <<status, results, offloads>>
    BY LifecycleStep DEF Lifecycle!vars
  <2>3. ASSUME NEW id \in Ids, Lifecycle!Create(id) \/ Lifecycle!TimeOut(id)
        PROVE  results'[i][u] = results[i][u]
    <3>1. CASE Lifecycle!Create(id)
      <4>1. id # i
        BY <2>1, <3>1 DEF Lifecycle!Create
      <4>2. PICK rs : results' = [results EXCEPT ![id] = rs]
        BY <3>1 DEF Lifecycle!Create
      <4>3. QED
        BY <4>1, <4>2 DEF TypeOK
    <3>2. CASE Lifecycle!TimeOut(id)
      BY <2>1, <3>2 DEF Lifecycle!TimeOut, Lifecycle!Open, Open, TypeOK
    <3>3. QED
      BY <2>3, <3>1, <3>2
  <2>4. ASSUME NEW id \in Ids, NEW t \in Tests, Lifecycle!Report(id, t)
        PROVE  results'[i][u] = results[i][u]
    <3>1. id # i \/ t # u
      BY <2>1, <2>4 DEF Lifecycle!Report, Lifecycle!Open, Open
    <3>2. PICK v : results' = [results EXCEPT ![id][t] = v]
      BY <2>4 DEF Lifecycle!Report
    <3>3. QED
      BY <3>1, <3>2 DEF TypeOK
  <2>5. QED
    BY <2>2, <2>3, <2>4 DEF Lifecycle!Next, Lifecycle!HandOver
<1>2. ASSUME ~DuplicateResults PROVE Spec => ReportsAreKept
  BY <1>1, <1>2, TypeCorrect, InvariantCorrect, CounterCorrect,
     BlankCorrect, PTL DEF Spec, ReportsAreKept
<1>3. QED
  BY <1>2

===============================================================================
