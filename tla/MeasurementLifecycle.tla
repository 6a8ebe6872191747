------------------------- MODULE MeasurementLifecycle -------------------------
(***************************************************************************)
(* What the measurement store promises to the clients of                   *)
(* GET /v1/measurements/:id and to the long-term archive, without Redis    *)
(* keys, counters, timeouts, leases or processes:                          *)
(*   - a measurement appears once, with the results of its offline probes  *)
(*     already filled in;                                                  *)
(*   - every probe reports at most once while the record is in progress;   *)
(*   - the record finishes exactly when its last open result is reported,  *)
(*     or because time ran out, which fails all the results still open;    *)
(*   - a finished record never changes, and is handed to the archive at    *)
(*     most once.                                                          *)
(* MeasurementStore is shown to implement this module.                     *)
(***************************************************************************)
EXTENDS Naturals

CONSTANTS Ids,    \* measurement ids
          Tests   \* indexes of a measurement's results

VARIABLES status,   \* [Ids -> {"absent", "in-progress", "finished"}]
          results,  \* [Ids -> [Tests -> status of the result]]
          offloads  \* [Ids -> number of times the record was archived]

vars == <<status, results, offloads>>

\* A result nobody has reported yet.
Open == {"in-progress"}

\* What a probe can report.
Reported == {"finished", "failed"}

Init == /\ status = [id \in Ids |-> "absent"]
        /\ results = [id \in Ids |-> [t \in Tests |-> "none"]]
        /\ offloads = [id \in Ids |-> 0]

\* The record appears; it is born finished when all its probes are offline.
Create(id) ==
  /\ status[id] = "absent"
  /\ \E online \in SUBSET Tests :
       /\ status' = [status EXCEPT ![id] = IF online = {} THEN "finished" ELSE "in-progress"]
       /\ results' = [results EXCEPT ![id] =
                        [t \in Tests |-> IF t \in online THEN "in-progress" ELSE "offline"]]
  /\ UNCHANGED offloads

Report(id, t) ==
  /\ status[id] = "in-progress"
  /\ results[id][t] \in Open
  /\ \E outcome \in Reported : results' = [results EXCEPT ![id][t] = outcome]
  /\ status' = [status EXCEPT ![id] =
                  IF \E u \in Tests \ {t} : results[id][u] \in Open
                  THEN "in-progress" ELSE "finished"]
  /\ UNCHANGED offloads

TimeOut(id) ==
  /\ status[id] = "in-progress"
  /\ status' = [status EXCEPT ![id] = "finished"]
  /\ results' = [results EXCEPT ![id] =
                   [t \in Tests |-> IF @[t] \in Open THEN "timedout" ELSE @[t]]]
  /\ UNCHANGED offloads

\* A batch of finished records goes to the archive.
HandOver(batch) ==
  /\ batch # {}
  /\ \A id \in batch : status[id] = "finished" /\ offloads[id] = 0
  /\ offloads' = [id \in Ids |-> IF id \in batch THEN 1 ELSE offloads[id]]
  /\ UNCHANGED <<status, results>>

Next == \/ \E id \in Ids : Create(id) \/ TimeOut(id)
        \/ \E id \in Ids, t \in Tests : Report(id, t)
        \/ \E batch \in SUBSET Ids : HandOver(batch)

Spec == Init /\ [][Next]_vars
===============================================================================
