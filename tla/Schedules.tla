------------------------------- MODULE Schedules -------------------------------
(***************************************************************************)
(* The schedules of a process: a loader that reads them from the dashboard *)
(* database once a minute, and an executor with a timer for each of them.  *)
(*   src/src/schedule/loader.ts                                            *)
(*   src/src/schedule/executor.ts                                          *)
(*                                                                         *)
(* Rows that are disabled, or of mode "batch", are not in the tables.  The *)
(* timestamps of rows are seconds.  A Node timer is a record with a number *)
(* of its own; it fires at any time.  The probes a schedule selects are    *)
(* the number of chunks they make up.                                      *)
(***************************************************************************)
EXTENDS Naturals, FiniteSets

CONSTANTS Schedules,
          Intervals,
          Configurations,
          MaxChunks,     \* chunks of local probes
          MaxChanges,    \* bound on the changes of the tables
          MaxSeconds,    \* bound on the clock
          MaxRunning,    \* bound on the executions that overlap
          MaxFailures,   \* bound on queries and creations that fail
          NoSchedule     \* no row, no timer, no execution

ASSUME SchedulesAssumption ==
  /\ IsFiniteSet(Schedules)
  /\ MaxChunks \in Nat \ {0} /\ MaxRunning \in Nat \ {0}
  /\ MaxChanges \in Nat /\ MaxSeconds \in Nat /\ MaxFailures \in Nat

VARIABLES
  table,     \* gp_schedule: interval and timestamp of each row
  configs,   \* gp_schedule_configuration: the configurations of each schedule
  second,    \* the clock of the database
  changes,   \* changes of the tables so far
  blurred,   \* schedules changed twice within a second
  fetched,   \* the rows a sync has read while it awaits the configurations
  loaded,    \* ScheduleLoader.schedules and scheduleUpdatedAt
  live,      \* the timers that run
  timers,    \* StreamScheduleExecutor.timers
  running,   \* executions of fireSchedule
  failures   \* failures so far

tables == <<table, configs, second, changes, blurred>>
schedulesVars == <<tables, fetched, loaded, live, timers, running, failures>>

\* With twice as many numbers as there are timers, those that are replaced together with those
\* that replace them have numbers of their own.
TimerNumbers == 1..(2 * Cardinality(Schedules))

ScheduleRow == [interval : Intervals, updated : 0..MaxSeconds]
LoadedRow == [interval : Intervals, updated : 0..MaxSeconds, configs : SUBSET Configurations]
Timer == [schedule : Schedules, interval : Intervals, repeats : BOOLEAN, number : TimerNumbers]
Execution == [schedule : Schedules, left : SUBSET Configurations,
              chunks : 1..MaxChunks, chunk : 1..MaxChunks]

ASSUME NoScheduleAssumption == NoSchedule \notin Timer

SchedulesTypeOK ==
  /\ table \in [Schedules -> ScheduleRow \cup {NoSchedule}]
  /\ configs \in [Schedules -> SUBSET Configurations]
  /\ second \in 0..MaxSeconds /\ changes \in 0..MaxChanges /\ blurred \subseteq Schedules
  /\ fetched \in [Schedules -> ScheduleRow \cup {NoSchedule}] \cup {NoSchedule}
  /\ loaded \in [Schedules -> LoadedRow \cup {NoSchedule}]
  /\ live \subseteq Timer
  /\ timers \in [Schedules -> Timer \cup {NoSchedule}]
  /\ running \in [1..MaxRunning -> Execution \cup {NoSchedule}]
  /\ failures \in 0..MaxFailures

SchedulesInit ==
  /\ table = [s \in Schedules |-> NoSchedule]
  /\ configs = [s \in Schedules |-> Configurations]
  /\ second = 0 /\ changes = 0 /\ blurred = {}
  /\ fetched = NoSchedule
  /\ loaded = table
  /\ live = {} /\ timers = table
  /\ running = [r \in 1..MaxRunning |-> NoSchedule]
  /\ failures = 0

Fail == failures < MaxFailures /\ failures' = failures + 1

-------------------------------------------------------------------------------
(* The dashboard *)

Change == changes < MaxChanges /\ changes' = changes + 1

\* A row is inserted or enabled, or its interval is changed.
SetSchedule(s, n) ==
  /\ Change
  /\ table' = [table EXCEPT ![s] = [interval |-> n, updated |-> second]]
  /\ blurred' = IF table[s] # NoSchedule /\ table[s].updated = second THEN blurred \cup {s} ELSE blurred
  /\ UNCHANGED <<configs, second, fetched, loaded, live, timers, running, failures>>

\* Enabling a row again gives it a new timestamp; that it has been away counts as a change.
RemoveSchedule(s) ==
  /\ Change /\ table[s] # NoSchedule
  /\ table' = [table EXCEPT ![s] = NoSchedule]
  /\ blurred' = IF table[s].updated = second THEN blurred \cup {s} ELSE blurred
  /\ UNCHANGED <<configs, second, fetched, loaded, live, timers, running, failures>>

\* The timestamp of the schedule does not tell of its configurations.
SetConfigurations(s, cs) ==
  /\ Change /\ configs[s] # cs
  /\ configs' = [configs EXCEPT ![s] = cs]
  /\ UNCHANGED <<table, second, blurred, fetched, loaded, live, timers, running, failures>>

NextSecond ==
  /\ second < MaxSeconds /\ second' = second + 1
  /\ UNCHANGED <<table, configs, changes, blurred, fetched, loaded, live, timers, running, failures>>

-------------------------------------------------------------------------------
(* syncTimers *)

Known(rows) == {s \in Schedules : rows[s] # NoSchedule}

\* Timers of other schedules, or with another interval, are cleared.
Kept(rows) == {s \in Known(timers) \cap Known(rows) : timers[s].interval = rows[s].interval}

FirstOf(s, n, taken) ==
  [schedule |-> s, interval |-> n, repeats |-> FALSE,
   number |-> CHOOSE k \in TimerNumbers : k \notin taken]

Numbers == {t.number : t \in live}

\* Timers that run but are in no entry of the map are not cleared.
SyncTimers(rows) ==
  LET kept == Kept(rows)
      others == Known(timers) \ kept
      new == CHOOSE f \in [Known(rows) \ kept -> TimerNumbers \ Numbers] :
               \A s, t \in DOMAIN f : f[s] = f[t] => s = t
  IN /\ timers' = [s \in Schedules |->
           IF s \in kept THEN timers[s]
           ELSE IF s \in Known(rows)
             THEN [schedule |-> s, interval |-> rows[s].interval, repeats |-> FALSE, number |-> new[s]]
             ELSE NoSchedule]
     /\ live' = (live \ {timers[s] : s \in others}) \cup {timers'[s] : s \in Known(rows) \ kept}

-------------------------------------------------------------------------------
(* ScheduleLoader.sync *)

ReadSchedules ==
  /\ fetched = NoSchedule
  /\ fetched' = table
  /\ UNCHANGED <<tables, loaded, live, timers, running, failures>>

\* mutant: counts the schedules both ways but looks at no timestamp
CountChanged(rows) == Cardinality(Known(rows)) # Cardinality(Known(loaded))

\* A schedule is new, was touched, or there are fewer of them.
Changed(rows) ==
  \/ Cardinality(Known(rows)) < Cardinality(Known(loaded))
  \/ \E s \in Known(rows) : IF loaded[s] = NoSchedule THEN TRUE ELSE loaded[s].updated # rows[s].updated

ReadConfigurations ==
  /\ fetched # NoSchedule
  /\ fetched' = NoSchedule
  /\ loaded' = [s \in Schedules |->
       IF fetched[s] = NoSchedule THEN NoSchedule
       ELSE [interval |-> fetched[s].interval, updated |-> fetched[s].updated, configs |-> configs[s]]]
  /\ IF Changed(fetched) THEN SyncTimers(fetched) ELSE UNCHANGED <<live, timers>>
  /\ UNCHANGED <<tables, running, failures>>

\* Either query fails: what was loaded stays, and the next sync starts over.
SyncFails ==
  /\ Fail
  /\ fetched' = NoSchedule
  /\ UNCHANGED <<tables, loaded, live, timers, running>>

-------------------------------------------------------------------------------
(* createTimer and fireSchedule *)

Free == {r \in DOMAIN running : running[r] = NoSchedule}

\* An execution begins, unless there is nothing to do.
Execute(s, chunks) ==
  IF loaded[s] = NoSchedule \/ chunks = 0 THEN UNCHANGED running
  ELSE \E r \in Free :
         running' = [running EXCEPT ![r] =
           IF loaded[s].configs = {} THEN NoSchedule
           ELSE [schedule |-> s, left |-> loaded[s].configs, chunks |-> chunks, chunk |-> 1]]

\* mutant: the interval is not remembered
FireForgotten(t, chunks) ==
  /\ t \in live /\ ~t.repeats
  /\ live' = (live \ {t}) \cup {[FirstOf(t.schedule, t.interval, Numbers) EXCEPT !.repeats = TRUE]}
  /\ Execute(t.schedule, chunks)
  /\ UNCHANGED <<tables, fetched, loaded, timers, failures>>

\* The first timeout is replaced by an interval.
FireFirst(t, chunks) ==
  /\ t \in live /\ ~t.repeats
  /\ LET interval == [FirstOf(t.schedule, t.interval, Numbers) EXCEPT !.repeats = TRUE]
     IN /\ live' = (live \ {t}) \cup {interval}
        /\ timers' = [timers EXCEPT ![t.schedule] = interval]
  /\ Execute(t.schedule, chunks)
  /\ UNCHANGED <<tables, fetched, loaded, failures>>

FireAgain(t, chunks) ==
  /\ t \in live /\ t.repeats
  /\ Execute(t.schedule, chunks)
  /\ UNCHANGED <<tables, fetched, loaded, live, timers, failures>>

\* The next chunk of the same configuration, or the first one of the next.
NextChunk(f, c) ==
  IF f.chunk < f.chunks THEN [f EXCEPT !.chunk = @ + 1]
  ELSE IF f.left = {c} THEN NoSchedule
  ELSE [f EXCEPT !.chunk = 1, !.left = @ \ {c}]

\* createMeasurement, and the requests to the probes of the chunk.  The configurations are
\* those of the beginning, whatever has been loaded since.
SendChunk(r) ==
  /\ running[r] # NoSchedule
  /\ running' = [running EXCEPT ![r] = NextChunk(@, CHOOSE c \in @.left : TRUE)]
  /\ UNCHANGED <<tables, fetched, loaded, live, timers, failures>>

\* The creation is rejected: the rest of the execution is dropped.
CreationFails(r) ==
  /\ running[r] # NoSchedule /\ Fail
  /\ running' = [running EXCEPT ![r] = NoSchedule]
  /\ UNCHANGED <<tables, fetched, loaded, live, timers>>

-------------------------------------------------------------------------------

Sync == ReadSchedules \/ ReadConfigurations
Fire(s, chunks) == \E t \in live : t.schedule = s /\ (FireFirst(t, chunks) \/ FireAgain(t, chunks))

SchedulesNext ==
  \/ \E s \in Schedules, n \in Intervals : SetSchedule(s, n)
  \/ \E s \in Schedules : RemoveSchedule(s)
  \/ \E s \in Schedules, cs \in SUBSET Configurations : SetConfigurations(s, cs)
  \/ NextSecond
  \/ Sync \/ SyncFails
  \/ \E s \in Schedules, n \in 0..MaxChunks : Fire(s, n)
  \/ \E r \in DOMAIN running : SendChunk(r) \/ CreationFails(r)

SchedulesSpec == SchedulesInit /\ [][SchedulesNext]_schedulesVars

\* Syncs are scheduled again whatever happens, creations end, timers fire, and now and then
\* a schedule finds probes.
SchedulesFairSpec ==
  /\ SchedulesSpec
  /\ WF_schedulesVars(Sync)
  /\ \A r \in 1..MaxRunning : WF_schedulesVars(SendChunk(r))
  /\ \A s \in Schedules : SF_schedulesVars(\E n \in 1..MaxChunks : Fire(s, n))

-------------------------------------------------------------------------------
(* Properties *)

\* A timer that runs can still be cleared: it is the one the map has for its schedule.
\* (syncTimers against createTimer, which puts two timers into the entry one after the other.)
NoTimerIsLost == SchedulesTypeOK /\ live = {timers[s] : s \in Known(timers)}

\* In the end the timers are those of the table, and a schedule that is gone does nothing any
\* more, except where two changes within one second look like one.
TimersFollowTheTable ==
  <>[](\A s \in Schedules \ blurred :
         IF table[s] = NoSchedule
         THEN timers[s] = NoSchedule /\ \A r \in DOMAIN running : running[r] # NoSchedule => running[r].schedule # s
         ELSE timers[s] # NoSchedule /\ timers[s].interval = table[s].interval)

===============================================================================
