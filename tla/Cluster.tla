-------------------------------- MODULE Cluster --------------------------------
(***************************************************************************)
(* The processes of a host: a primary that forks the workers again when    *)
(* they die, one of them with the task to synchronise adoptions, and that  *)
(* gives all of them some time when it is told to terminate.               *)
(*   src/src/index.ts                                                      *)
(*   src/src/lib/term-listener.ts                                          *)
(*   src/src/lib/server.ts, src/src/lib/ws/gateway.ts                      *)
(*   src/src/lib/ws/middleware, src/src/lib/ws/helper/reconnect-probes.ts  *)
(*                                                                         *)
(* A tick is five seconds, the time a worker that failed to start lingers. *)
(* Worker processes are numbered as they are forked.  The probes reconnect *)
(* to any worker of the host; those that reach another host are away.      *)
(***************************************************************************)
EXTENDS Naturals, FiniteSets

CONSTANTS WorkerCount,
          MaxForks,     \* bound on the workers forked
          ClusterProbes,
          SigtermDelay, \* sigtermDelay, in ticks
          DrainLead,    \* the ten seconds before, in ticks
          MaxHandshake, \* bound on the time a connection takes, in ticks
          MaxBefore,    \* bound on the ticks before the signal
          NoTime        \* no signal, no timer, no connection

ASSUME ClusterAssumption ==
  /\ WorkerCount \in Nat \ {0} /\ MaxForks \in Nat /\ WorkerCount <= MaxForks
  /\ SigtermDelay \in Nat /\ DrainLead \in Nat \ {0} /\ DrainLead <= SigtermDelay
  /\ MaxHandshake \in Nat /\ NoTime \notin Nat

VARIABLES
  primary,   \* "running" or "exited"
  forks,     \* workers forked so far
  worker,    \* "booting", "serving", "failed", "dead", and "none" before the fork
  syncing,   \* the workers forked with SHOULD_SYNC_ADOPTIONS
  syncPid,   \* syncAdoptionsPid
  unhandled, \* workers whose exit event the primary has not handled
  signal,    \* ticks since the signal
  drain,     \* ticks until each worker that was told disconnects the probes
  fetch,     \* fetchSockets of the drain of each worker: "none" before, "running", "failed", "over"
  told,      \* the workers that know the server is terminating
  probe,     \* of each probe: its worker, its progress, and how long its handshake takes or took
  before     \* ticks before the signal so far

clusterVars == <<primary, forks, worker, syncing, syncPid, unhandled, signal, drain, fetch, told, probe, before>>

Pids == 1..MaxForks
Alive == {w \in Pids : worker[w] \in {"booting", "serving", "failed"}}
Serving == {w \in Pids : worker[w] = "serving"}
Away == [at |-> 0, step |-> "away", age |-> 0]

ClusterTypeOK ==
  /\ primary \in {"running", "exited"} /\ forks \in 0..MaxForks
  /\ worker \in [Pids -> {"none", "booting", "serving", "failed", "dead"}]
  /\ syncing \subseteq Pids /\ syncPid \in Pids /\ unhandled \subseteq Pids /\ told \subseteq Pids
  /\ signal \in 0..SigtermDelay \cup {NoTime}
  /\ drain \in [Pids -> 0..SigtermDelay \cup {NoTime}]
  /\ fetch \in [Pids -> {"none", "running", "failed", "over"}]
  /\ probe \in [ClusterProbes -> [at : 0..MaxForks, step : {"away", "checking", "connected"},
                                  age : 0..MaxHandshake]]

\* The first worker gets the task.
ClusterInit ==
  /\ primary = "running" /\ forks = WorkerCount
  /\ worker = [w \in Pids |-> IF w <= WorkerCount THEN "booting" ELSE "none"]
  /\ syncing = {1} /\ syncPid = 1
  /\ unhandled = {}
  /\ signal = NoTime /\ told = {}
  /\ drain = [w \in Pids |-> NoTime] /\ fetch = [w \in Pids |-> "none"]
  /\ probe = [p \in ClusterProbes |-> Away]
  /\ before = 0

-------------------------------------------------------------------------------
(* createServer, and the death of workers *)

\* Only when all is initialised the server listens.
Listen(w) ==
  /\ worker[w] = "booting"
  /\ worker' = [worker EXCEPT ![w] = "serving"]
  /\ UNCHANGED <<primary, forks, syncing, syncPid, unhandled, signal, drain, fetch, told, probe, before>>

\* (Workers die as long as they can be replaced.)
Replaceable == forks + Cardinality(unhandled \cup {w \in Pids : worker[w] = "failed"}) < MaxForks

BootFails(w) ==
  /\ worker[w] = "booting" /\ Replaceable
  /\ worker' = [worker EXCEPT ![w] = "failed"]
  /\ UNCHANGED <<primary, forks, syncing, syncPid, unhandled, signal, drain, fetch, told, probe, before>>

\* Its probes lose their connections, or their handshakes, and its timers are gone.
Dies(w) ==
  /\ worker' = [worker EXCEPT ![w] = "dead"]
  /\ unhandled' = unhandled \cup {w}
  /\ drain' = [drain EXCEPT ![w] = NoTime]
  /\ probe' = [p \in ClusterProbes |-> IF probe[p].at = w THEN Away ELSE probe[p]]
  /\ UNCHANGED <<primary, forks, syncing, syncPid, signal, fetch, told, before>>

Crash(w) == worker[w] \in {"booting", "serving"} /\ Replaceable /\ Dies(w)

\* A worker that failed to start exits after a tick.
ExitAfterFailure(w) == worker[w] = "failed" /\ Dies(w)

\* mutant: the task is inherited only from the first worker
ForkSyncerOnce(w) == w = 1

ForkSyncer(w) == w = syncPid

\* cluster.on('exit'): the successor inherits the task.
HandleExit(w) ==
  /\ w \in unhandled /\ primary = "running"
  /\ unhandled' = unhandled \ {w}
  /\ forks' = forks + 1
  /\ worker' = [worker EXCEPT ![forks + 1] = "booting"]
  /\ IF ForkSyncer(w)
       THEN syncing' = syncing \cup {forks + 1} /\ syncPid' = forks + 1
       ELSE UNCHANGED <<syncing, syncPid>>
  /\ UNCHANGED <<primary, signal, drain, fetch, told, probe, before>>

-------------------------------------------------------------------------------
(* MasterTermListener and WorkerTermListener *)

\* The signal counts once.
Terminate ==
  /\ signal = NoTime /\ primary = "running"
  /\ signal' = 0
  /\ UNCHANGED <<primary, forks, worker, syncing, syncPid, unhandled, drain, fetch, told, probe, before>>

\* Workers that are forked later are not told.  One that is still starting refuses probes too; that
\* it may have the listener by then, and disconnects the probes of all as the others do, is left out.
Hear(w) ==
  /\ signal = 0 /\ w \in Alive \ told
  /\ told' = told \cup {w}
  /\ drain' = [drain EXCEPT ![w] = IF worker[w] = "serving" THEN SigtermDelay - DrainLead ELSE NoTime]
  /\ UNCHANGED <<primary, forks, worker, syncing, syncPid, unhandled, signal, fetch, probe, before>>

\* Everything ends: the workers lose the channel to the primary.
Exit ==
  /\ signal = SigtermDelay /\ primary = "running"
  /\ primary' = "exited"
  /\ worker' = [w \in Pids |-> IF w <= forks THEN "dead" ELSE "none"]
  /\ unhandled' = {} /\ drain' = [w \in Pids |-> NoTime]
  /\ probe' = [p \in ClusterProbes |-> Away]
  /\ UNCHANGED <<forks, syncing, syncPid, signal, fetch, told, before>>

-------------------------------------------------------------------------------
(* The probes *)

\* mutant: a server that terminates still takes probes
WelcomingAlways(w) == TRUE

Welcoming(w) == w \notin told

\* The middlewares: health, then probeMetadata, which takes the time of the slowest lookup of the
\* probe's place with its retries, and of a fetch of the probes.
Knock(p, w) ==
  /\ probe[p] = Away /\ worker[w] = "serving" /\ Welcoming(w)
  /\ probe' = [probe EXCEPT ![p] = [at |-> w, step |-> "checking", age |-> 0]]
  /\ UNCHANGED <<primary, forks, worker, syncing, syncPid, unhandled, signal, drain, fetch, told, before>>

Connect(p) ==
  /\ probe[p].step = "checking"
  /\ probe' = [probe EXCEPT ![p].step = "connected"]
  /\ UNCHANGED <<primary, forks, worker, syncing, syncPid, unhandled, signal, drain, fetch, told, before>>

\* The probe is refused, leaves, or is told to reconnect soon after some worker has started
\* (reconnectProbes).
Disconnect(p) ==
  /\ probe[p] # Away
  /\ probe' = [probe EXCEPT ![p] = Away]
  /\ UNCHANGED <<primary, forks, worker, syncing, syncPid, unhandled, signal, drain, fetch, told, before>>

\* disconnectProbes: the timer fires, and asks all workers of all hosts for their sockets.
StartDrain(w) ==
  /\ drain[w] = 0
  /\ drain' = [drain EXCEPT ![w] = NoTime]
  /\ fetch' = [fetch EXCEPT ![w] = "running"]
  /\ UNCHANGED <<primary, forks, worker, syncing, syncPid, unhandled, signal, told, probe, before>>

\* Probes that connect after their worker has answered are not among the sockets (here: after
\* the sockets are disconnected).
DisconnectProbes(w) ==
  /\ fetch[w] = "running" /\ worker[w] = "serving"
  /\ fetch' = [fetch EXCEPT ![w] = "over"]
  /\ probe' = [p \in ClusterProbes |-> IF probe[p].step = "connected" THEN Away ELSE probe[p]]
  /\ UNCHANGED <<primary, forks, worker, syncing, syncPid, unhandled, signal, drain, told, before>>

\* Nobody handles the rejection: the worker may die of it too (Crash).
DisconnectingFails(w) ==
  /\ fetch[w] = "running" /\ worker[w] = "serving"
  /\ fetch' = [fetch EXCEPT ![w] = "failed"]
  /\ UNCHANGED <<primary, forks, worker, syncing, syncPid, unhandled, signal, drain, told, probe, before>>

\* Timers are on time, and messages arrive within a tick.
ClusterTick ==
  /\ primary = "running"
  /\ IF signal = NoTime
       THEN before < MaxBefore /\ before' = before + 1 /\ UNCHANGED signal
       ELSE signal < SigtermDelay /\ signal' = signal + 1 /\ UNCHANGED before
  /\ signal = 0 => Alive \subseteq told
  /\ \A w \in Pids : drain[w] # 0 /\ worker[w] # "failed"
  /\ \A p \in ClusterProbes : probe[p].step = "checking" => probe[p].age < MaxHandshake
  /\ drain' = [w \in Pids |-> IF drain[w] = NoTime THEN NoTime ELSE drain[w] - 1]
  /\ probe' = [p \in ClusterProbes |->
                 IF probe[p].step = "checking" THEN [probe[p] EXCEPT !.age = @ + 1] ELSE probe[p]]
  /\ UNCHANGED <<primary, forks, worker, syncing, syncPid, unhandled, fetch, told>>

-------------------------------------------------------------------------------

ClusterNext ==
  \/ \E w \in Pids :
       \/ Listen(w) \/ BootFails(w) \/ Crash(w) \/ ExitAfterFailure(w) \/ HandleExit(w)
       \/ Hear(w) \/ StartDrain(w) \/ DisconnectProbes(w) \/ DisconnectingFails(w)
       \/ \E p \in ClusterProbes : Knock(p, w)
  \/ \E p \in ClusterProbes : Connect(p) \/ Disconnect(p)
  \/ Terminate \/ Exit \/ ClusterTick

ClusterSpec == ClusterInit /\ [][ClusterNext]_clusterVars

-------------------------------------------------------------------------------
(* Properties *)

\* While the primary runs one worker has the task to synchronise adoptions, or none because the
\* exit of the last one has not been handled; never two.
OneWorkerSyncs ==
  ClusterTypeOK /\ (primary = "running" => syncPid \in Alive \cup unhandled /\ syncing \cap Alive \subseteq {syncPid})

\* When the host exits, a probe is cut off whose worker knew that it would only if its handshake,
\* begun before the worker knew, lasted longer than the worker waited before it disconnected the
\* probes, or if its worker has asked for the sockets and no worker has had an answer, whichever
\* workers die meanwhile.
ProbesLeaveInTime ==
  [][primary' # primary =>
       \A p \in ClusterProbes : probe[p].step = "connected" /\ probe[p].at \in told =>
         \/ probe[p].age >= SigtermDelay - DrainLead
         \/ fetch[probe[p].at] # "none" /\ \A w \in Pids : fetch[w] # "over"]_clusterVars
===============================================================================
