---------------------------- MODULE SyncedProbeList ----------------------------
(***************************************************************************)
(* How every API node learns which probes are connected to the others:     *)
(* src/src/lib/ws/synced-probe-list.ts.                                    *)
(*                                                                         *)
(* Each node keeps a document with its probes in Redis and announces what  *)
(* has changed on a stream all nodes read: nothing (a keep-alive), a diff, *)
(* or "reload".  The stream keeps its last StreamLength events.  syncPush  *)
(* and syncPull of a node run concurrently, and await between their Redis  *)
(* commands.                                                               *)
(*                                                                         *)
(* A probe is one socket: it connects to one node, once.  Its data is a    *)
(* version; the load statistics, which travel in the events themselves,    *)
(* are left out.  Entries of a node that has been silent for syncTimeout   *)
(* expire in the TTL caches of the others.  Timestamps are compared in two *)
(* ways only, and kept only as far as that: changeTimestamp for equality,  *)
(* revalidateTimestamp with the start of a fetchProbes call.  The clocks   *)
(* of the nodes agree.                                                     *)
(***************************************************************************)
EXTENDS Naturals, Sequences, FiniteSets, FiniteSetsExt

CONSTANTS Nodes,
          Hosts,         \* the nodes probes connect to, whose syncPush is considered
          Readers,       \* the nodes whose syncPull is considered
          Probes,        \* sockets
          MaxVersion,    \* bound on the versions of a probe's data
          StreamLength,  \* events the stream keeps (MAXLEN ~ 100)
          MaxPatch,      \* a larger diff is fetched as a whole (5)
          MaxFaults,     \* bound on the faults of a behaviour
          Evictions,     \* may Redis lose a node's document?
          LostEvents,    \* may a push fail after its document is written?
          Nothing        \* a key or a cache entry that does not exist

Versions == 0..MaxVersion  \* 0 where the probe is not connected
Gone == MaxVersion + 1     \* the stage of a probe that has disconnected

ProbesById == [Probes -> Versions]
Entry == [probes : ProbesById, fresh : BOOLEAN]
Document == [probes : ProbesById, fresh : BOOLEAN, stamp : 0..2]
Event == [node : Nodes, fresh : BOOLEAN, reload : BOOLEAN,
          remove : SUBSET Probes, update : SUBSET Probes]

ASSUME NothingAssumption ==
  Nothing \notin Entry \cup Document \cup Nat \cup [Probes -> 0..Gone]
ASSUME NodesAssumption == Hosts \subseteq Nodes /\ Readers \subseteq Nodes
ASSUME BoundsAssumption ==
  /\ MaxVersion \in Nat \ {0} /\ StreamLength \in Nat \ {0}
  /\ MaxPatch \in Nat /\ MaxFaults \in Nat
  /\ Evictions \in BOOLEAN /\ LostEvents \in BOOLEAN

VARIABLES
  stage,     \* 0, then the versions of the probe's data, then Gone
  home,      \* the node the probe is (or was) connected to
  view,      \* view[n][m]: what n's nodeData has for m, or Nothing
  stamp,     \* changeTimestamp of view[n][n]
  document,  \* gp:spl:probes:{n}, or Nothing
  stream,    \* gp:spl:events
  cursor,    \* index in stream of lastReadEventId; 0 when it has been trimmed
  push,      \* control state and local variables of syncPush
  pull,      \* control state and local variables of syncPull
  asked,     \* stages when fetchProbes was called, or Nothing before
  faults,    \* faults so far
  lost       \* bookkeeping: was a document or an event lost, and unnoticed?

env == <<stage, home, asked>>
caches == <<view, stamp>>
vars == <<env, caches, document, stream, cursor, push, pull, faults, lost>>

IdlePush == [state |-> "idle"]
IdlePull == [state |-> "idle"]
Task == [node : Nodes, whole : BOOLEAN, base : ProbesById, update : SUBSET Probes,
         fresh : BOOLEAN]
Writing == [state : {"writing", "refreshing"}, data : Document, event : Event]
Publishing == [state : {"publishing"}, event : Event]
Settling == [state : {"settling"}, tasks : SUBSET Task, failed : BOOLEAN, upto : 0..StreamLength]

TypeOK ==
  /\ stage \in [Probes -> 0..Gone]
  /\ home \in [Probes -> Nodes \cup {Nothing}]
  /\ view \in [Nodes -> [Nodes -> Entry \cup {Nothing}]]
  /\ stamp \in [Nodes -> 0..2]
  /\ document \in [Nodes -> Document \cup {Nothing}]
  /\ stream \in Seq(Event) /\ Len(stream) <= StreamLength
  /\ cursor \in [Nodes -> 0..StreamLength]
  /\ push \in [Nodes -> {IdlePush} \cup Writing \cup Publishing]
  /\ pull \in [Nodes -> {IdlePull} \cup Settling]
  /\ asked \in [Probes -> 0..Gone] \cup {Nothing}
  /\ faults \in 0..MaxFaults
  /\ lost \in {"nothing", "noticed", "unnoticed"}

Init ==
  /\ stage = [p \in Probes |-> 0]
  /\ home = [p \in Probes |-> Nothing]
  /\ view = [n \in Nodes |-> [m \in Nodes |-> Nothing]]
  /\ stamp = [n \in Nodes |-> 0]
  /\ document = [n \in Nodes |-> Nothing]
  /\ stream = <<>>
  /\ cursor = [n \in Nodes |-> 0]
  /\ push = [n \in Nodes |-> IdlePush]
  /\ pull = [n \in Nodes |-> IdlePull]
  /\ asked = Nothing
  /\ faults = 0
  /\ lost = "nothing"

\* The fetches of n's syncPull that are not settled.
Tasks(n) == IF pull[n] = IdlePull THEN {} ELSE pull[n].tasks

Fault == faults < MaxFaults /\ faults' = faults + 1

-------------------------------------------------------------------------------
(* The environment *)

Connect(p, n) ==
  /\ stage[p] = 0
  /\ stage' = [stage EXCEPT ![p] = 1]
  /\ home' = [home EXCEPT ![p] = n]
  /\ UNCHANGED <<asked, caches, document, stream, cursor, push, pull, faults, lost>>

\* The data of a connected probe changes, or the probe disconnects.
Advance(p) ==
  /\ stage[p] \in 1..MaxVersion
  /\ \/ stage' = [stage EXCEPT ![p] = @ + 1]
     \/ stage' = [stage EXCEPT ![p] = Gone]
  /\ UNCHANGED <<home, asked, caches, document, stream, cursor, push, pull, faults, lost>>

\* Some fetchProbes call starts, on any node: timestamps taken from now on are
\* "fresh", later than its start.
FetchProbes ==
  /\ asked = Nothing
  /\ asked' = stage
  /\ UNCHANGED <<stage, home, caches, document, stream, cursor, push, pull, faults, lost>>

\* The probes of the sockets that are connected to n.
Local(n) == [p \in Probes |-> IF home[p] = n /\ stage[p] # Gone THEN stage[p] ELSE 0]

-------------------------------------------------------------------------------
(* syncPush.  Only this node writes its document, so collecting the probes,     *)
(* reading the stamp of the document and comparing are one step.                *)

\* A changeTimestamp that neither the cache nor Redis has.
NewStamp(n) ==
  CHOOSE s \in 0..2 : s # stamp[n] /\ (document[n] # Nothing => s # document[n].stamp)

SnapshotOf(n) == [probes |-> Local(n), fresh |-> asked # Nothing, stamp |-> NewStamp(n)]

\* handleUpdate: the node's own entry becomes d.
HandleUpdate(n, d) ==
  /\ view' = [view EXCEPT ![n][n] = [probes |-> d.probes, fresh |-> d.fresh]]
  /\ stamp' = [stamp EXCEPT ![n] = d.stamp]

\* What Redis has at a path of a document: the stamp of the last write of n.
RemoteStamp(n) == IF document[n] = Nothing THEN Nothing ELSE document[n].stamp

TrustsItself(n) == view[n][n] # Nothing  \* mutant: the document is not looked at

\* Is the document the one this node wrote last?
StampsMatch(n) ==
  /\ view[n][n] # Nothing
  /\ RemoteStamp(n) = stamp[n]

\* It is not: everybody must reload.
PushReload(n) ==
  /\ push[n] = IdlePush
  /\ ~StampsMatch(n)
  /\ HandleUpdate(n, SnapshotOf(n))
  /\ push' = [push EXCEPT ![n] =
       [state |-> "writing", data |-> SnapshotOf(n),
        event |-> [node |-> n, fresh |-> FALSE, reload |-> TRUE, remove |-> {}, update |-> {}]]]
  /\ UNCHANGED <<env, document, stream, cursor, pull, faults, lost>>

Removed(n) == {p \in Probes : view[n][n].probes[p] # 0 /\ Local(n)[p] = 0}

Updated(n) == {p \in Probes : Local(n)[p] \notin {0, view[n][n].probes[p]}}

DiffEvent(n) == [node |-> n, fresh |-> asked # Nothing, reload |-> FALSE,
                 remove |-> Removed(n), update |-> Updated(n)]

Unchanged(n) == Removed(n) = {} /\ Updated(n) = {}

\* Nothing has changed: the document stays, and with it its changeTimestamp.
PushAlive(n) ==
  /\ push[n] = IdlePush
  /\ StampsMatch(n)
  /\ Unchanged(n)
  /\ HandleUpdate(n, [SnapshotOf(n) EXCEPT !.stamp = stamp[n]])
  /\ push' = [push EXCEPT ![n] = [state |-> "publishing", event |-> DiffEvent(n)]]
  /\ UNCHANGED <<env, document, stream, cursor, pull, faults, lost>>

IsKeepAlive(e) == ~e.reload /\ e.remove = {} /\ e.update = {}

\* The change that n has written last is old: everybody has dealt with it.
HalfTtlPassed(n) ==
  /\ \A i \in DOMAIN stream : stream[i].node = n => IsKeepAlive(stream[i])
  /\ \A m \in Nodes : \A t \in Tasks(m) : t.node # n

\* The same, when half of the document's TTL has passed: it is written again.
PushRefresh(n) ==
  /\ push[n] = IdlePush
  /\ StampsMatch(n)
  /\ Unchanged(n)
  /\ HalfTtlPassed(n)
  /\ push' = [push EXCEPT ![n] =
       [state |-> "refreshing", event |-> DiffEvent(n),
        data |-> [SnapshotOf(n) EXCEPT !.stamp = stamp[n]]]]
  /\ UNCHANGED <<env, caches, document, stream, cursor, pull, faults, lost>>

PushDiff(n) ==
  /\ push[n] = IdlePush
  /\ StampsMatch(n)
  /\ ~Unchanged(n)
  /\ HandleUpdate(n, SnapshotOf(n))
  /\ push' = [push EXCEPT ![n] =
       [state |-> "writing", data |-> SnapshotOf(n), event |-> DiffEvent(n)]]
  /\ UNCHANGED <<env, document, stream, cursor, pull, faults, lost>>

\* setRemoteNodeData; a refresh updates the local entry only afterwards.
WriteDocument(n) ==
  /\ push[n].state \in {"writing", "refreshing"}
  /\ document' = [document EXCEPT ![n] = push[n].data]
  /\ IF push[n].state = "refreshing"
     THEN HandleUpdate(n, push[n].data)
     ELSE UNCHANGED caches
  /\ push' = [push EXCEPT ![n] = [state |-> "publishing", event |-> @.event]]
  /\ UNCHANGED <<env, stream, cursor, pull, faults, lost>>

\* A command of the push fails before the document is written.
PushFails(n) ==
  /\ Fault
  /\ push[n].state \in {"writing", "refreshing"}
  /\ push' = [push EXCEPT ![n] = IdlePush]
  /\ UNCHANGED <<env, caches, document, stream, cursor, pull, lost>>

Dropped(s) == IF Len(s) > StreamLength THEN 1 ELSE 0

\* XADD with MAXLEN.  A node without an event in the stream has been silent for
\* longer than syncTimeout: its entry has expired on all other nodes.  No fetch
\* takes that long.
Publish(n) ==
  LET s == Append(stream, push[n].event)
      d == Dropped(s)
      rest == SubSeq(s, d + 1, Len(s))
      Shift(i) == IF i > d THEN i - d ELSE 0
      silent == IF d = 1 THEN {s[1].node} \ {rest[i].node : i \in 1..Len(rest)} ELSE {}
  IN
  /\ push[n].state = "publishing"
  /\ \A m \in Nodes : \A t \in Tasks(m) : t.node \notin silent
  /\ stream' = rest
  /\ cursor' = [m \in Nodes |-> Shift(cursor[m])]
  /\ pull' = [m \in Nodes |-> IF pull[m] = IdlePull THEN IdlePull
                              ELSE [pull[m] EXCEPT !.upto = Shift(@)]]
  /\ view' = [m \in Nodes |-> [k \in Nodes |->
                IF k \in silent /\ k # m THEN Nothing ELSE view[m][k]]]
  /\ push' = [push EXCEPT ![n] = IdlePush]
  /\ UNCHANGED <<env, stamp, document, faults, lost>>

\* XADD fails, or the document is written but SET or PEXPIRE is reported to
\* have failed: the event is never sent.  The next push makes up for a keep-alive.
LoseEvent(n) ==
  /\ LostEvents
  /\ Fault
  /\ \/ push[n].state = "publishing" /\ UNCHANGED document
     \/ /\ push[n].state \in {"writing", "refreshing"}
        /\ document' = [document EXCEPT ![n] = push[n].data]
  /\ lost' = IF IsKeepAlive(push[n].event) THEN lost ELSE "unnoticed"
  /\ push' = [push EXCEPT ![n] = IdlePush]
  /\ UNCHANGED <<env, caches, stream, cursor, pull>>

-------------------------------------------------------------------------------
(* syncPull *)

\* Events are known by their positions.
Unread(n) == (cursor[n] + 1)..Len(stream)
UnreadOf(n, m) == {i \in Unread(n) : stream[i].node = m}
Publishers(n) == {stream[i].node : i \in Unread(n)} \ {n}

\* Was the last event this node has read trimmed, or is there a reload event?
MustReload(n, m) == cursor[n] = 0 \/ \E i \in UnreadOf(n, m) : stream[i].reload

LastOf(n, m) == stream[Max(UnreadOf(n, m))]

LastRemoves(n, m) == LastOf(n, m).remove  \* mutant: it overwrites what earlier events removed

Removes(n, m) == UNION {stream[i].remove : i \in UnreadOf(n, m)}

Updates(n, m) == UNION {stream[i].update : i \in UnreadOf(n, m)}

\* What remains to be done for m when the changes have been collected: fetch its
\* whole document, or the probes to update.
TaskFor(n, m) ==
  LET whole == \/ view[n][m] = Nothing
               \/ MustReload(n, m)
               \/ Cardinality(Updates(n, m)) > MaxPatch
      none == [p \in Probes |-> 0]
  IN
  IF whole
  THEN [node |-> m, whole |-> TRUE, base |-> none, update |-> {}, fresh |-> FALSE]
  ELSE [node |-> m, whole |-> FALSE,
        base |-> [p \in Probes |->
                    IF p \in Removes(n, m) THEN 0 ELSE view[n][m].probes[p]],
        update |-> Updates(n, m),
        fresh |-> LastOf(n, m).fresh]

\* Without updates nothing is fetched, and the entry changes right away.
Immediate(t) == ~t.whole /\ t.update = {}

StartPull(n) ==
  LET tasks == {TaskFor(n, m) : m \in Publishers(n)}
      New(m) == [probes |-> TaskFor(n, m).base, fresh |-> TaskFor(n, m).fresh]
  IN
  /\ pull[n] = IdlePull
  /\ Publishers(n) # {}
  /\ view' = [view EXCEPT ![n] = [m \in Nodes |->
                IF m \in Publishers(n) /\ Immediate(TaskFor(n, m)) THEN New(m) ELSE view[n][m]]]
  /\ pull' = [pull EXCEPT ![n] = [state |-> "settling", failed |-> FALSE,
                                  tasks |-> {t \in tasks : ~Immediate(t)},
                                  upto |-> Len(stream)]]
  /\ UNCHANGED <<env, stamp, document, stream, cursor, push, faults, lost>>

TakeTask(n, t) ==
  /\ t \in Tasks(n)
  /\ UNCHANGED <<env, stamp, document, stream, cursor, push, lost>>

\* The whole document is set, unless there is none.
FetchNode(n, t) ==
  /\ TakeTask(n, t)
  /\ t.whole
  /\ view' = [view EXCEPT ![n][t.node] =
                IF document[t.node] = Nothing THEN @
                ELSE [probes |-> document[t.node].probes, fresh |-> document[t.node].fresh]]
  /\ pull' = [pull EXCEPT ![n].tasks = @ \ {t}]
  /\ UNCHANGED faults

\* What the paths of some probes are in a document: 0 where it does not have them.
RemoteProbes(n, probes) ==
  [p \in probes |-> IF document[n] = Nothing THEN 0 ELSE document[n].probes[p]]

\* A probe to update that the document does not have any more stays as it was.
Patched(t) ==
  LET remote == RemoteProbes(t.node, t.update)
  IN [p \in Probes |-> IF p \in t.update /\ remote[p] # 0 THEN remote[p] ELSE t.base[p]]

FetchProbesById(n, t) ==
  /\ TakeTask(n, t)
  /\ ~t.whole
  /\ view' = [view EXCEPT ![n][t.node] = [probes |-> Patched(t), fresh |-> t.fresh]]
  /\ pull' = [pull EXCEPT ![n].tasks = @ \ {t}]
  /\ UNCHANGED faults

FetchFails(n, t) ==
  /\ Fault
  /\ TakeTask(n, t)
  /\ pull' = [pull EXCEPT ![n].tasks = @ \ {t}, ![n].failed = TRUE]
  /\ UNCHANGED view

AdvanceAlways(n) ==  \* mutant: the cursor moves on although a fetch has failed
  /\ pull[n].state = "settling"
  /\ pull[n].tasks = {}
  /\ cursor' = [cursor EXCEPT ![n] = pull[n].upto]
  /\ pull' = [pull EXCEPT ![n] = IdlePull]
  /\ UNCHANGED <<env, caches, document, stream, push, faults, lost>>

\* All are settled.  After a failure the same events are read again.
FinishPull(n) ==
  /\ pull[n].state = "settling"
  /\ pull[n].tasks = {}
  /\ cursor' = [cursor EXCEPT ![n] = IF pull[n].failed THEN @ ELSE pull[n].upto]
  /\ pull' = [pull EXCEPT ![n] = IdlePull]
  /\ UNCHANGED <<env, caches, document, stream, push, faults, lost>>

-------------------------------------------------------------------------------
(* Expiration and eviction *)

\* No event of m has arrived for syncTimeout; for m = n, no push has got so far.
Expire(n, m) ==
  /\ Fault
  /\ view[n][m] # Nothing
  /\ view' = [view EXCEPT ![n][m] = Nothing]
  /\ UNCHANGED <<env, stamp, document, stream, cursor, push, pull, lost>>

\* The database is flushed or the key evicted.  The next push finds out, unless
\* there is one between its look at the document and its write.
Evict(n) ==
  /\ Evictions
  /\ Fault
  /\ document[n] # Nothing
  /\ document' = [document EXCEPT ![n] = Nothing]
  /\ lost' = IF push[n].state \in {"writing", "refreshing"} \/ lost = "unnoticed"
             THEN "unnoticed" ELSE "noticed"
  /\ UNCHANGED <<env, caches, stream, cursor, push, pull>>

-------------------------------------------------------------------------------

PushStep(n) == \/ PushReload(n) \/ PushAlive(n) \/ PushRefresh(n)
               \/ PushDiff(n) \/ WriteDocument(n) \/ Publish(n)

PullStep(n) == \/ StartPull(n) \/ FinishPull(n)
               \/ \E t \in Tasks(n) : FetchNode(n, t) \/ FetchProbesById(n, t) \/ FetchFails(n, t)

EnvStep == \/ FetchProbes
           \/ \E p \in Probes : Advance(p) \/ \E n \in Hosts : Connect(p, n)

Next == \/ EnvStep
        \/ \E n \in Hosts : PushStep(n) \/ PushFails(n) \/ LoseEvent(n) \/ Evict(n)
        \/ \E n \in Readers : PullStep(n)
        \/ \E n, m \in Nodes : Expire(n, m)

Spec == Init /\ [][Next]_vars

\* Both timers are set again whatever happens.  A pull that finds nothing new is
\* not a step, so the one that does may be enabled only now and then.
Fairness ==
  /\ \A n \in Hosts : WF_vars(PushStep(n))
  /\ \A n \in Readers :
       /\ SF_vars(StartPull(n))
       /\ WF_vars(\/ FinishPull(n)
                  \/ \E t \in Tasks(n) : FetchNode(n, t) \/ FetchProbesById(n, t))

FairSpec == Spec /\ Fairness

-------------------------------------------------------------------------------
(* Properties *)

\* Was p in this state at or after the call of fetchProbes?  A version that has
\* been replaced since is tolerated if the probe has disconnected as well.
FreshEnough(version, p) ==
  IF version = 0
  THEN asked[p] = 0 \/ stage[p] = Gone
  ELSE asked[p] <= version \/ (asked[p] # Gone /\ stage[p] = Gone)

\* fetchProbes resolves when all entries are newer than its call.  Then they must
\* be: no probe is missing that was connected at the call, none is listed that
\* had disconnected, none has data that had been replaced.
NewEntriesAreFresh ==
  asked # Nothing =>
    \A n, m \in Nodes : view[n][m] # Nothing /\ view[n][m].fresh =>
      \A p \in Probes : home[p] = m => FreshEnough(view[n][m].probes[p], p)

\* They are, as long as no document and no announcement of a change was lost.
FetchedListsAreFresh == lost = "nothing" => NewEntriesAreFresh

\* A node that has read all the events of another one agrees with it on its
\* probes, whatever was trimmed, evicted, retried or expired on the way; a loss
\* that nobody could notice excepted.
CaughtUpNodesAgree ==
  /\ TypeOK
  /\ lost # "unnoticed" => \A n, m \in Nodes :
    /\ push[m] = IdlePush /\ view[m][m] # Nothing
    /\ document[m] # Nothing /\ document[m].stamp = stamp[m]
    /\ pull[n] = IdlePull /\ m \notin Publishers(n) /\ view[n][m] # Nothing
    => view[n][m].probes = view[m][m].probes

\* Every node lists the probes of every other node again and again, and once the
\* probes and the faults have come to rest, it lists them right: unless a document
\* or an event was lost unnoticed, after which only the next change would repair the lists.
NoWrongEntry ==
  \A n, m \in Nodes : view[n][m] # Nothing => view[n][m].probes = Local(m)

ListsConverge ==
  /\ <>[](NoWrongEntry \/ lost = "unnoticed")
  /\ \A n \in Readers, m \in Hosts : []<>(view[n][m] # Nothing)
===============================================================================
