------------------------- MODULE SyncedProbeListProofs -------------------------
(***************************************************************************)
(* Proofs about SyncedProbeList, for any nodes, probes, and versions of    *)
(* their data, any length of the stream, and any number of faults.         *)
(***************************************************************************)
EXTENDS SyncedProbeList, WellFoundedInduction, TLAPS

\* What a push that has not ended is going to announce.
Pending(m) == IF push[m] = IdlePush THEN {} ELSE {push[m].event}

\* The events of m in the stream after position i, and those that are still to come.
Published(m, i) == {stream[k] : k \in {j \in (i + 1)..Len(stream) : stream[j].node = m}}
Events(m, i) == Published(m, i) \cup Pending(m)

Reloads(E) == \E e \in E : e.reload
RemovedBy(E) == UNION {e.remove : e \in E}
UpdatedBy(E) == UNION {e.update : e \in E}
Touched(E) == RemovedBy(E) \cup UpdatedBy(E)

IsWriting(m) == push[m].state \in {"writing", "refreshing"}

\* The list that the readers are going to have.
Target(m) == IF IsWriting(m) THEN push[m].data.probes ELSE view[m][m].probes

\* A reader that has dealt with m's events up to i can go on with those after it: m has not
\* begun anew, and is not going to.
Open(m, i) ==
  /\ lost # "unnoticed" /\ i # 0
  /\ IsWriting(m) \/ StampsMatch(m)
  /\ ~Reloads(Events(m, i))

\* What m has, writes and announces fits together.
PushInv(m) ==
  /\ push[m] # IdlePush => push[m].event.node = m
  /\ StampsMatch(m) => document[m].probes = view[m][m].probes
  /\ IsWriting(m) =>
       /\ push[m].data.stamp = stamp[m]
       /\ view[m][m] # Nothing => view[m][m].probes = push[m].data.probes
       /\ ~push[m].event.reload =>
            /\ lost # "unnoticed" => document[m] # Nothing
            /\ document[m] # Nothing =>
                 \A p \in Probes : p \in Touched(Pending(m)) \/ document[m].probes[p] = push[m].data.probes[p]
  /\ push[m].state = "writing" => ~StampsMatch(m) /\ ~IsKeepAlive(push[m].event)
  /\ push[m].state = "refreshing" => IsKeepAlive(push[m].event)

\* What has been removed is gone; what has been updated is there, or its removal is announced.
EventInv(m) ==
  /\ \A p \in RemovedBy(Events(m, 0)) :
       stage[p] = Gone /\ (IsWriting(m) \/ StampsMatch(m) => Target(m)[p] = 0)
  /\ \A i \in 1..Len(stream), p \in Probes :
       stream[i].node = m /\ p \in stream[i].update /\ Open(m, i) /\ Target(m)[p] = 0 =>
         p \in RemovedBy(Events(m, i))
  /\ \A p \in UpdatedBy(Pending(m)) : IsWriting(m) \/ StampsMatch(m) => Target(m)[p] # 0

\* Only probes that have connected to m are listed for it.
Lists(probes, m) == \A p \in Probes : probes[p] # 0 => home[p] = m /\ stage[p] # 0

ListInv(m) ==
  /\ \A n \in Nodes : /\ view[n][m] # Nothing => Lists(view[n][m].probes, m)
                      /\ \A t \in Tasks(n) : t.node = m => Lists(t.base, m)
  /\ document[m] # Nothing => Lists(document[m].probes, m)
  /\ IsWriting(m) => Lists(push[m].data.probes, m)

\* Up to event i this list of m's probes is right.
RightTo(probes, m, i) ==
  Open(m, i) => \A p \in Probes : p \in Touched(Events(m, i)) \/ probes[p] = Target(m)[p]

\* And so is the one that this task is going to make.
TaskRight(t, i) ==
  Open(t.node, i) => \A p \in Probes : \/ p \in Touched(Events(t.node, i)) \/ t.base[p] = Target(t.node)[p]
                                       \/ p \in t.update /\ Target(t.node)[p] # 0

ReadInv(n, m) ==
  /\ cursor[n] <= Len(stream)
  /\ pull[n] # IdlePull => cursor[n] <= pull[n].upto /\ pull[n].upto <= Len(stream)
  /\ \A t \in Tasks(n) : t.node # n
  /\ n # m =>
       /\ view[n][m] # Nothing => Published(m, 0) # {} /\ RightTo(view[n][m].probes, m, cursor[n])
       /\ \A t \in Tasks(n) : t.node = m =>
            Published(m, 0) # {} /\ (~t.whole => TaskRight(t, pull[n].upto))
       /\ pull[n] # IdlePull /\ view[n][m] # Nothing =>
            pull[n].failed \/ (\E t \in Tasks(n) : t.node = m) \/ RightTo(view[n][m].probes, m, pull[n].upto)

SyncInv == \A m \in Nodes : PushInv(m) /\ EventInv(m) /\ ListInv(m) /\ \A n \in Nodes : ReadInv(n, m)

-------------------------------------------------------------------------------
(* The ends of sets of numbers *)

\* There is a least of some natural numbers.
LEMMA LeastExists ==
  ASSUME NEW S, S \subseteq Nat, S # {}
  PROVE  \E m \in S : \A n \in S : m <= n
<1>1. PICK m \in S : \A n \in S : <<n, m>> \notin OpToRel(<, Nat)
  BY NatLessThanWellFounded, WFMin, Zenon
<1>2. \A n \in S : ~(n < m)
  BY <1>1 DEF OpToRel
<1>3. QED
  BY <1>2

\* Of some naturals that are bounded there is a greatest.
LEMMA GreatestBounded ==
  ASSUME NEW S, S \subseteq Nat, S # {}, NEW b \in Nat, \A n \in S : n <= b
  PROVE  \E m \in S : \A n \in S : m >= n
<1> DEFINE T == {b - n : n \in S}
<1>1. T \subseteq Nat /\ T # {}
  <2>1. \A n \in S : b - n \in Nat
    OBVIOUS
  <2>2. QED
    BY <2>1
<1>2. PICK t \in T : \A u \in T : t <= u
  <2> HIDE DEF T
  <2>1. QED
    BY <1>1, LeastExists
<1>3. PICK m \in S : t = b - m
  OBVIOUS
<1>4. \A n \in S : b - m <= b - n
  BY <1>2, <1>3
<1>5. QED
  BY <1>4


-------------------------------------------------------------------------------
(* Types *)

\* Nothing is none of the values it stands for the absence of.
LEMMA Constants ==
  /\ MaxVersion \in Nat /\ MaxVersion >= 1 /\ StreamLength \in Nat /\ StreamLength >= 1 /\ MaxFaults \in Nat
  /\ Gone = MaxVersion + 1 /\ Versions = 0..MaxVersion
  /\ Nothing \notin Entry /\ Nothing \notin Document /\ Nothing \notin 0..2 /\ Nothing \notin [Probes -> 0..Gone]
  /\ Hosts \subseteq Nodes /\ Readers \subseteq Nodes
BY NothingAssumption, BoundsAssumption, NodesAssumption DEF Gone, Versions

\* The probes of a node are a list.
LEMMA LocalType ==
  ASSUME TypeOK, NEW n \in Nodes
  PROVE  Local(n) \in ProbesById
<1>1. \A p \in Probes : stage[p] # Gone => stage[p] \in Versions
  BY Constants DEF TypeOK
<1>2. 0 \in Versions
  BY Constants
<1>3. QED
  BY <1>1, <1>2 DEF Local, ProbesById

\* A new stamp differs from those there are.
LEMMA NewStampRight ==
  ASSUME TypeOK, NEW n \in Nodes
  PROVE  /\ NewStamp(n) \in 0..2 /\ NewStamp(n) # stamp[n]
         /\ document[n] # Nothing => NewStamp(n) # document[n].stamp
<1> DEFINE Differs(s) == s # stamp[n] /\ (document[n] # Nothing => s # document[n].stamp)
<1>1. stamp[n] \in 0..2 /\ (document[n] # Nothing => document[n].stamp \in 0..2)
  BY DEF TypeOK, Document
<1>2. Differs(0) \/ Differs(1) \/ Differs(2)
  BY <1>1
<1>3. \E s \in 0..2 : Differs(s)
  <2>1. 0 \in 0..2 /\ 1 \in 0..2 /\ 2 \in 0..2
    OBVIOUS
  <2> HIDE DEF Differs
  <2>2. QED
    BY <1>2, <2>1
<1>4. NewStamp(n) = CHOOSE s \in 0..2 : Differs(s)
  BY DEF NewStamp
<1>5. NewStamp(n) \in 0..2 /\ Differs(NewStamp(n))
  <2> HIDE DEF Differs
  <2>1. QED
    BY <1>3, <1>4
<1>6. QED
  BY <1>5

\* A push knows what its state needs.
LEMMA PushFields ==
  ASSUME TypeOK, NEW n \in Nodes
  PROVE  /\ push[n].state \in {"idle", "writing", "refreshing", "publishing"}
         /\ push[n].state = "idle" <=> push[n] = IdlePush
         /\ IsWriting(n) => push[n].data \in Document /\ push[n].event \in Event /\ push[n] # IdlePush
         /\ push[n].state = "publishing" => push[n].event \in Event /\ push[n] # IdlePush
         /\ push[n] # IdlePush => push[n].event \in Event
<1>1. push[n] \in {IdlePush} \cup Writing \cup Publishing
  BY DEF TypeOK
<1>2. CASE push[n] = IdlePush
  BY <1>2 DEF IdlePush, IsWriting
<1>3. CASE push[n] \in Writing
  BY <1>3 DEF IdlePush, IsWriting, Writing
<1>4. CASE push[n] \in Publishing
  BY <1>4 DEF IdlePush, IsWriting, Publishing
<1>5. QED
  BY <1>1, <1>2, <1>3, <1>4

\* And so does a pull.
LEMMA PullFields ==
  ASSUME TypeOK, NEW n \in Nodes
  PROVE  /\ pull[n].state = "settling" <=> pull[n] # IdlePull
         /\ pull[n] # IdlePull => /\ pull[n] \in Settling /\ pull[n].tasks \subseteq Task
                                  /\ pull[n].failed \in BOOLEAN /\ pull[n].upto \in 0..StreamLength
                                  /\ Tasks(n) = pull[n].tasks
         /\ pull[n] = IdlePull => Tasks(n) = {}
         /\ Tasks(n) \subseteq Task
<1>1. pull[n] \in {IdlePull} \cup Settling
  BY DEF TypeOK
<1>2. CASE pull[n] = IdlePull
  BY <1>2 DEF IdlePull, Tasks
<1>3. CASE pull[n] \in Settling
  BY <1>3 DEF IdlePull, Settling, Tasks
<1>4. QED
  BY <1>1, <1>2, <1>3

\* What the three kinds of push write and announce.
LEMMA SnapshotType ==
  ASSUME TypeOK, NEW n \in Nodes
  PROVE  /\ SnapshotOf(n) \in Document /\ SnapshotOf(n).probes = Local(n)
         /\ SnapshotOf(n).fresh = (asked # Nothing) /\ SnapshotOf(n).stamp = NewStamp(n)
         /\ DiffEvent(n) \in Event
<1>1. Local(n) \in ProbesById /\ NewStamp(n) \in 0..2
  BY LocalType, NewStampRight
<1>2. (asked # Nothing) \in BOOLEAN
  OBVIOUS
<1>3. Removed(n) \in SUBSET Probes /\ Updated(n) \in SUBSET Probes
  BY DEF Removed, Updated
<1>4. QED
  BY <1>1, <1>2, <1>3 DEF SnapshotOf, Document, DiffEvent, Event

\* The last of the events of m that n has not read is one of them.
LEMMA LastIsThere ==
  ASSUME TypeOK, NEW n \in Nodes, NEW m \in Publishers(n)
  PROVE  \E i \in UnreadOf(n, m) : LastOf(n, m) = stream[i] /\ \A j \in UnreadOf(n, m) : i >= j
<1> DEFINE U == UnreadOf(n, m)
<1>1. Len(stream) \in Nat /\ cursor[n] \in Nat
  BY Constants DEF TypeOK
<1>2. U # {} /\ U \in SUBSET Nat /\ \A i \in U : i <= Len(stream)
  BY <1>1 DEF UnreadOf, Publishers, Unread
<1> HIDE DEF U
<1>3. \E i \in U : \A j \in U : i >= j
  BY <1>1, <1>2, GreatestBounded
<1>4. Max(U) \in U /\ \A j \in U : Max(U) >= j
  BY <1>3 DEF Max
<1>5. QED
  BY <1>4 DEF LastOf, U

\* A task is a task.
LEMMA TaskType ==
  ASSUME TypeOK, NEW n \in Nodes, NEW m \in Publishers(n)
  PROVE  /\ m \in Nodes \ {n} /\ TaskFor(n, m) \in Task /\ TaskFor(n, m).node = m
         /\ ~TaskFor(n, m).whole =>
              /\ view[n][m] # Nothing /\ ~MustReload(n, m)
              /\ TaskFor(n, m).update = Updates(n, m) /\ TaskFor(n, m).fresh = LastOf(n, m).fresh
              /\ \A p \in Probes : TaskFor(n, m).base[p] = IF p \in Removes(n, m) THEN 0 ELSE view[n][m].probes[p]
<1>1. \A i \in Unread(n) : stream[i] \in Event
  BY Constants DEF TypeOK, Unread
<1>2. m \in Nodes \ {n}
  BY <1>1 DEF Publishers, Event
<1>3. Updates(n, m) \in SUBSET Probes /\ LastOf(n, m).fresh \in BOOLEAN
  <2>1. \A i \in UnreadOf(n, m) : stream[i].update \in SUBSET Probes /\ stream[i].fresh \in BOOLEAN
    BY <1>1 DEF UnreadOf, Event
  <2>2. QED
    BY <2>1, LastIsThere DEF Updates
<1>4. 0 \in Versions
  BY Constants
<1> DEFINE whole == \/ view[n][m] = Nothing
                    \/ MustReload(n, m)
                    \/ Cardinality(Updates(n, m)) > MaxPatch
           none == [p \in Probes |-> 0]
           base == [p \in Probes |-> IF p \in Removes(n, m) THEN 0 ELSE view[n][m].probes[p]]
<1>5. none \in ProbesById
  BY <1>4 DEF ProbesById
<1>6. ~whole => base \in ProbesById
  <2>1. view[n][m] # Nothing => view[n][m].probes \in ProbesById
    BY <1>2 DEF TypeOK, Entry
  <2>2. QED
    BY <1>4, <2>1 DEF ProbesById
<1>7. TaskFor(n, m) = IF whole THEN [node |-> m, whole |-> TRUE, base |-> none, update |-> {}, fresh |-> FALSE]
                      ELSE [node |-> m, whole |-> FALSE, base |-> base, update |-> Updates(n, m),
                            fresh |-> LastOf(n, m).fresh]
  BY DEF TaskFor
<1> HIDE DEF none, base
<1>8. CASE whole
  BY <1>2, <1>5, <1>7, <1>8 DEF Task
<1>9. CASE ~whole
  <2>1. TaskFor(n, m) = [node |-> m, whole |-> FALSE, base |-> base, update |-> Updates(n, m),
                         fresh |-> LastOf(n, m).fresh]
    BY <1>7, <1>9
  <2>2. TaskFor(n, m) \in Task
    BY <1>2, <1>3, <1>6, <1>9, <2>1 DEF Task
  <2>3. TaskFor(n, m).base = base
    BY <2>1
  <2>4. QED
    BY <1>2, <1>9, <2>1, <2>2, <2>3 DEF base
<1>10. QED
  BY <1>8, <1>9

-------------------------------------------------------------------------------
(* What the actions do *)

\* Only what w itself has, writes and announces may change.
Writes(w) ==
  /\ UNCHANGED <<env, stream, cursor, pull>>
  /\ \A n, m \in Nodes : n # w \/ m # w => view'[n][m] = view[n][m]
  /\ \A m \in Nodes \ {w} : stamp'[m] = stamp[m] /\ document'[m] = document[m] /\ push'[m] = push[m]
  /\ lost = "unnoticed" => lost' = "unnoticed"

\* The own entry of a node is updated, and nothing else.
LEMMA HandleUpdateDoes ==
  ASSUME TypeOK, NEW w \in Nodes, NEW d \in Document, HandleUpdate(w, d)
  PROVE  /\ view' \in [Nodes -> [Nodes -> Entry \cup {Nothing}]] /\ stamp' \in [Nodes -> 0..2]
         /\ view'[w][w] # Nothing /\ view'[w][w].probes = d.probes /\ view'[w][w].fresh = d.fresh
         /\ stamp'[w] = d.stamp
         /\ \A n, m \in Nodes : n # w \/ m # w => view'[n][m] = view[n][m]
         /\ \A m \in Nodes \ {w} : stamp'[m] = stamp[m]
<1> DEFINE e == [probes |-> d.probes, fresh |-> d.fresh]
<1>1. e \in Entry /\ d.stamp \in 0..2
  BY DEF Entry, Document
<1>2. e # Nothing /\ e.probes = d.probes /\ e.fresh = d.fresh
  BY <1>1, Constants
<1>3. view' = [view EXCEPT ![w] = [view[w] EXCEPT ![w] = e]] /\ stamp' = [stamp EXCEPT ![w] = d.stamp]
  BY DEF HandleUpdate
<1> HIDE DEF e
<1>4. view \in [Nodes -> [Nodes -> Entry \cup {Nothing}]] /\ stamp \in [Nodes -> 0..2]
  BY DEF TypeOK
<1>5. view' \in [Nodes -> [Nodes -> Entry \cup {Nothing}]] /\ stamp' \in [Nodes -> 0..2]
  BY <1>1, <1>3, <1>4
<1>6. view'[w][w] = e /\ stamp'[w] = d.stamp
  BY <1>3, <1>4
<1>7. \A n, m \in Nodes : n # w \/ m # w => view'[n][m] = view[n][m]
  BY <1>3, <1>4
<1>8. \A m \in Nodes \ {w} : stamp'[m] = stamp[m]
  BY <1>3, <1>4
<1>9. QED
  BY <1>2, <1>5, <1>6, <1>7, <1>8

\* A push that has something to announce becomes the node's own entry.
LEMMA PushChangeDoes ==
  ASSUME TypeOK, NEW w \in Hosts, PushReload(w) \/ PushDiff(w)
  PROVE  /\ TypeOK' /\ Writes(w)
         /\ push[w] = IdlePush /\ document' = document /\ lost' = lost
         /\ view'[w][w] # Nothing /\ view'[w][w].probes = Local(w) /\ view'[w][w].fresh = (asked # Nothing)
         /\ stamp'[w] = NewStamp(w)
         /\ push'[w].state = "writing" /\ push'[w].data = SnapshotOf(w)
         /\ push'[w].event.node = w /\ IsWriting(w)'
         /\ \/ /\ ~StampsMatch(w) /\ push'[w].event.reload /\ ~push'[w].event.fresh
               /\ push'[w].event.remove = {} /\ push'[w].event.update = {}
            \/ /\ StampsMatch(w) /\ ~Unchanged(w) /\ push'[w].event = DiffEvent(w)
<1>1. w \in Nodes
  BY Constants
<1>2. SnapshotOf(w) \in Document /\ DiffEvent(w) \in Event
  BY <1>1, SnapshotType
<1> DEFINE r == [node |-> w, fresh |-> FALSE, reload |-> TRUE, remove |-> {}, update |-> {}]
           Pushed(e) == [state |-> "writing", data |-> SnapshotOf(w), event |-> e]
<1>3. r \in Event
  BY <1>1 DEF Event
<1>4. PICK e \in Event : /\ push' = [push EXCEPT ![w] = Pushed(e)]
                         /\ (PushReload(w) /\ e = r) \/ (PushDiff(w) /\ e = DiffEvent(w))
  <2>1. PushReload(w) => push' = [push EXCEPT ![w] = Pushed(r)]
    BY DEF PushReload
  <2>2. PushDiff(w) => push' = [push EXCEPT ![w] = Pushed(DiffEvent(w))]
    BY DEF PushDiff
  <2> HIDE DEF Pushed, r
  <2>3. CASE PushReload(w)
    BY <1>3, <2>1, <2>3
  <2>4. CASE PushDiff(w)
    BY <1>2, <2>2, <2>4
  <2>5. QED
    BY <2>3, <2>4
<1>5. Pushed(e) \in Writing
  BY <1>2 DEF Writing
<1>6. HandleUpdate(w, SnapshotOf(w)) /\ push[w] = IdlePush /\ UNCHANGED <<env, document, stream, cursor, pull, faults, lost>>
  BY DEF PushReload, PushDiff
<1>7. push'[w] = Pushed(e) /\ \A m \in Nodes \ {w} : push'[m] = push[m]
  BY <1>1, <1>4 DEF TypeOK
<1>8. push' \in [Nodes -> {IdlePush} \cup Writing \cup Publishing]
  <2> HIDE DEF Pushed
  <2>1. QED
    BY <1>4, <1>5 DEF TypeOK
<1>9. TypeOK'
  <2>1. view' \in [Nodes -> [Nodes -> Entry \cup {Nothing}]] /\ stamp' \in [Nodes -> 0..2]
    BY <1>1, <1>2, <1>6, HandleUpdateDoes
  <2>2. QED
    BY <1>6, <1>8, <2>1 DEF TypeOK, env
<1>10. Writes(w)
  BY <1>1, <1>2, <1>6, <1>7, HandleUpdateDoes DEF Writes
<1>11. push'[w].state = "writing" /\ push'[w].data = SnapshotOf(w) /\ push'[w].event = e
  BY <1>7
<1>12. /\ view'[w][w] # Nothing /\ view'[w][w].probes = Local(w) /\ view'[w][w].fresh = (asked # Nothing)
       /\ stamp'[w] = NewStamp(w)
  BY <1>1, <1>2, <1>6, HandleUpdateDoes, SnapshotType
<1>13. \/ /\ ~StampsMatch(w) /\ e.reload /\ ~e.fresh /\ e.remove = {} /\ e.update = {} /\ e.node = w
       \/ /\ StampsMatch(w) /\ ~Unchanged(w) /\ e = DiffEvent(w) /\ e.node = w
  BY <1>4 DEF PushReload, PushDiff, DiffEvent
<1>14. QED
  <2> HIDE DEF Pushed, r
  <2>1. QED
    BY <1>6, <1>9, <1>10, <1>11, <1>12, <1>13 DEF IsWriting

\* So does one that has nothing to announce, and its document's stamp is still right.
LEMMA PushAliveDoes ==
  ASSUME TypeOK, NEW w \in Hosts, PushAlive(w)
  PROVE  /\ TypeOK' /\ Writes(w)
         /\ push[w] = IdlePush /\ document' = document /\ lost' = lost
         /\ StampsMatch(w) /\ Unchanged(w)
         /\ view'[w][w] # Nothing /\ view'[w][w].probes = Local(w) /\ view'[w][w].fresh = (asked # Nothing)
         /\ stamp'[w] = stamp[w]
         /\ push'[w].state = "publishing" /\ push'[w].event = DiffEvent(w) /\ ~IsWriting(w)'
<1>1. w \in Nodes
  BY Constants
<1> DEFINE d == [SnapshotOf(w) EXCEPT !.stamp = stamp[w]]
           r == [state |-> "publishing", event |-> DiffEvent(w)]
<1>2. DiffEvent(w) \in Event /\ SnapshotOf(w) \in Document
  BY <1>1, SnapshotType
<1>3. d \in Document /\ d.probes = Local(w) /\ d.fresh = (asked # Nothing) /\ d.stamp = stamp[w]
  <2>1. stamp[w] \in 0..2
    BY <1>1 DEF TypeOK
  <2>2. QED
    BY <1>1, <1>2, <2>1, SnapshotType DEF Document
<1>4. r \in Publishing
  BY <1>2 DEF Publishing
<1>5. /\ HandleUpdate(w, d) /\ push' = [push EXCEPT ![w] = r] /\ push[w] = IdlePush /\ StampsMatch(w) /\ Unchanged(w)
      /\ UNCHANGED <<env, document, stream, cursor, pull, faults, lost>>
  BY DEF PushAlive
<1>6. push'[w] = r /\ \A m \in Nodes \ {w} : push'[m] = push[m]
  BY <1>1, <1>5 DEF TypeOK
<1>7. push'[w].state = "publishing" /\ push'[w].event = DiffEvent(w)
  BY <1>6
<1> HIDE DEF r, d
<1>8. TypeOK'
  <2>1. view' \in [Nodes -> [Nodes -> Entry \cup {Nothing}]] /\ stamp' \in [Nodes -> 0..2]
    BY <1>1, <1>3, <1>5, HandleUpdateDoes
  <2>2. push' \in [Nodes -> {IdlePush} \cup Writing \cup Publishing]
    BY <1>4, <1>5 DEF TypeOK
  <2>3. QED
    BY <1>5, <2>1, <2>2 DEF TypeOK, env
<1>9. Writes(w)
  BY <1>1, <1>3, <1>5, <1>6, HandleUpdateDoes DEF Writes
<1>10. QED
  BY <1>1, <1>3, <1>5, <1>7, <1>8, <1>9, HandleUpdateDoes DEF IsWriting

\* A refresh starts.
LEMMA PushRefreshDoes ==
  ASSUME TypeOK, NEW w \in Hosts, PushRefresh(w)
  PROVE  /\ TypeOK' /\ Writes(w)
         /\ push[w] = IdlePush /\ document' = document /\ lost' = lost
         /\ StampsMatch(w) /\ Unchanged(w)
         /\ view' = view /\ stamp' = stamp
         /\ push'[w].state = "refreshing" /\ push'[w].event = DiffEvent(w) /\ IsWriting(w)'
         /\ push'[w].data.probes = Local(w) /\ push'[w].data.fresh = (asked # Nothing)
         /\ push'[w].data.stamp = stamp[w]
<1>1. w \in Nodes
  BY Constants
<1> DEFINE d == [SnapshotOf(w) EXCEPT !.stamp = stamp[w]]
           r == [state |-> "refreshing", event |-> DiffEvent(w), data |-> d]
<1>2. DiffEvent(w) \in Event /\ SnapshotOf(w) \in Document
  BY <1>1, SnapshotType
<1>3. d \in Document /\ d.probes = Local(w) /\ d.fresh = (asked # Nothing) /\ d.stamp = stamp[w]
  <2>1. stamp[w] \in 0..2
    BY <1>1 DEF TypeOK
  <2>2. QED
    BY <1>1, <1>2, <2>1, SnapshotType DEF Document
<1>4. push' = [push EXCEPT ![w] = r]
  BY DEF PushRefresh
<1> HIDE DEF d
<1>5. r \in Writing
  BY <1>2, <1>3 DEF Writing
<1>6. /\ push[w] = IdlePush /\ StampsMatch(w) /\ Unchanged(w)
      /\ UNCHANGED <<env, caches, document, stream, cursor, pull, faults, lost>>
  BY DEF PushRefresh
<1>7. push'[w] = r /\ \A m \in Nodes \ {w} : push'[m] = push[m]
  BY <1>1, <1>4 DEF TypeOK
<1>8. push'[w].state = "refreshing" /\ push'[w].event = DiffEvent(w) /\ push'[w].data = d
  BY <1>7
<1> HIDE DEF r
<1>9. TypeOK'
  <2>1. push' \in [Nodes -> {IdlePush} \cup Writing \cup Publishing]
    BY <1>4, <1>5 DEF TypeOK
  <2>2. QED
    BY <1>6, <2>1 DEF TypeOK, env, caches
<1>10. Writes(w)
  BY <1>6, <1>7 DEF Writes, caches
<1>11. QED
  BY <1>3, <1>6, <1>8, <1>9, <1>10 DEF IsWriting, caches

\* The document is written, and the announcement of a change follows.
LEMMA WriteDocumentDoes ==
  ASSUME TypeOK, NEW w \in Hosts, WriteDocument(w)
  PROVE  /\ TypeOK' /\ Writes(w)
         /\ IsWriting(w) /\ ~IsWriting(w)' /\ lost' = lost
         /\ document'[w] = push[w].data /\ document'[w] # Nothing
         /\ push'[w].state = "publishing" /\ push'[w].event = push[w].event
         /\ \/ push[w].state = "writing" /\ view' = view /\ stamp' = stamp
            \/ /\ push[w].state = "refreshing" /\ view'[w][w] # Nothing /\ view'[w][w].probes = push[w].data.probes
               /\ view'[w][w].fresh = push[w].data.fresh /\ stamp'[w] = push[w].data.stamp
<1>1. w \in Nodes
  BY Constants
<1>2. IsWriting(w)
  BY DEF WriteDocument, IsWriting
<1>3. push[w].data \in Document /\ push[w].event \in Event /\ push[w].data # Nothing
  BY <1>1, <1>2, PushFields, Constants
<1> DEFINE r == [state |-> "publishing", event |-> push[w].event]
<1>4. /\ document' = [document EXCEPT ![w] = push[w].data] /\ push' = [push EXCEPT ![w] = r]
      /\ push[w].state = "refreshing" => HandleUpdate(w, push[w].data)
      /\ push[w].state # "refreshing" => push[w].state = "writing" /\ UNCHANGED caches
      /\ UNCHANGED <<env, stream, cursor, pull, faults, lost>>
  BY <1>1 DEF WriteDocument, TypeOK
<1>5. r \in Publishing
  BY <1>3 DEF Publishing
<1>6. /\ document'[w] = push[w].data /\ \A m \in Nodes \ {w} : document'[m] = document[m] /\ push'[m] = push[m]
      /\ push'[w] = r
  BY <1>1, <1>4 DEF TypeOK
<1>7. push'[w].state = "publishing" /\ push'[w].event = push[w].event
  BY <1>6
<1> HIDE DEF r
<1>8. document' \in [Nodes -> Document \cup {Nothing}] /\ push' \in [Nodes -> {IdlePush} \cup Writing \cup Publishing]
  BY <1>3, <1>4, <1>5 DEF TypeOK
<1>9. CASE push[w].state = "refreshing"
  <2>1. HandleUpdate(w, push[w].data)
    BY <1>4, <1>9
  <2>2. /\ view' \in [Nodes -> [Nodes -> Entry \cup {Nothing}]] /\ stamp' \in [Nodes -> 0..2]
        /\ view'[w][w] # Nothing /\ view'[w][w].probes = push[w].data.probes
        /\ view'[w][w].fresh = push[w].data.fresh /\ stamp'[w] = push[w].data.stamp
        /\ \A n, m \in Nodes : n # w \/ m # w => view'[n][m] = view[n][m]
        /\ \A m \in Nodes \ {w} : stamp'[m] = stamp[m]
    BY <1>1, <1>3, <2>1, HandleUpdateDoes
  <2>3. TypeOK'
    BY <1>4, <1>8, <2>2 DEF TypeOK, env
  <2>4. Writes(w)
    BY <1>4, <1>6, <2>2 DEF Writes
  <2>5. QED
    BY <1>2, <1>3, <1>4, <1>6, <1>7, <1>9, <2>2, <2>3, <2>4 DEF IsWriting
<1>10. CASE push[w].state # "refreshing"
  <2>1. TypeOK'
    BY <1>4, <1>8, <1>10 DEF TypeOK, env, caches
  <2>2. Writes(w)
    BY <1>4, <1>6, <1>10 DEF Writes, caches
  <2>3. QED
    BY <1>2, <1>3, <1>4, <1>6, <1>7, <1>10, <2>1, <2>2 DEF IsWriting, caches
<1>11. QED
  BY <1>9, <1>10

\* A push ends without its announcement; the document may be written.
LEMMA PushEndsDoes ==
  ASSUME TypeOK, NEW w \in Hosts, PushFails(w) \/ LoseEvent(w)
  PROVE  /\ TypeOK' /\ Writes(w)
         /\ push[w] # IdlePush /\ push'[w] = IdlePush /\ ~IsWriting(w)' /\ view' = view /\ stamp' = stamp
         /\ \/ PushFails(w) /\ IsWriting(w) /\ document' = document /\ lost' = lost
            \/ /\ LoseEvent(w)
               /\ lost' = IF IsKeepAlive(push[w].event) THEN lost ELSE "unnoticed"
               /\ \/ document' = document /\ push[w].state = "publishing"
                  \/ document'[w] = push[w].data /\ document'[w] # Nothing /\ IsWriting(w)
<1>1. w \in Nodes
  BY Constants
<1>2. /\ push' = [push EXCEPT ![w] = IdlePush] /\ faults < MaxFaults /\ faults' = faults + 1
      /\ UNCHANGED <<env, caches, stream, cursor, pull>>
      /\ push[w].state \in {"writing", "refreshing", "publishing"}
  BY DEF PushFails, LoseEvent, Fault
<1>3. push[w] # IdlePush
  BY <1>2 DEF IdlePush
<1>4. push'[w] = IdlePush /\ \A m \in Nodes \ {w} : push'[m] = push[m]
  BY <1>1, <1>2 DEF TypeOK
<1>5. push' \in [Nodes -> {IdlePush} \cup Writing \cup Publishing]
  BY <1>2 DEF TypeOK
<1>6. IsWriting(w) => push[w].data \in Document /\ push[w].data # Nothing
  BY <1>1, PushFields, Constants
<1>7. \/ PushFails(w) /\ IsWriting(w) /\ document' = document /\ lost' = lost
      \/ /\ LoseEvent(w)
         /\ lost' = IF IsKeepAlive(push[w].event) THEN lost ELSE "unnoticed"
         /\ \/ document' = document /\ push[w].state = "publishing"
            \/ IsWriting(w) /\ document' = [document EXCEPT ![w] = push[w].data]
  BY DEF PushFails, LoseEvent, IsWriting
<1>8. /\ document' \in [Nodes -> Document \cup {Nothing}]
      /\ document' = document \/ (document'[w] = push[w].data /\ IsWriting(w))
      /\ \A m \in Nodes \ {w} : document'[m] = document[m]
      /\ lost' \in {"nothing", "noticed", "unnoticed"} /\ (lost = "unnoticed" => lost' = "unnoticed")
  <2>1. document' = document \/ (IsWriting(w) /\ document' = [document EXCEPT ![w] = push[w].data])
    BY <1>7
  <2>2. lost' = lost \/ lost' = "unnoticed"
    BY <1>7
  <2>3. QED
    BY <1>1, <1>6, <2>1, <2>2 DEF TypeOK
<1>9. faults' \in 0..MaxFaults
  BY <1>2, Constants DEF TypeOK
<1>10. TypeOK'
  BY <1>2, <1>5, <1>8, <1>9 DEF TypeOK, env, caches
<1>11. Writes(w)
  BY <1>2, <1>4, <1>8 DEF Writes, caches
<1>12. ~IsWriting(w)'
  BY <1>4 DEF IsWriting, IdlePush
<1>13. document'[w] = push[w].data \/ document' = document
  BY <1>8
<1>14. \/ PushFails(w) /\ IsWriting(w) /\ document' = document /\ lost' = lost
       \/ /\ LoseEvent(w)
          /\ lost' = IF IsKeepAlive(push[w].event) THEN lost ELSE "unnoticed"
          /\ \/ document' = document /\ push[w].state = "publishing"
             \/ document'[w] = push[w].data /\ document'[w] # Nothing /\ IsWriting(w)
  <2>1. IsWriting(w) /\ document' = [document EXCEPT ![w] = push[w].data] =>
          document'[w] = push[w].data /\ document'[w] # Nothing
    BY <1>1, <1>6 DEF TypeOK
  <2>2. QED
    BY <1>7, <2>1
<1>15. QED
  BY <1>2, <1>3, <1>4, <1>10, <1>11, <1>12, <1>14 DEF caches

\* A document is lost.
LEMMA EvictDoes ==
  ASSUME TypeOK, NEW w \in Hosts, Evict(w)
  PROVE  /\ TypeOK' /\ Writes(w)
         /\ push' = push /\ view' = view /\ stamp' = stamp /\ document'[w] = Nothing /\ document[w] # Nothing
         /\ lost' # "nothing" /\ (IsWriting(w) \/ lost = "unnoticed" => lost' = "unnoticed")
<1>1. w \in Nodes
  BY Constants
<1>2. /\ document' = [document EXCEPT ![w] = Nothing] /\ document[w] # Nothing /\ faults < MaxFaults /\ faults' = faults + 1
      /\ lost' = IF IsWriting(w) \/ lost = "unnoticed" THEN "unnoticed" ELSE "noticed"
      /\ UNCHANGED <<env, caches, stream, cursor, push, pull>>
  BY DEF Evict, Fault, IsWriting
<1>3. /\ document' \in [Nodes -> Document \cup {Nothing}] /\ document'[w] = Nothing
      /\ \A m \in Nodes \ {w} : document'[m] = document[m]
  BY <1>1, <1>2 DEF TypeOK
<1>4. lost' \in {"nothing", "noticed", "unnoticed"} /\ faults' \in 0..MaxFaults
  BY <1>2, Constants DEF TypeOK
<1>5. TypeOK'
  BY <1>2, <1>3, <1>4 DEF TypeOK, env, caches
<1>6. QED
  BY <1>2, <1>3, <1>5 DEF Writes, caches

\* An entry expires.
LEMMA ExpireDoes ==
  ASSUME TypeOK, NEW k \in Nodes, NEW w \in Nodes, Expire(k, w)
  PROVE  /\ TypeOK'
         /\ UNCHANGED <<env, stamp, document, stream, cursor, push, pull, lost>>
         /\ view'[k][w] = Nothing
         /\ \A n, m \in Nodes : n # k \/ m # w => view'[n][m] = view[n][m]
<1>1. /\ view' = [view EXCEPT ![k] = [view[k] EXCEPT ![w] = Nothing]] /\ faults < MaxFaults /\ faults' = faults + 1
      /\ UNCHANGED <<env, stamp, document, stream, cursor, push, pull, lost>>
  BY DEF Expire, Fault
<1>2. view \in [Nodes -> [Nodes -> Entry \cup {Nothing}]]
  BY DEF TypeOK
<1>3. /\ view' \in [Nodes -> [Nodes -> Entry \cup {Nothing}]] /\ view'[k][w] = Nothing
      /\ \A n, m \in Nodes : n # k \/ m # w => view'[n][m] = view[n][m]
  BY <1>1, <1>2
<1>4. faults' \in 0..MaxFaults
  BY <1>1, Constants DEF TypeOK
<1>5. TypeOK'
  BY <1>1, <1>3, <1>4 DEF TypeOK, env
<1>6. QED
  BY <1>1, <1>3, <1>5

\* How many events the next one pushes out of the stream, and where a position is afterwards.
Trimmed == IF Len(stream) >= StreamLength THEN 1 ELSE 0
Moved(i) == IF i > Trimmed THEN i - Trimmed ELSE 0

\* Positions in a stream to which an event is appended.
LEMMA StreamAppend ==
  ASSUME TypeOK, NEW e \in Event, stream' = SubSeq(Append(stream, e), Trimmed + 1, Len(stream) + 1)
  PROVE  /\ Trimmed \in {0, 1} /\ Dropped(Append(stream, e)) = Trimmed
         /\ Len(stream) \in Nat /\ Len(stream)' = Len(stream) + 1 - Trimmed /\ Len(stream)' \in 1..StreamLength
         /\ stream' \in Seq(Event)
         /\ Trimmed = 1 => Len(stream) >= 1
         /\ \A i \in 1..Len(stream)' : stream'[i] = IF i = Len(stream)' THEN e ELSE stream[i + Trimmed]
         /\ \A i \in 0..StreamLength : Moved(i) \in 0..StreamLength
<1>1. stream \in Seq(Event) /\ Len(stream) <= StreamLength /\ StreamLength \in Nat /\ StreamLength >= 1
  BY Constants DEF TypeOK
<1>2. Len(stream) \in Nat /\ Len(Append(stream, e)) = Len(stream) + 1
  BY <1>1
<1>3. Trimmed = (IF Len(stream) + 1 > StreamLength THEN 1 ELSE 0) /\ Dropped(Append(stream, e)) = Trimmed
  BY <1>1, <1>2 DEF Trimmed, Dropped
<1> DEFINE d == Trimmed
           L == Len(stream)
<1>4. d \in {0, 1} /\ L \in Nat /\ (d = 1 => L >= 1) /\ (d = 1 <=> L + 1 > StreamLength)
  BY <1>1, <1>2, <1>3
<1>5. Append(stream, e) \in Seq(Event) /\ \A i \in 1..(L + 1) : Append(stream, e)[i] = IF i = L + 1 THEN e ELSE stream[i]
  BY <1>1
<1> HIDE DEF d, L
<1>6. stream' = SubSeq(Append(stream, e), d + 1, L + 1)
  BY DEF d, L
<1>7. d + 1 \in 1..(L + 2) /\ L + 1 \in 0..(L + 1) /\ d + 1 >= 1 /\ L + 1 - (d + 1) + 1 = L + 1 - d /\ L + 1 - d \in Nat
  BY <1>4
<1>8. Len(Append(stream, e)) = L + 1
  BY <1>2 DEF L
<1> DEFINE S == Append(stream, e)
<1> HIDE DEF S
<1>9. SubSeq(S, d + 1, L + 1) \in Seq(Event) /\ Len(SubSeq(S, d + 1, L + 1)) = L + 1 - d
      /\ \A i \in 1..(L + 1 - d) : SubSeq(S, d + 1, L + 1)[i] = S[d + i]
  <2>1. S \in Seq(Event) /\ Len(S) = L + 1
    BY <1>5, <1>8 DEF S
  <2>2. \A i \in 1..(L + 1 - d) : d + 1 + i - 1 = d + i
    BY <1>4
  <2>3. QED
    BY <1>4, <1>7, <2>1, <2>2
<1>10. stream' \in Seq(Event) /\ Len(stream)' = L + 1 - d /\ \A i \in 1..(L + 1 - d) : stream'[i] = S[d + i]
  BY <1>6, <1>9 DEF S
<1>11. \A i \in 1..(L + 1 - d) : stream'[i] = IF i = L + 1 - d THEN e ELSE stream[i + d]
  <2> SUFFICES ASSUME NEW i \in 1..(L + 1 - d) PROVE stream'[i] = IF i = L + 1 - d THEN e ELSE stream[i + d]
    OBVIOUS
  <2>1. d + i \in 1..(L + 1) /\ d + i = i + d /\ (d + i = L + 1 <=> i = L + 1 - d)
    BY <1>4
  <2>2. QED
    BY <1>5, <1>10, <2>1 DEF S, L
<1>12. L + 1 - d \in 1..StreamLength /\ \A i \in 0..StreamLength : i > d => i - d \in 0..StreamLength
  <2>1. L <= StreamLength
    BY <1>1 DEF L
  <2>2. QED
    BY <1>1, <1>4, <2>1
<1>13. \A i \in 0..StreamLength : Moved(i) \in 0..StreamLength
  BY <1>1, <1>12 DEF d, Moved
<1>14. Trimmed = 1 => Len(stream) >= 1
  BY <1>4 DEF d, L
<1>15. QED
  BY <1>1, <1>3, <1>4, <1>10, <1>11, <1>12, <1>13, <1>14 DEF d, L

\* The event of a push is in the stream, its push has ended, and nobody lists a silent node.
LEMMA PublishDoes ==
  ASSUME TypeOK, NEW w \in Hosts, Publish(w)
  PROVE  /\ TypeOK' /\ UNCHANGED <<env, stamp, document, faults, lost>>
         /\ push[w].state = "publishing" /\ push[w].event \in Event
         /\ push'[w] = IdlePush /\ \A m \in Nodes \ {w} : push'[m] = push[m]
         /\ Trimmed \in {0, 1}
         /\ Len(stream) \in Nat /\ Len(stream)' = Len(stream) + 1 - Trimmed /\ Len(stream)' \in 1..StreamLength
         /\ \A i \in 1..Len(stream)' :
              stream'[i] = IF i = Len(stream)' THEN push[w].event ELSE stream[i + Trimmed]
         /\ \A m \in Nodes :
              /\ cursor'[m] = Moved(cursor[m])
              /\ pull'[m] = IdlePull <=> pull[m] = IdlePull
              /\ Tasks(m)' = Tasks(m)
              /\ pull[m] # IdlePull => pull'[m].failed = pull[m].failed /\ pull'[m].upto = Moved(pull[m].upto)
              /\ view'[m][m] = view[m][m]
              /\ \A k \in Nodes : view'[m][k] = view[m][k] \/ view'[m][k] = Nothing
         /\ \A k \in Nodes :
              \/ \E i \in 1..Len(stream)' : stream'[i].node = k
              \/ /\ \A m \in Nodes : /\ m # k => view'[m][k] = Nothing
                                     /\ \A t \in Tasks(m) : t.node # k
              \/ Trimmed = 0 \/ stream[1].node # k
<1> DEFINE e == push[w].event
           s == Append(stream, e)
           d == Dropped(s)
           rest == SubSeq(s, d + 1, Len(s))
           silent == IF d = 1 THEN {s[1].node} \ {rest[i].node : i \in 1..Len(rest)} ELSE {}
<1>1. w \in Nodes
  BY Constants
<1>2. push[w].state = "publishing" /\ e \in Event
  BY <1>1, PushFields DEF Publish
<1>3. Len(s) = Len(stream) + 1 /\ stream \in Seq(Event) /\ Len(stream) \in Nat /\ (Len(stream) >= 1 => s[1] = stream[1])
  BY <1>2 DEF TypeOK
<1>4. d = Trimmed
  BY <1>3, Constants DEF Dropped, Trimmed
<1>5. stream' = rest
  BY DEF Publish
<1>6. stream' = SubSeq(Append(stream, e), Trimmed + 1, Len(stream) + 1)
  BY <1>3, <1>4, <1>5
<1> HIDE DEF e
<1>7. /\ Trimmed \in {0, 1}
      /\ Len(stream)' = Len(stream) + 1 - Trimmed /\ Len(stream)' \in 1..StreamLength
      /\ stream' \in Seq(Event)
      /\ Trimmed = 1 => Len(stream) >= 1
      /\ \A i \in 1..Len(stream)' : stream'[i] = IF i = Len(stream)' THEN e ELSE stream[i + Trimmed]
      /\ \A i \in 0..StreamLength : Moved(i) \in 0..StreamLength
  BY <1>2, <1>6, StreamAppend
<1> DEFINE Quiet(k) == d = 1 /\ k = s[1].node /\ \A i \in 1..Len(stream)' : stream'[i].node # k
<1>8. \A k : k \in silent <=> Quiet(k)
  BY <1>5
<1>9. /\ \A m \in Nodes : \A t \in Tasks(m) : t.node \notin silent
      /\ cursor' = [m \in Nodes |-> Moved(cursor[m])]
      /\ pull' = [m \in Nodes |-> IF pull[m] = IdlePull THEN IdlePull
                                  ELSE [pull[m] EXCEPT !.upto = Moved(pull[m].upto)]]
      /\ view' = [m \in Nodes |-> [k \in Nodes |-> IF k \in silent /\ k # m THEN Nothing ELSE view[m][k]]]
      /\ push' = [push EXCEPT ![w] = IdlePush]
      /\ UNCHANGED <<env, stamp, document, faults, lost>>
  <2>1. \A m \in Nodes : pull[m] # IdlePull =>
          [pull[m] EXCEPT !.upto = IF @ > d THEN @ - d ELSE 0] = [pull[m] EXCEPT !.upto = Moved(pull[m].upto)]
    BY <1>4 DEF Moved
  <2>2. [m \in Nodes |-> IF pull[m] = IdlePull THEN IdlePull ELSE [pull[m] EXCEPT !.upto = IF @ > d THEN @ - d ELSE 0]]
          = [m \in Nodes |-> IF pull[m] = IdlePull THEN IdlePull
                            ELSE [pull[m] EXCEPT !.upto = Moved(pull[m].upto)]]
    BY <2>1
  <2>3. \A i : (IF i > d THEN i - d ELSE 0) = Moved(i)
    BY <1>4 DEF Moved
  <2>4. cursor' = [m \in Nodes |-> Moved(cursor[m])]
    <3>1. cursor' = [m \in Nodes |-> IF cursor[m] > d THEN cursor[m] - d ELSE 0]
      BY DEF Publish, e
    <3>2. [m \in Nodes |-> IF cursor[m] > d THEN cursor[m] - d ELSE 0] = [m \in Nodes |-> Moved(cursor[m])]
      BY <2>3
    <3>3. QED
      BY <3>1, <3>2
  <2>5. QED
    BY <2>2, <2>4 DEF Publish, e
<1> HIDE DEF s, d, rest, silent
<1>10. \A m \in Nodes :
         /\ pull[m] # IdlePull =>
              /\ pull'[m] \in Settling /\ pull'[m] # IdlePull /\ pull'[m].tasks = pull[m].tasks
              /\ pull'[m].failed = pull[m].failed /\ pull'[m].upto = Moved(pull[m].upto)
         /\ pull[m] = IdlePull => pull'[m] = IdlePull
  <2> SUFFICES ASSUME NEW m \in Nodes
               PROVE  /\ pull[m] # IdlePull =>
                           /\ pull'[m] \in Settling /\ pull'[m] # IdlePull /\ pull'[m].tasks = pull[m].tasks
                           /\ pull'[m].failed = pull[m].failed /\ pull'[m].upto = Moved(pull[m].upto)
                      /\ pull[m] = IdlePull => pull'[m] = IdlePull
    OBVIOUS
  <2>1. pull[m] # IdlePull => pull[m] \in Settling /\ Moved(pull[m].upto) \in 0..StreamLength
    BY <1>7, PullFields DEF Settling
  <2>2. pull[m] # IdlePull => pull'[m] = [pull[m] EXCEPT !.upto = Moved(pull[m].upto)]
    BY <1>9
  <2>3. pull[m] # IdlePull =>
          /\ pull'[m] \in Settling /\ pull'[m].tasks = pull[m].tasks
          /\ pull'[m].failed = pull[m].failed /\ pull'[m].upto = Moved(pull[m].upto)
    BY <2>1, <2>2 DEF Settling
  <2>4. pull[m] # IdlePull => pull'[m] # IdlePull
    BY <2>3 DEF Settling, IdlePull
  <2>5. QED
    BY <1>9, <2>3, <2>4
<1>11. \A m \in Nodes : Tasks(m)' = Tasks(m)
  BY <1>10 DEF Tasks
<1>12. \A m, k \in Nodes : view'[m][k] = IF k \in silent /\ k # m THEN Nothing ELSE view[m][k]
  BY <1>9
<1>13. TypeOK'
  <2>1. pull' \in [Nodes -> {IdlePull} \cup Settling]
    <3>1. \A m \in Nodes : pull'[m] \in {IdlePull} \cup Settling
      BY <1>10
    <3>2. QED
      BY <1>9, <3>1
  <2>2. view' \in [Nodes -> [Nodes -> Entry \cup {Nothing}]]
    <3>1. \A m, k \in Nodes : view[m][k] \in Entry \cup {Nothing}
      BY DEF TypeOK
    <3>2. QED
      BY <1>9, <3>1
  <2>3. cursor' \in [Nodes -> 0..StreamLength] /\ push' \in [Nodes -> {IdlePush} \cup Writing \cup Publishing]
    BY <1>7, <1>9 DEF TypeOK
  <2>4. Len(stream') <= StreamLength
    BY <1>7, Constants
  <2>5. QED
    BY <1>7, <1>9, <2>1, <2>2, <2>3, <2>4 DEF TypeOK, env
<1>14. \A k \in Nodes :
         \/ \E i \in 1..Len(stream)' : stream'[i].node = k
         \/ k \in silent
         \/ Trimmed = 0 \/ stream[1].node # k
  BY <1>3, <1>4, <1>7, <1>8
<1>15. push'[w] = IdlePush /\ \A m \in Nodes \ {w} : push'[m] = push[m]
  BY <1>1, <1>9 DEF TypeOK
<1>16. \A k \in Nodes :
         \/ \E i \in 1..Len(stream)' : stream'[i].node = k
         \/ /\ \A m \in Nodes : /\ m # k => view'[m][k] = Nothing
                                /\ \A t \in Tasks(m) : t.node # k
         \/ Trimmed = 0 \/ stream[1].node # k
  BY <1>9, <1>12, <1>14
<1>17. \A m \in Nodes : cursor'[m] = Moved(cursor[m])
  BY <1>9
<1>18. QED
  BY <1>2, <1>3, <1>7, <1>9, <1>10, <1>11, <1>12, <1>13, <1>15, <1>16, <1>17 DEF e

\* Only what n has of the others and reads may change.
Reads(n) ==
  /\ UNCHANGED <<env, stamp, document, stream, push, lost>>
  /\ \A k \in Nodes \ {n} : pull'[k] = pull[k] /\ cursor'[k] = cursor[k] /\ Tasks(k)' = Tasks(k)
  /\ \A k, m \in Nodes : k # n => view'[k][m] = view[k][m]

\* What an update of one node's pull and entries comes to.
LEMMA ReadsStep ==
  ASSUME TypeOK, NEW n \in Nodes, NEW r \in {IdlePull} \cup Settling, NEW v \in [Nodes -> Entry \cup {Nothing}],
         NEW c \in 0..StreamLength,
         pull' = [pull EXCEPT ![n] = r], view' = [view EXCEPT ![n] = v], cursor' = [cursor EXCEPT ![n] = c],
         faults' \in 0..MaxFaults, UNCHANGED <<env, stamp, document, stream, push, lost>>
  PROVE  /\ TypeOK' /\ Reads(n) /\ pull'[n] = r /\ view'[n] = v /\ cursor'[n] = c
<1>1. /\ pull' \in [Nodes -> {IdlePull} \cup Settling] /\ view' \in [Nodes -> [Nodes -> Entry \cup {Nothing}]]
      /\ cursor' \in [Nodes -> 0..StreamLength]
  BY DEF TypeOK
<1>2. TypeOK'
  BY <1>1 DEF TypeOK, env
<1>3. pull'[n] = r /\ view'[n] = v /\ cursor'[n] = c
  BY DEF TypeOK
<1>4. \A k \in Nodes \ {n} : pull'[k] = pull[k] /\ cursor'[k] = cursor[k] /\ view'[k] = view[k]
  BY DEF TypeOK
<1>5. QED
  BY <1>2, <1>3, <1>4 DEF Reads, Tasks

\* A pull starts: what can be changed without a fetch is, and the rest becomes its tasks.
LEMMA StartPullDoes ==
  ASSUME TypeOK, NEW n \in Nodes, StartPull(n)
  PROVE  /\ TypeOK' /\ Reads(n) /\ cursor' = cursor
         /\ pull[n] = IdlePull /\ pull'[n] # IdlePull /\ ~pull'[n].failed /\ pull'[n].upto = Len(stream)
         /\ \A t \in Tasks(n)' : t.node \in Publishers(n) /\ t = TaskFor(n, t.node) /\ ~Immediate(t)
         /\ \A m \in Publishers(n) :
              \/ TaskFor(n, m) \in Tasks(n)' /\ view'[n][m] = view[n][m] /\ ~Immediate(TaskFor(n, m))
              \/ /\ Immediate(TaskFor(n, m)) /\ view'[n][m] # Nothing
                 /\ view'[n][m].probes = TaskFor(n, m).base /\ view'[n][m].fresh = TaskFor(n, m).fresh
         /\ \A m \in Nodes \ Publishers(n) : view'[n][m] = view[n][m]
<1> DEFINE tasks == {TaskFor(n, m) : m \in Publishers(n)}
           new == [m \in Nodes |-> IF m \in Publishers(n) /\ Immediate(TaskFor(n, m))
                                   THEN [probes |-> TaskFor(n, m).base, fresh |-> TaskFor(n, m).fresh]
                                   ELSE view[n][m]]
           open == {t \in tasks : ~Immediate(t)}
           r == [state |-> "settling", failed |-> FALSE, tasks |-> open, upto |-> Len(stream)]
<1>1. /\ view' = [view EXCEPT ![n] = new] /\ pull' = [pull EXCEPT ![n] = r] /\ pull[n] = IdlePull
      /\ UNCHANGED <<env, stamp, document, stream, cursor, push, faults, lost>>
  BY DEF StartPull
<1>2. \A m \in Publishers(n) : /\ m \in Nodes \ {n} /\ TaskFor(n, m) \in Task /\ TaskFor(n, m).node = m
                               /\ TaskFor(n, m).base \in ProbesById /\ TaskFor(n, m).fresh \in BOOLEAN
  <2> SUFFICES ASSUME NEW m \in Publishers(n)
               PROVE  /\ m \in Nodes \ {n} /\ TaskFor(n, m) \in Task /\ TaskFor(n, m).node = m
                      /\ TaskFor(n, m).base \in ProbesById /\ TaskFor(n, m).fresh \in BOOLEAN
    OBVIOUS
  <2>1. m \in Nodes \ {n} /\ TaskFor(n, m) \in Task /\ TaskFor(n, m).node = m
    BY TaskType
  <2>2. QED
    BY <2>1 DEF Task
<1>3. tasks \subseteq Task /\ open \subseteq Task
  BY <1>2
<1>4. Len(stream) \in 0..StreamLength
  BY Constants DEF TypeOK
<1>5. r \in Settling /\ r # IdlePull /\ r.tasks = open /\ r.failed = FALSE /\ r.upto = Len(stream)
  <2> HIDE DEF open
  <2>1. QED
    BY <1>3, <1>4 DEF Settling, IdlePull
<1>6. \A m \in Publishers(n) : Immediate(TaskFor(n, m)) =>
        /\ new[m] \in Entry /\ new[m] # Nothing
        /\ new[m].probes = TaskFor(n, m).base /\ new[m].fresh = TaskFor(n, m).fresh
  BY <1>2, Constants DEF Entry
<1>7. \A m \in Nodes : m \notin Publishers(n) \/ ~Immediate(TaskFor(n, m)) => new[m] = view[n][m]
  OBVIOUS
<1>8. new \in [Nodes -> Entry \cup {Nothing}]
  <2>1. \A m \in Nodes : view[n][m] \in Entry \cup {Nothing}
    BY DEF TypeOK
  <2>2. \A m \in Nodes : new[m] \in Entry \cup {Nothing}
    <3> HIDE DEF new
    <3>1. QED
      BY <1>6, <1>7, <2>1
  <2>3. QED
    BY <2>2
<1> HIDE DEF new, r
<1>9. cursor' = [cursor EXCEPT ![n] = cursor[n]] /\ cursor[n] \in 0..StreamLength /\ faults' \in 0..MaxFaults
  BY <1>1 DEF TypeOK
<1>10. TypeOK' /\ Reads(n) /\ pull'[n] = r /\ view'[n] = new
  <2>1. r \in {IdlePull} \cup Settling
    BY <1>5
  <2>2. UNCHANGED <<env, stamp, document, stream, push, lost>>
    BY <1>1
  <2>3. QED
    BY <1>1, <1>8, <1>9, <2>1, <2>2, ReadsStep
<1>11. Tasks(n)' = open
  BY <1>5, <1>10 DEF Tasks
<1>12. \A t \in Tasks(n)' : t.node \in Publishers(n) /\ t = TaskFor(n, t.node) /\ ~Immediate(t)
  BY <1>2, <1>11
<1>13. \A m \in Publishers(n) : ~Immediate(TaskFor(n, m)) => TaskFor(n, m) \in Tasks(n)' /\ view'[n][m] = view[n][m]
  <2>1. \A m \in Publishers(n) : ~Immediate(TaskFor(n, m)) => TaskFor(n, m) \in open
    OBVIOUS
  <2>2. QED
    BY <1>2, <1>7, <1>10, <1>11, <2>1
<1>14. QED
  BY <1>1, <1>5, <1>6, <1>7, <1>10, <1>12, <1>13

\* A fetch of a pull is settled.
LEMMA FetchDoes ==
  ASSUME TypeOK, NEW n \in Nodes, NEW t \in Tasks(n), FetchNode(n, t) \/ FetchProbesById(n, t) \/ FetchFails(n, t)
  PROVE  /\ TypeOK' /\ Reads(n) /\ cursor' = cursor /\ t \in Task
         /\ pull[n] # IdlePull /\ pull'[n] # IdlePull /\ pull'[n].upto = pull[n].upto
         /\ Tasks(n)' = Tasks(n) \ {t}
         /\ \A m \in Nodes : m # t.node => view'[n][m] = view[n][m]
         /\ \/ pull'[n].failed /\ view'[n][t.node] = view[n][t.node]
            \/ /\ pull'[n].failed = pull[n].failed /\ t.whole
               /\ \/ document[t.node] = Nothing /\ view'[n][t.node] = view[n][t.node]
                  \/ /\ document[t.node] # Nothing /\ view'[n][t.node] # Nothing
                     /\ view'[n][t.node].probes = document[t.node].probes
                     /\ view'[n][t.node].fresh = document[t.node].fresh
            \/ /\ pull'[n].failed = pull[n].failed /\ ~t.whole /\ view'[n][t.node] # Nothing
               /\ view'[n][t.node].fresh = t.fresh
               /\ \A p \in Probes : view'[n][t.node].probes[p] =
                    IF p \in t.update /\ document[t.node] # Nothing /\ document[t.node].probes[p] # 0
                    THEN document[t.node].probes[p] ELSE t.base[p]
<1>1. pull[n] # IdlePull /\ pull[n] \in Settling /\ Tasks(n) = pull[n].tasks /\ t \in Task
  BY PullFields DEF Tasks
<1> DEFINE k == t.node
           v == view[n]
           r == [pull[n] EXCEPT !.tasks = pull[n].tasks \ {t}]
           f == [pull[n] EXCEPT !.tasks = pull[n].tasks \ {t}, !.failed = TRUE]
<1>2. k \in Nodes /\ t.base \in ProbesById /\ t.update \subseteq Probes /\ t.fresh \in BOOLEAN
  BY <1>1 DEF Task
<1>3. /\ r \in Settling /\ r # IdlePull /\ r.tasks = Tasks(n) \ {t} /\ r.failed = pull[n].failed /\ r.upto = pull[n].upto
      /\ f \in Settling /\ f # IdlePull /\ f.tasks = Tasks(n) \ {t} /\ f.failed = TRUE /\ f.upto = pull[n].upto
  <2>1. r \in Settling /\ r.tasks = Tasks(n) \ {t} /\ r.failed = pull[n].failed /\ r.upto = pull[n].upto
    BY <1>1 DEF Settling
  <2>2. f \in Settling /\ f.tasks = Tasks(n) \ {t} /\ f.failed = TRUE /\ f.upto = pull[n].upto
    BY <1>1 DEF Settling
  <2> HIDE DEF r, f
  <2>3. QED
    BY <2>1, <2>2 DEF Settling, IdlePull
<1>4. /\ r \in {IdlePull} \cup Settling /\ f \in {IdlePull} \cup Settling
      /\ pull'[n] = r => /\ pull'[n] # IdlePull /\ Tasks(n)' = Tasks(n) \ {t}
                         /\ pull'[n].upto = pull[n].upto /\ pull'[n].failed = pull[n].failed
      /\ pull'[n] = f => /\ pull'[n] # IdlePull /\ Tasks(n)' = Tasks(n) \ {t}
                         /\ pull'[n].upto = pull[n].upto /\ pull'[n].failed = TRUE
  <2> HIDE DEF r, f
  <2>1. QED
    BY <1>3 DEF Tasks
<1>5. v \in [Nodes -> Entry \cup {Nothing}] /\ document \in [Nodes -> Document \cup {Nothing}]
  BY DEF TypeOK
<1>6. cursor[n] \in 0..StreamLength /\ cursor = [cursor EXCEPT ![n] = cursor[n]] /\ view = [view EXCEPT ![n] = v]
  BY DEF TypeOK
<1>7. UNCHANGED <<env, stamp, document, stream, push, lost>> /\ cursor' = cursor
  BY DEF FetchNode, FetchProbesById, FetchFails, TakeTask
<1>a. cursor' = [cursor EXCEPT ![n] = cursor[n]] /\ cursor[n] \in 0..StreamLength
  BY <1>6, <1>7
<1>b. UNCHANGED <<env, stamp, document, stream, push, lost>>
  BY <1>7
<1>8. CASE FetchFails(n, t)
  <2>1. pull' = [pull EXCEPT ![n] = f] /\ view' = view /\ faults < MaxFaults /\ faults' = faults + 1
    <3>1. pull \in [Nodes -> {IdlePull} \cup Settling]
      BY DEF TypeOK
    <3>2. pull' = [pull EXCEPT ![n].tasks = @ \ {t}, ![n].failed = TRUE]
      BY <1>8 DEF FetchFails
    <3>3. QED
      BY <1>8, <3>1, <3>2 DEF FetchFails, Fault
  <2>2. faults' \in 0..MaxFaults
    BY <2>1, Constants DEF TypeOK
  <2> HIDE DEF f, r, v
  <2>3. TypeOK' /\ Reads(n) /\ pull'[n] = f /\ view'[n] = v
    <3>1. f \in {IdlePull} \cup Settling
      BY <1>4
    <3>2. v \in [Nodes -> Entry \cup {Nothing}] /\ view' = [view EXCEPT ![n] = v] /\ pull' = [pull EXCEPT ![n] = f]
      BY <1>5, <1>6, <2>1
    <3>3. QED
      BY <1>a, <1>b, <2>2, <3>1, <3>2, ReadsStep
  <2>4. QED
    BY <1>1, <1>4, <1>7, <2>3 DEF v
<1>9. CASE FetchNode(n, t)
  <2> DEFINE D == document[k]
             e == [probes |-> D.probes, fresh |-> D.fresh]
  <2>1. D # Nothing => e \in Entry /\ e # Nothing /\ e.probes = D.probes /\ e.fresh = D.fresh
    <3>1. D # Nothing => D \in Document
      BY <1>2, <1>5
    <3>2. D # Nothing => e \in Entry
      BY <3>1 DEF Document, Entry
    <3>3. QED
      BY <3>2, Constants
  <2>2. /\ pull' = [pull EXCEPT ![n] = r] /\ faults' = faults /\ t.whole
        /\ view' = [view EXCEPT ![n] = [v EXCEPT ![k] = IF D = Nothing THEN v[k] ELSE e]]
    BY <1>9 DEF FetchNode
  <2> DEFINE V == [v EXCEPT ![k] = IF D = Nothing THEN v[k] ELSE e]
  <2> HIDE DEF e, D, r, f, v
  <2>3. /\ V \in [Nodes -> Entry \cup {Nothing}] /\ V[k] = (IF D = Nothing THEN v[k] ELSE e)
        /\ \A m \in Nodes : m # k => V[m] = v[m]
    BY <1>2, <1>5, <2>1
  <2>4. faults' \in 0..MaxFaults
    BY <2>2 DEF TypeOK
  <2> HIDE DEF V
  <2>5. view' = [view EXCEPT ![n] = V]
    BY <2>2 DEF V
  <2>6. TypeOK' /\ Reads(n) /\ pull'[n] = r /\ view'[n] = V
    <3>1. r \in {IdlePull} \cup Settling
      BY <1>4
    <3>2. V \in [Nodes -> Entry \cup {Nothing}] /\ view' = [view EXCEPT ![n] = V] /\ pull' = [pull EXCEPT ![n] = r]
      BY <2>2, <2>3, <2>4, <2>5
    <3>3. faults' \in 0..MaxFaults
      BY <2>2, <2>3, <2>4, <2>5
    <3>4. QED
      BY <1>a, <1>b, <3>1, <3>2, <3>3, ReadsStep
  <2>7. \A m \in Nodes : m # k => view'[n][m] = view[n][m]
    BY <2>3, <2>6 DEF v
  <2>8. \/ D = Nothing /\ view'[n][k] = view[n][k]
        \/ /\ D # Nothing /\ view'[n][k] # Nothing
           /\ view'[n][k].probes = D.probes /\ view'[n][k].fresh = D.fresh
    BY <2>1, <2>3, <2>6 DEF v
  <2>9. QED
    BY <1>1, <1>4, <1>7, <2>2, <2>6, <2>7, <2>8 DEF D
<1>10. CASE FetchProbesById(n, t)
  <2> DEFINE D == document[k]
             e == [probes |-> Patched(t), fresh |-> t.fresh]
             New(p) == IF p \in t.update /\ D # Nothing /\ D.probes[p] # 0 THEN D.probes[p] ELSE t.base[p]
  <2>1. Patched(t) \in ProbesById /\ \A p \in Probes : Patched(t)[p] = New(p)
    <3>1. D # Nothing => D.probes \in ProbesById
      BY <1>2, <1>5 DEF Document
    <3>2. \A p \in t.update : RemoteProbes(k, t.update)[p] = IF D = Nothing THEN 0 ELSE D.probes[p]
      BY DEF RemoteProbes
    <3>3. Patched(t) = [p \in Probes |-> IF p \in t.update /\ RemoteProbes(k, t.update)[p] # 0
                                         THEN RemoteProbes(k, t.update)[p] ELSE t.base[p]]
      BY DEF Patched
    <3> HIDE DEF D, k
    <3>4. \A p \in Probes : Patched(t)[p] = New(p)
      BY <3>2, <3>3
    <3>5. \A p \in Probes : New(p) \in Versions
      BY <1>2, <3>1 DEF ProbesById
    <3>6. QED
      BY <3>3, <3>4, <3>5 DEF ProbesById
  <2>2. e \in Entry /\ e # Nothing /\ e.probes = Patched(t) /\ e.fresh = t.fresh
    <3>1. e \in Entry
      BY <1>2, <2>1 DEF Entry
    <3>2. QED
      BY <3>1, Constants
  <2>3. /\ pull' = [pull EXCEPT ![n] = r] /\ faults' = faults /\ ~t.whole
        /\ view' = [view EXCEPT ![n] = [v EXCEPT ![k] = e]]
    BY <1>10 DEF FetchProbesById
  <2> DEFINE V == [v EXCEPT ![k] = e]
  <2> HIDE DEF e, D, r, f, v
  <2>4. V \in [Nodes -> Entry \cup {Nothing}] /\ V[k] = e /\ \A m \in Nodes : m # k => V[m] = v[m]
    BY <1>2, <1>5, <2>2
  <2>5. faults' \in 0..MaxFaults
    BY <2>3 DEF TypeOK
  <2> HIDE DEF V
  <2>6. view' = [view EXCEPT ![n] = V]
    BY <2>3 DEF V
  <2>7. TypeOK' /\ Reads(n) /\ pull'[n] = r /\ view'[n] = V
    <3>1. r \in {IdlePull} \cup Settling
      BY <1>4
    <3>2. V \in [Nodes -> Entry \cup {Nothing}] /\ view' = [view EXCEPT ![n] = V] /\ pull' = [pull EXCEPT ![n] = r]
      BY <2>3, <2>4, <2>5, <2>6
    <3>3. faults' \in 0..MaxFaults
      BY <2>3, <2>4, <2>5, <2>6
    <3>4. QED
      BY <1>a, <1>b, <3>1, <3>2, <3>3, ReadsStep
  <2>8. \A m \in Nodes : m # k => view'[n][m] = view[n][m]
    BY <2>4, <2>7 DEF v
  <2>9. view'[n][k] # Nothing /\ view'[n][k].fresh = t.fresh /\ \A p \in Probes : view'[n][k].probes[p] = New(p)
    BY <2>1, <2>2, <2>4, <2>7
  <2>10. QED
    BY <1>1, <1>4, <1>7, <2>3, <2>7, <2>8, <2>9 DEF D
<1>11. QED
  BY <1>8, <1>9, <1>10

\* A pull ends, and its node goes on where it has read to, unless a fetch has failed.
LEMMA FinishPullDoes ==
  ASSUME TypeOK, NEW n \in Nodes, FinishPull(n)
  PROVE  /\ TypeOK' /\ Reads(n) /\ view' = view
         /\ pull[n] # IdlePull /\ Tasks(n) = {} /\ pull'[n] = IdlePull /\ Tasks(n)' = {}
         /\ cursor'[n] = IF pull[n].failed THEN cursor[n] ELSE pull[n].upto
<1>1. pull[n] # IdlePull /\ pull[n].upto \in 0..StreamLength /\ Tasks(n) = {}
  BY PullFields DEF FinishPull
<1> DEFINE c == IF pull[n].failed THEN cursor[n] ELSE pull[n].upto
<1>2. c \in 0..StreamLength /\ view[n] \in [Nodes -> Entry \cup {Nothing}] /\ view = [view EXCEPT ![n] = view[n]]
  BY <1>1 DEF TypeOK
<1>3. /\ cursor' = [cursor EXCEPT ![n] = c] /\ pull' = [pull EXCEPT ![n] = IdlePull]
      /\ UNCHANGED <<env, caches, document, stream, push, faults, lost>>
  BY DEF FinishPull
<1>4. faults' \in 0..MaxFaults /\ UNCHANGED <<stamp, view>>
  BY <1>3 DEF TypeOK, caches
<1> HIDE DEF c
<1>5. TypeOK' /\ Reads(n) /\ pull'[n] = IdlePull /\ cursor'[n] = c
  BY <1>2, <1>3, <1>4, ReadsStep
<1>6. QED
  BY <1>1, <1>4, <1>5 DEF Tasks, c

\* The probes go on, and somebody asks for their list.
LEMMA EnvStepDoes ==
  ASSUME TypeOK, EnvStep
  PROVE  /\ TypeOK' /\ UNCHANGED <<caches, document, stream, cursor, push, pull, faults, lost>>
         /\ \A p \in Probes : \/ stage'[p] = stage[p] /\ home'[p] = home[p]
                              \/ stage[p] = 0 /\ stage'[p] = 1 /\ home'[p] \in Nodes
                              \/ /\ stage[p] \in 1..MaxVersion /\ stage'[p] \in 1..Gone /\ stage[p] < stage'[p]
                                 /\ home'[p] = home[p]
         /\ \/ asked' = asked
            \/ asked = Nothing /\ asked' = stage /\ stage' = stage /\ home' = home
<1>1. UNCHANGED <<caches, document, stream, cursor, push, pull, faults, lost>>
  BY DEF EnvStep, FetchProbes, Advance, Connect
<1>2. stage \in [Probes -> 0..Gone] /\ home \in [Probes -> Nodes \cup {Nothing}] /\ 1 \in 0..Gone
  BY Constants DEF TypeOK
<1>3. SUFFICES
        /\ stage' \in [Probes -> 0..Gone] /\ home' \in [Probes -> Nodes \cup {Nothing}]
        /\ asked' \in [Probes -> 0..Gone] \cup {Nothing}
        /\ \A p \in Probes : \/ stage'[p] = stage[p] /\ home'[p] = home[p]
                             \/ stage[p] = 0 /\ stage'[p] = 1 /\ home'[p] \in Nodes
                             \/ /\ stage[p] \in 1..MaxVersion /\ stage'[p] \in 1..Gone /\ stage[p] < stage'[p]
                                /\ home'[p] = home[p]
        /\ \/ asked' = asked
           \/ asked = Nothing /\ asked' = stage /\ stage' = stage /\ home' = home
  BY <1>1 DEF TypeOK, caches
<1>4. CASE FetchProbes
  BY <1>2, <1>4 DEF FetchProbes
<1>5. ASSUME NEW p \in Probes, NEW n \in Hosts, Connect(p, n)
      PROVE  /\ stage' \in [Probes -> 0..Gone] /\ home' \in [Probes -> Nodes \cup {Nothing}] /\ asked' = asked
             /\ stage[p] = 0 /\ stage'[p] = 1 /\ home'[p] \in Nodes
             /\ \A q \in Probes : q # p => stage'[q] = stage[q] /\ home'[q] = home[q]
  BY <1>2, <1>5, Constants DEF Connect
<1>6. ASSUME NEW p \in Probes, Advance(p)
      PROVE  /\ stage' \in [Probes -> 0..Gone] /\ home' = home /\ asked' = asked
             /\ stage[p] \in 1..MaxVersion /\ stage'[p] \in 1..Gone /\ stage[p] < stage'[p]
             /\ \A q \in Probes : q # p => stage'[q] = stage[q]
  <2>1. \E s \in 1..Gone : stage' = [stage EXCEPT ![p] = s] /\ stage[p] < s
    <3>1. /\ stage[p] \in 1..MaxVersion
          /\ stage' = [stage EXCEPT ![p] = stage[p] + 1] \/ stage' = [stage EXCEPT ![p] = Gone]
      BY <1>6 DEF Advance
    <3>2. stage[p] + 1 \in 1..Gone /\ stage[p] < stage[p] + 1 /\ Gone \in 1..Gone /\ stage[p] < Gone
      BY <3>1, Constants
    <3>3. QED
      BY <3>1, <3>2
  <2>2. QED
    BY <1>2, <1>6, <2>1, Constants DEF Advance
<1>7. asked' = asked => asked' \in [Probes -> 0..Gone] \cup {Nothing}
  BY DEF TypeOK
<1>8. CASE \E p \in Probes, n \in Hosts : Connect(p, n)
  BY <1>5, <1>7, <1>8
<1>9. CASE \E p \in Probes : Advance(p)
  BY <1>2, <1>6, <1>7, <1>9
<1>10. QED
  BY <1>4, <1>8, <1>9 DEF EnvStep

\* Every step keeps the types.
LEMMA TypeStep == TypeOK /\ [Next]_vars => TypeOK'
<1> SUFFICES ASSUME TypeOK, [Next]_vars PROVE TypeOK'
  OBVIOUS
<1> USE Constants
<1>1. CASE UNCHANGED vars
  BY <1>1 DEF vars, env, caches, TypeOK
<1>2. CASE EnvStep
  BY <1>2, EnvStepDoes
<1>3. ASSUME NEW w \in Hosts, PushReload(w) \/ PushDiff(w) PROVE TypeOK'
  BY <1>3, PushChangeDoes
<1>4. ASSUME NEW w \in Hosts, PushAlive(w) PROVE TypeOK'
  BY <1>4, PushAliveDoes
<1>5. ASSUME NEW w \in Hosts, PushRefresh(w) PROVE TypeOK'
  BY <1>5, PushRefreshDoes
<1>6. ASSUME NEW w \in Hosts, WriteDocument(w) PROVE TypeOK'
  BY <1>6, WriteDocumentDoes
<1>7. ASSUME NEW w \in Hosts, PushFails(w) \/ LoseEvent(w) PROVE TypeOK'
  BY <1>7, PushEndsDoes
<1>8. ASSUME NEW w \in Hosts, Publish(w) PROVE TypeOK'
  BY <1>8, PublishDoes
<1>9. ASSUME NEW w \in Hosts, Evict(w) PROVE TypeOK'
  BY <1>9, EvictDoes
<1>10. ASSUME NEW n \in Readers, StartPull(n) PROVE TypeOK'
  BY <1>10, StartPullDoes
<1>11. ASSUME NEW n \in Readers, NEW t \in Tasks(n), FetchNode(n, t) \/ FetchProbesById(n, t) \/ FetchFails(n, t)
       PROVE  TypeOK'
  BY <1>11, FetchDoes
<1>12. ASSUME NEW n \in Readers, FinishPull(n) PROVE TypeOK'
  BY <1>12, FinishPullDoes
<1>13. ASSUME NEW n \in Nodes, NEW m \in Nodes, Expire(n, m) PROVE TypeOK'
  BY <1>13, ExpireDoes
<1>14. QED
  BY <1>1, <1>2, <1>3, <1>4, <1>5, <1>6, <1>7, <1>8, <1>9, <1>10, <1>11, <1>12, <1>13
     DEF Next, PushStep, PullStep

\* Nothing has happened yet.
LEMMA InitType == Init => TypeOK
<1> SUFFICES ASSUME Init PROVE TypeOK
  OBVIOUS
<1>1. 0 \in 0..Gone /\ 0 \in 0..StreamLength /\ 0 \in 0..MaxFaults /\ 0 \in 0..2 /\ 0 <= StreamLength
  BY Constants
<1>2. stream = <<>> /\ <<>> \in Seq(Event) /\ Len(<<>>) = 0
  BY DEF Init
<1>3. QED
  BY <1>1, <1>2 DEF Init, TypeOK

-------------------------------------------------------------------------------
(* Events and lists *)

\* What is announced after a later position is announced after an earlier one.
LEMMA EventsShrink ==
  ASSUME TypeOK, NEW m \in Nodes, NEW i \in Nat, NEW j \in Nat, i <= j
  PROVE  /\ Published(m, j) \subseteq Published(m, i) /\ Events(m, j) \subseteq Events(m, i)
         /\ RemovedBy(Events(m, j)) \subseteq RemovedBy(Events(m, i))
         /\ Touched(Events(m, j)) \subseteq Touched(Events(m, i))
         /\ i # 0 /\ Open(m, i) => Open(m, j)
<1>1. Len(stream) \in Nat
  BY DEF TypeOK
<1>2. \A k \in (j + 1)..Len(stream) : k \in (i + 1)..Len(stream)
  BY <1>1
<1>3. Published(m, j) \subseteq Published(m, i) /\ Events(m, j) \subseteq Events(m, i)
  BY <1>2 DEF Published, Events
<1>4. QED
  BY <1>3 DEF RemovedBy, UpdatedBy, Touched, Open, Reloads

\* Events are about probes.
LEMMA TouchedType ==
  ASSUME TypeOK, NEW m \in Nodes, NEW i \in Nat
  PROVE  RemovedBy(Events(m, i)) \subseteq Probes /\ Touched(Events(m, i)) \subseteq Probes
<1>1. \A k \in 1..Len(stream) : stream[k] \in Event
  BY DEF TypeOK
<1>2. Len(stream) \in Nat
  BY DEF TypeOK
<1>3. Published(m, i) \subseteq Event
  BY <1>1, <1>2 DEF Published
<1>4. Pending(m) \subseteq Event
  BY PushFields DEF Pending
<1>5. \A e \in Events(m, i) : e.remove \subseteq Probes /\ e.update \subseteq Probes
  BY <1>3, <1>4 DEF Events, Event
<1>6. QED
  BY <1>5 DEF Touched, RemovedBy, UpdatedBy

\* A list that is right up to an event is right up to an earlier one.
LEMMA RightToEarlier ==
  ASSUME TypeOK, NEW m \in Nodes, NEW i \in Nat, NEW j \in Nat, i <= j, NEW l, RightTo(l, m, j)
  PROVE  RightTo(l, m, i)
<1>1. Open(m, i) => i # 0 /\ Open(m, j)
  BY EventsShrink DEF Open
<1>2. QED
  BY <1>1, EventsShrink DEF RightTo

\* Nothing announces changes other than the events.
LEMMA TouchedParts ==
  ASSUME NEW m, NEW i
  PROVE  /\ Touched(Events(m, i)) = Touched(Published(m, i)) \cup Touched(Pending(m))
         /\ RemovedBy(Events(m, i)) = RemovedBy(Published(m, i)) \cup RemovedBy(Pending(m))
         /\ Reloads(Events(m, i)) <=> Reloads(Published(m, i)) \/ Reloads(Pending(m))
BY DEF Events, Touched, RemovedBy, UpdatedBy, Reloads

\* Of a node that readers can follow, the document is right but for what it is going to announce.
LEMMA DocumentSound ==
  ASSUME TypeOK, NEW m \in Nodes, PushInv(m), NEW i, Open(m, i)
  PROVE  /\ document[m] # Nothing
         /\ \A p \in Probes : document[m].probes[p] = Target(m)[p] \/ p \in Touched(Events(m, i))
<1>1. lost # "unnoticed" /\ (IsWriting(m) \/ StampsMatch(m)) /\ ~Reloads(Pending(m))
  BY TouchedParts DEF Open
<1>2. CASE IsWriting(m)
  <2>1. ~push[m].event.reload
    BY <1>1, <1>2, PushFields DEF Reloads, Pending
  <2>2. document[m] # Nothing /\ \A p \in Probes : p \in Touched(Pending(m)) \/ document[m].probes[p] = push[m].data.probes[p]
    BY <1>1, <1>2, <2>1 DEF PushInv
  <2>3. QED
    BY <1>2, <2>2, TouchedParts DEF Target
<1>3. CASE ~IsWriting(m)
  <2>1. StampsMatch(m) /\ document[m].probes = view[m][m].probes
    BY <1>1, <1>3 DEF PushInv
  <2>2. document[m] # Nothing
    BY <2>1, Constants DEF StampsMatch, RemoteStamp, TypeOK
  <2>3. QED
    BY <1>3, <2>1, <2>2 DEF Target
<1>4. QED
  BY <1>2, <1>3

\* From position i to position j of the next state, what m announces accounts for its changes.
Carried(m, i, j) ==
  Open(m, j)' => /\ Open(m, i)
                 /\ \A p \in Probes : \/ p \in Touched(Events(m, j))'
                                      \/ p \notin Touched(Events(m, i)) /\ Target(m)'[p] = Target(m)[p]

\* Then lists and tasks stay right.
LEMMA CarriedRight ==
  ASSUME NEW m, NEW i, NEW j, Carried(m, i, j)
  PROVE  /\ \A l : RightTo(l, m, i) => RightTo(l, m, j)'
         /\ \A t : t.node = m /\ TaskRight(t, i) => TaskRight(t, j)'
BY DEF Carried, RightTo, TaskRight

\* The lists of m that are not in the hands of readers.
OwnLists(m) ==
  /\ view[m][m] # Nothing => Lists(view[m][m].probes, m)
  /\ document[m] # Nothing => Lists(document[m].probes, m)
  /\ IsWriting(m) => Lists(push[m].data.probes, m)

\* A step of w's push, of which the readers learn only through the events.
LEMMA WriterStep ==
  ASSUME TypeOK, SyncInv, NEW w \in Nodes, Writes(w),
         \A i \in 0..StreamLength : Carried(w, i, i),
         PushInv(w)', EventInv(w)', OwnLists(w)'
  PROVE  SyncInv'
<1>1. \A m \in Nodes \ {w} : /\ push'[m] = push[m] /\ document'[m] = document[m] /\ stamp'[m] = stamp[m]
                             /\ view'[m][m] = view[m][m]
  BY DEF Writes
<1>2. /\ stage' = stage /\ home' = home /\ stream' = stream /\ cursor' = cursor /\ pull' = pull
      /\ \A n \in Nodes : Tasks(n)' = Tasks(n)
      /\ \A m, i : Published(m, i)' = Published(m, i)
      /\ lost' # "unnoticed" => lost # "unnoticed"
  BY DEF Writes, env, Tasks, Published
<1>3. \A m \in Nodes \ {w} :
        /\ IsWriting(m)' <=> IsWriting(m)
        /\ StampsMatch(m)' <=> StampsMatch(m)
        /\ Target(m)' = Target(m) /\ Pending(m)' = Pending(m)
  BY <1>1 DEF IsWriting, StampsMatch, RemoteStamp, Target, Pending
<1>4. \A m \in Nodes \ {w} : \A i : Events(m, i)' = Events(m, i) /\ (Open(m, i)' => Open(m, i))
  BY <1>2, <1>3 DEF Events, Open
<1>5. \A m \in Nodes, i \in 0..StreamLength : Carried(m, i, i)
  BY <1>3, <1>4 DEF Carried
<1>6. \A m \in Nodes \ {w} : PushInv(m)'
  <2> SUFFICES ASSUME NEW m \in Nodes \ {w} PROVE PushInv(m)'
    OBVIOUS
  <2>1. PushInv(m)
    BY DEF SyncInv
  <2>2. QED
    BY <1>1, <1>2, <1>3, <2>1 DEF PushInv
<1>7. \A m \in Nodes \ {w} : EventInv(m)'
  <2> SUFFICES ASSUME NEW m \in Nodes \ {w} PROVE EventInv(m)'
    OBVIOUS
  <2>1. EventInv(m)
    BY DEF SyncInv
  <2>2. QED
    BY <1>2, <1>3, <1>4, <2>1 DEF EventInv
<1>8. \A m \in Nodes : ListInv(m)'
  <2> SUFFICES ASSUME NEW m \in Nodes PROVE ListInv(m)'
    OBVIOUS
  <2>1. ListInv(m)
    BY DEF SyncInv
  <2>2. \A l : Lists(l, m)' <=> Lists(l, m)
    BY <1>2 DEF Lists
  <2>3. OwnLists(m)'
    BY <1>1, <1>3, <2>1, <2>2 DEF OwnLists, ListInv
  <2>4. \A n \in Nodes \ {m} : view'[n][m] = view[n][m]
    BY DEF Writes
  <2>5. QED
    BY <1>2, <2>1, <2>2, <2>3, <2>4 DEF ListInv, OwnLists
<1>9. \A n, m \in Nodes : ReadInv(n, m)'
  <2> SUFFICES ASSUME NEW n \in Nodes, NEW m \in Nodes PROVE ReadInv(n, m)'
    OBVIOUS
  <2>1. ReadInv(n, m)
    BY DEF SyncInv
  <2>2. n # m => view'[n][m] = view[n][m]
    BY DEF Writes
  <2>3. \A i \in 0..StreamLength : /\ \A l : RightTo(l, m, i) => RightTo(l, m, i)'
                                   /\ \A t : t.node = m /\ TaskRight(t, i) => TaskRight(t, i)'
    BY <1>5, CarriedRight
  <2>4. cursor[n] \in 0..StreamLength /\ (pull[n] # IdlePull => pull[n].upto \in 0..StreamLength)
    BY PullFields DEF TypeOK
  <2>5. pull[n] = IdlePull => Tasks(n) = {}
    BY DEF Tasks
  <2>6. QED
    BY <1>2, <2>1, <2>2, <2>3, <2>4, <2>5 DEF ReadInv
<1>10. QED
  BY <1>6, <1>7, <1>8, <1>9 DEF SyncInv

\* A step of n's pull, of which only n's lists of other nodes' probes learn.
LEMMA ReaderStep ==
  ASSUME TypeOK, SyncInv, NEW n \in Nodes, Reads(n), view'[n][n] = view[n][n],
         \A m \in Nodes : /\ ReadInv(n, m)'
                          /\ view'[n][m] # Nothing => Lists(view'[n][m].probes, m)
                          /\ \A t \in Tasks(n)' : t.node = m => Lists(t.base, m)
  PROVE  SyncInv'
<1>1. /\ stage' = stage /\ home' = home /\ stream' = stream /\ stamp' = stamp /\ document' = document /\ push' = push
      /\ lost' = lost /\ \A k \in Nodes \ {n} : pull'[k] = pull[k] /\ cursor'[k] = cursor[k] /\ Tasks(k)' = Tasks(k)
      /\ \A k, m \in Nodes : k # n \/ m = n => view'[k][m] = view[k][m]
  BY DEF Reads, env
<1>2. \A m \in Nodes :
        /\ IsWriting(m)' <=> IsWriting(m)
        /\ StampsMatch(m)' <=> StampsMatch(m)
        /\ Target(m)' = Target(m) /\ Pending(m)' = Pending(m) /\ view'[m][m] = view[m][m]
  BY <1>1 DEF IsWriting, StampsMatch, RemoteStamp, Target, Pending
<1>3. \A m \in Nodes : \A i : /\ Published(m, i)' = Published(m, i) /\ Events(m, i)' = Events(m, i)
                              /\ Open(m, i)' <=> Open(m, i)
  BY <1>1, <1>2 DEF Published, Events, Open
<1>4. \A m \in Nodes : PushInv(m)' /\ EventInv(m)'
  <2> SUFFICES ASSUME NEW m \in Nodes PROVE PushInv(m)' /\ EventInv(m)'
    OBVIOUS
  <2>1. PushInv(m) /\ EventInv(m)
    BY DEF SyncInv
  <2>2. PushInv(m)'
    BY <1>1, <1>2, <2>1 DEF PushInv
  <2>3. EventInv(m)'
    BY <1>1, <1>2, <1>3, <2>1 DEF EventInv
  <2>4. QED
    BY <2>2, <2>3
<1>5. \A m \in Nodes : ListInv(m)'
  <2> SUFFICES ASSUME NEW m \in Nodes PROVE ListInv(m)'
    OBVIOUS
  <2>1. ListInv(m)
    BY DEF SyncInv
  <2>2. \A l : Lists(l, m)' <=> Lists(l, m)
    BY <1>1 DEF Lists
  <2>3. QED
    BY <1>1, <1>2, <2>1, <2>2 DEF ListInv
<1>6. \A k \in Nodes \ {n}, m \in Nodes : ReadInv(k, m)'
  <2> SUFFICES ASSUME NEW k \in Nodes \ {n}, NEW m \in Nodes PROVE ReadInv(k, m)'
    OBVIOUS
  <2>1. ReadInv(k, m)
    BY DEF SyncInv
  <2>2. \A i : /\ \A l : RightTo(l, m, i)' <=> RightTo(l, m, i)
               /\ \A t : t.node = m => (TaskRight(t, i)' <=> TaskRight(t, i))
    BY <1>2, <1>3 DEF RightTo, TaskRight
  <2>3. QED
    BY <1>1, <1>3, <2>1, <2>2 DEF ReadInv
<1>7. QED
  BY <1>4, <1>5, <1>6 DEF SyncInv

-------------------------------------------------------------------------------
(* Pushes *)

\* The probes of a node are those that have connected to it and not gone.
LEMMA LocalLists ==
  ASSUME TypeOK, NEW w \in Nodes
  PROVE  /\ Lists(Local(w), w)
         /\ \A p \in Probes : /\ stage[p] = Gone => Local(w)[p] = 0
                              /\ home[p] = w /\ stage[p] # 0 /\ Local(w)[p] = 0 => stage[p] = Gone
BY DEF Lists, Local

\* What the diff of a push announces.
LEMMA DiffRight ==
  ASSUME TypeOK, NEW w \in Nodes
  PROVE  /\ DiffEvent(w).node = w /\ ~DiffEvent(w).reload
         /\ DiffEvent(w).remove = Removed(w) /\ DiffEvent(w).update = Updated(w)
         /\ \A p \in Probes : p \in Removed(w) \cup Updated(w) \/ Local(w)[p] = view[w][w].probes[p]
         /\ IsKeepAlive(DiffEvent(w)) <=> Unchanged(w)
         /\ Unchanged(w) /\ StampsMatch(w) => Local(w) = view[w][w].probes
<1>1. /\ DiffEvent(w).node = w /\ ~DiffEvent(w).reload
      /\ DiffEvent(w).remove = Removed(w) /\ DiffEvent(w).update = Updated(w)
  BY DEF DiffEvent
<1>2. \A p \in Probes : p \in Removed(w) \cup Updated(w) \/ Local(w)[p] = view[w][w].probes[p]
  BY DEF Removed, Updated
<1>3. Unchanged(w) /\ StampsMatch(w) => Local(w) = view[w][w].probes
  <2> SUFFICES ASSUME Unchanged(w), StampsMatch(w) PROVE Local(w) = view[w][w].probes
    OBVIOUS
  <2>1. \A p \in Probes : Local(w)[p] = view[w][w].probes[p]
    BY <1>2 DEF Unchanged
  <2>2. view[w][w].probes \in ProbesById
    BY DEF TypeOK, Entry, StampsMatch
  <2>3. QED
    BY <2>1, <2>2, LocalType DEF ProbesById
<1>4. QED
  BY <1>1, <1>2, <1>3 DEF IsKeepAlive, Unchanged

\* What the events of w come to when its push takes up or gives up one.
LEMMA PendingParts ==
  ASSUME NEW w
  PROVE  /\ push[w] = IdlePush => /\ Pending(w) = {} /\ Touched(Pending(w)) = {} /\ RemovedBy(Pending(w)) = {}
                                  /\ UpdatedBy(Pending(w)) = {} /\ ~Reloads(Pending(w))
         /\ push[w] # IdlePush => /\ Touched(Pending(w)) = push[w].event.remove \cup push[w].event.update
                                  /\ RemovedBy(Pending(w)) = push[w].event.remove
                                  /\ UpdatedBy(Pending(w)) = push[w].event.update
                                  /\ Reloads(Pending(w)) <=> push[w].event.reload
BY DEF Pending, Touched, RemovedBy, UpdatedBy, Reloads

\* The events of w in the stream stay when its push takes a step.
LEMMA WriterEvents ==
  ASSUME NEW w, Writes(w)
  PROVE  /\ stage' = stage /\ home' = home /\ stream' = stream
         /\ \A i : /\ Published(w, i)' = Published(w, i)
                   /\ Touched(Events(w, i))' = Touched(Published(w, i)) \cup Touched(Pending(w))'
                   /\ RemovedBy(Events(w, i))' = RemovedBy(Published(w, i)) \cup RemovedBy(Pending(w))'
                   /\ Reloads(Events(w, i))' <=> Reloads(Published(w, i)) \/ Reloads(Pending(w))'
<1>1. stage' = stage /\ home' = home /\ stream' = stream
  BY DEF Writes, env
<1>2. \A i : Published(w, i)' = Published(w, i)
  BY <1>1 DEF Published
<1>3. QED
  BY <1>1, <1>2 DEF Events, Touched, RemovedBy, UpdatedBy, Reloads

\* When a list of its probes is written or becomes its own, w still lists only its probes.
LEMMA OwnListsStep ==
  ASSUME TypeOK, SyncInv, NEW w \in Nodes, Writes(w),
         view'[w][w] # Nothing => view'[w][w].probes = Local(w) \/ view'[w][w] = view[w][w]
                                  \/ (IsWriting(w) /\ view'[w][w].probes = push[w].data.probes),
         document'[w] # Nothing => document'[w] = document[w] \/ (IsWriting(w) /\ document'[w] = push[w].data),
         IsWriting(w)' => push'[w].data.probes = Local(w) \/ (IsWriting(w) /\ push'[w] = push[w])
  PROVE  OwnLists(w)'
<1>1. ListInv(w)
  BY DEF SyncInv
<1>2. \A l : Lists(l, w)' <=> Lists(l, w)
  BY WriterEvents DEF Lists
<1>3. Lists(Local(w), w)
  BY LocalLists
<1>4. QED
  BY <1>1, <1>2, <1>3 DEF OwnLists, ListInv

\* A reload is announced, with the first document or one that has been lost.
LEMMA PushReloadStep ==
  ASSUME TypeOK, SyncInv, NEW w \in Hosts, PushReload(w)
  PROVE  SyncInv'
<1>1. w \in Nodes
  BY Constants
<1>2. /\ TypeOK' /\ Writes(w) /\ push[w] = IdlePush /\ document' = document /\ lost' = lost
      /\ view'[w][w] # Nothing /\ view'[w][w].probes = Local(w) /\ stamp'[w] = NewStamp(w)
      /\ push'[w].state = "writing" /\ push'[w].data = SnapshotOf(w) /\ push'[w].event.node = w /\ IsWriting(w)'
      /\ push'[w].event.reload /\ push'[w].event.remove = {} /\ push'[w].event.update = {}
  <2>1. ~StampsMatch(w)
    BY DEF PushReload
  <2>2. QED
    BY <2>1, PushChangeDoes
<1>3. push'[w] # IdlePush
  BY <1>2 DEF IdlePush
<1>4. push'[w].data.probes = Local(w) /\ push'[w].data.stamp = stamp'[w]
  BY <1>1, <1>2, SnapshotType
<1>5. ~StampsMatch(w)'
  BY <1>1, <1>2, NewStampRight, Constants DEF StampsMatch, RemoteStamp
<1>6. Reloads(Pending(w))' /\ RemovedBy(Pending(w))' = {} /\ UpdatedBy(Pending(w))' = {}
  BY <1>2, <1>3 DEF Pending, RemovedBy, UpdatedBy, Reloads
<1>7. \A i : /\ ~Open(w, i)' /\ RemovedBy(Events(w, i))' \subseteq RemovedBy(Events(w, i))
  BY <1>2, <1>6, WriterEvents, TouchedParts DEF Open
<1>8. \A i \in 0..StreamLength : Carried(w, i, i)
  BY <1>7 DEF Carried
<1>9. stage' = stage /\ home' = home
  BY <1>2 DEF Writes, env
<1>10. PushInv(w)'
  BY <1>2, <1>3, <1>4, <1>5 DEF PushInv, IsKeepAlive
<1>11. EventInv(w)'
  <2>1. EventInv(w)
    BY <1>1 DEF SyncInv
  <2>2. Target(w)' = Local(w)
    BY <1>2, <1>4 DEF Target
  <2>3. \A p \in RemovedBy(Events(w, 0))' : p \in Probes => stage'[p] = Gone /\ Target(w)'[p] = 0
    BY <1>1, <1>7, <1>9, <2>1, <2>2, LocalLists DEF EventInv
  <2>4. RemovedBy(Events(w, 0))' \subseteq Probes
    BY <1>1, <1>7, TouchedType
  <2>5. QED
    BY <1>6, <1>7, <2>3, <2>4 DEF EventInv
<1>12. OwnLists(w)'
  BY <1>1, <1>2, <1>4, OwnListsStep
<1>13. QED
  BY <1>1, <1>2, <1>8, <1>10, <1>11, <1>12, WriterStep

\* A change is announced.
LEMMA PushDiffStep ==
  ASSUME TypeOK, SyncInv, NEW w \in Hosts, PushDiff(w)
  PROVE  SyncInv'
<1>1. w \in Nodes
  BY Constants
<1>2. /\ TypeOK' /\ Writes(w) /\ push[w] = IdlePush /\ document' = document /\ lost' = lost
      /\ view'[w][w] # Nothing /\ view'[w][w].probes = Local(w) /\ stamp'[w] = NewStamp(w)
      /\ push'[w].state = "writing" /\ push'[w].data = SnapshotOf(w) /\ IsWriting(w)'
      /\ StampsMatch(w) /\ ~Unchanged(w) /\ push'[w].event = DiffEvent(w)
  <2>1. StampsMatch(w)
    BY DEF PushDiff
  <2>2. QED
    BY <2>1, PushChangeDoes
<1>3. push'[w] # IdlePush /\ ~IsWriting(w)
  BY <1>2 DEF IdlePush, IsWriting
<1>4. push'[w].data.probes = Local(w) /\ push'[w].data.stamp = stamp'[w]
  BY <1>1, <1>2, SnapshotType
<1>5. ~StampsMatch(w)'
  BY <1>1, <1>2, NewStampRight, Constants DEF StampsMatch, RemoteStamp
<1>6. /\ push'[w].event.node = w /\ ~push'[w].event.reload /\ ~IsKeepAlive(push'[w].event)
      /\ push'[w].event.remove = Removed(w) /\ push'[w].event.update = Updated(w)
  BY <1>1, <1>2, DiffRight
<1>7. /\ ~Reloads(Pending(w))' /\ RemovedBy(Pending(w))' = Removed(w) /\ UpdatedBy(Pending(w))' = Updated(w)
      /\ Touched(Pending(w))' = Removed(w) \cup Updated(w)
  BY <1>3, <1>6 DEF Pending, Reloads, RemovedBy, UpdatedBy, Touched
<1>8. /\ ~Reloads(Pending(w)) /\ RemovedBy(Pending(w)) = {} /\ Touched(Pending(w)) = {}
  BY <1>2, PendingParts
<1>9. Target(w)' = Local(w) /\ Target(w) = view[w][w].probes
  BY <1>2, <1>3, <1>4 DEF Target
<1>10. stage' = stage /\ home' = home /\ stream' = stream
  BY <1>2, WriterEvents
<1>11. \A i : /\ Open(w, i)' => Open(w, i)
              /\ Touched(Events(w, i))' = Touched(Events(w, i)) \cup Removed(w) \cup Updated(w)
              /\ RemovedBy(Events(w, i))' = RemovedBy(Events(w, i)) \cup Removed(w)
  <2> TAKE i
  <2>1. /\ Touched(Events(w, i))' = Touched(Published(w, i)) \cup Touched(Pending(w))'
        /\ RemovedBy(Events(w, i))' = RemovedBy(Published(w, i)) \cup RemovedBy(Pending(w))'
        /\ Reloads(Events(w, i))' <=> Reloads(Published(w, i)) \/ Reloads(Pending(w))'
    BY <1>2, WriterEvents
  <2>2. /\ Touched(Events(w, i)) = Touched(Published(w, i))
        /\ RemovedBy(Events(w, i)) = RemovedBy(Published(w, i))
        /\ Reloads(Events(w, i)) <=> Reloads(Published(w, i))
    BY <1>8, TouchedParts
  <2>3. lost' = lost /\ StampsMatch(w)
    BY <1>2
  <2>4. QED
    BY <1>7, <2>1, <2>2, <2>3 DEF Open
<1>12. \A p \in Probes : p \in Removed(w) \cup Updated(w) \/ Local(w)[p] = view[w][w].probes[p]
  BY <1>1, DiffRight
<1>13. \A i \in 0..StreamLength : Carried(w, i, i)
  BY <1>9, <1>11, <1>12 DEF Carried
<1>14. PushInv(w)'
  <2>1. document[w] # Nothing /\ document[w].probes = view[w][w].probes
    <3>1. document[w] # Nothing
      BY <1>1, <1>2, Constants DEF StampsMatch, RemoteStamp, TypeOK
    <3>2. QED
      BY <1>1, <1>2, <3>1 DEF SyncInv, PushInv
  <2>2. \A p \in Probes : p \in Touched(Pending(w))' \/ document'[w].probes[p] = push'[w].data.probes[p]
    BY <1>2, <1>4, <1>7, <1>12, <2>1
  <2>3. QED
    BY <1>2, <1>3, <1>4, <1>5, <1>6, <2>1, <2>2 DEF PushInv
<1>15. EventInv(w)'
  <2>1. EventInv(w) /\ ListInv(w)
    BY <1>1 DEF SyncInv
  <2>2. \A p \in Removed(w) : p \in Probes /\ stage[p] = Gone
    <3> SUFFICES ASSUME NEW p \in Removed(w) PROVE p \in Probes /\ stage[p] = Gone
      OBVIOUS
    <3>1. p \in Probes /\ view[w][w].probes[p] # 0 /\ Local(w)[p] = 0
      BY DEF Removed
    <3>2. home[p] = w /\ stage[p] # 0
      BY <1>1, <1>2, <2>1, <3>1 DEF ListInv, Lists, StampsMatch
    <3>3. QED
      BY <1>1, <3>1, <3>2, LocalLists
  <2>3. RemovedBy(Events(w, 0)) \subseteq Probes
    BY <1>1, TouchedType
  <2>4. \A p \in RemovedBy(Events(w, 0))' : p \in Probes /\ stage[p] = Gone
    BY <1>11, <2>1, <2>2, <2>3 DEF EventInv
  <2>5. \A p \in RemovedBy(Events(w, 0))' : stage'[p] = Gone /\ Target(w)'[p] = 0
    BY <1>1, <1>9, <1>10, <2>4, LocalLists
  <2>6. \A i \in 1..Len(stream), p \in Probes :
          stream[i].node = w /\ p \in stream[i].update /\ Open(w, i)' /\ Local(w)[p] = 0 =>
            p \in RemovedBy(Events(w, i))'
    <3> SUFFICES ASSUME NEW i \in 1..Len(stream), NEW p \in Probes,
                        stream[i].node = w, p \in stream[i].update, Open(w, i)', Local(w)[p] = 0
                 PROVE  p \in RemovedBy(Events(w, i))'
      OBVIOUS
    <3>1. Target(w)[p] = 0 => p \in RemovedBy(Events(w, i))
      BY <1>11, <2>1 DEF EventInv
    <3>2. view[w][w].probes[p] # 0 => p \in Removed(w)
      BY DEF Removed
    <3>3. QED
      BY <1>9, <1>11, <3>1, <3>2
  <2>7. \A p \in UpdatedBy(Pending(w))' : Target(w)'[p] # 0
    BY <1>7, <1>9 DEF Updated
  <2>8. QED
    BY <1>9, <1>10, <2>5, <2>6, <2>7 DEF EventInv
<1>16. OwnLists(w)'
  BY <1>1, <1>2, <1>4, OwnListsStep
<1>17. QED
  BY <1>1, <1>2, <1>13, <1>14, <1>15, <1>16, WriterStep

\* Steps that change neither what w announces nor what its readers are going to have.
LEMMA QuietStep ==
  ASSUME TypeOK, SyncInv, NEW w \in Nodes, Writes(w), PushInv(w)', OwnLists(w)',
         Touched(Pending(w))' = Touched(Pending(w)), RemovedBy(Pending(w))' = RemovedBy(Pending(w)),
         UpdatedBy(Pending(w))' = UpdatedBy(Pending(w)), Reloads(Pending(w))' <=> Reloads(Pending(w)),
         IsWriting(w)' \/ StampsMatch(w)' => (IsWriting(w) \/ StampsMatch(w)) /\ Target(w)' = Target(w)
  PROVE  SyncInv'
<1>1. stage' = stage /\ home' = home /\ stream' = stream /\ (lost' # "unnoticed" => lost # "unnoticed")
  BY WriterEvents DEF Writes
<1>2. \A i : /\ RemovedBy(Events(w, i))' = RemovedBy(Events(w, i)) /\ Touched(Events(w, i))' = Touched(Events(w, i))
             /\ Open(w, i)' => Open(w, i) /\ Target(w)' = Target(w)
  <2> TAKE i
  <2>1. /\ Touched(Events(w, i))' = Touched(Published(w, i)) \cup Touched(Pending(w))'
        /\ RemovedBy(Events(w, i))' = RemovedBy(Published(w, i)) \cup RemovedBy(Pending(w))'
        /\ Reloads(Events(w, i))' <=> Reloads(Published(w, i)) \/ Reloads(Pending(w))'
    BY WriterEvents
  <2>2. /\ Touched(Events(w, i)) = Touched(Published(w, i)) \cup Touched(Pending(w))
        /\ RemovedBy(Events(w, i)) = RemovedBy(Published(w, i)) \cup RemovedBy(Pending(w))
        /\ Reloads(Events(w, i)) <=> Reloads(Published(w, i)) \/ Reloads(Pending(w))
    BY TouchedParts
  <2>3. QED
    BY <1>1, <2>1, <2>2 DEF Open
<1>3. \A i \in 0..StreamLength : Carried(w, i, i)
  BY <1>2 DEF Carried
<1>4. EventInv(w)'
  <2>1. EventInv(w)
    BY DEF SyncInv
  <2>2. QED
    BY <1>1, <1>2, <2>1 DEF EventInv
<1>5. QED
  BY <1>3, <1>4, WriterStep

\* A keep-alive is announced.
LEMMA PushAliveStep ==
  ASSUME TypeOK, SyncInv, NEW w \in Hosts, PushAlive(w) \/ PushRefresh(w)
  PROVE  SyncInv'
<1>1. w \in Nodes
  BY Constants
<1>2. /\ Writes(w) /\ push[w] = IdlePush /\ document' = document /\ lost' = lost /\ stamp'[w] = stamp[w]
      /\ StampsMatch(w) /\ Unchanged(w)
      /\ push'[w].event = DiffEvent(w) /\ push'[w].state \in {"publishing", "refreshing"}
      /\ push'[w].state = "refreshing" =>
           view' = view /\ push'[w].data.probes = Local(w) /\ push'[w].data.stamp = stamp[w]
      /\ push'[w].state = "publishing" => view'[w][w] # Nothing /\ view'[w][w].probes = Local(w)
  BY PushAliveDoes, PushRefreshDoes
<1>3. push'[w] # IdlePush /\ ~IsWriting(w) /\ (IsWriting(w)' <=> push'[w].state = "refreshing")
  BY <1>2 DEF IdlePush, IsWriting
<1>4. /\ push'[w].event.node = w /\ ~push'[w].event.reload /\ IsKeepAlive(push'[w].event)
      /\ push'[w].event.remove = {} /\ push'[w].event.update = {} /\ Local(w) = view[w][w].probes
  BY <1>1, <1>2, DiffRight DEF Unchanged
<1>5. /\ ~Reloads(Pending(w))' /\ RemovedBy(Pending(w))' = {} /\ UpdatedBy(Pending(w))' = {}
      /\ Touched(Pending(w))' = {}
  BY <1>3, <1>4 DEF Pending, Reloads, RemovedBy, UpdatedBy, Touched
<1>6. /\ ~Reloads(Pending(w)) /\ RemovedBy(Pending(w)) = {} /\ Touched(Pending(w)) = {} /\ UpdatedBy(Pending(w)) = {}
  BY <1>2, PendingParts
<1>7. view[w][w] # Nothing /\ view'[w][w] # Nothing /\ view'[w][w].probes = view[w][w].probes
  BY <1>2, <1>4 DEF StampsMatch
<1>8. Target(w)' = Target(w)
  BY <1>2, <1>3, <1>4, <1>7 DEF Target
<1>9. document[w] # Nothing /\ document[w].probes = view[w][w].probes
  <2>1. document[w] # Nothing
    BY <1>1, <1>2, Constants DEF StampsMatch, RemoteStamp, TypeOK
  <2>2. QED
    BY <1>1, <1>2, <2>1 DEF SyncInv, PushInv
<1>10. PushInv(w)'
  BY <1>2, <1>3, <1>4, <1>7, <1>9 DEF PushInv
<1>11. OwnLists(w)'
  BY <1>1, <1>2, <1>3, <1>4, <1>7, OwnListsStep
<1>12. QED
  BY <1>1, <1>2, <1>5, <1>6, <1>8, <1>10, <1>11, QuietStep

\* The document becomes what is announced.
LEMMA WriteDocumentStep ==
  ASSUME TypeOK, SyncInv, NEW w \in Hosts, WriteDocument(w)
  PROVE  SyncInv'
<1>1. w \in Nodes
  BY Constants
<1>2. /\ Writes(w) /\ IsWriting(w) /\ ~IsWriting(w)' /\ lost' = lost
      /\ document'[w] = push[w].data /\ document'[w] # Nothing
      /\ push'[w].state = "publishing" /\ push'[w].event = push[w].event
      /\ \/ push[w].state = "writing" /\ view' = view /\ stamp' = stamp
         \/ /\ push[w].state = "refreshing" /\ view'[w][w] # Nothing /\ view'[w][w].probes = push[w].data.probes
            /\ stamp'[w] = push[w].data.stamp
  BY WriteDocumentDoes
<1>3. push[w] # IdlePush /\ push'[w] # IdlePush
  BY <1>1, <1>2, PushFields DEF IdlePush
<1>4. Pending(w)' = Pending(w)
  BY <1>2, <1>3 DEF Pending
<1>5. PushInv(w)
  BY <1>1 DEF SyncInv
<1>6. view'[w][w] # Nothing => view'[w][w].probes = push[w].data.probes
  BY <1>2, <1>5 DEF PushInv
<1>7. StampsMatch(w)' => Target(w)' = Target(w)
  BY <1>2, <1>6 DEF Target, StampsMatch
<1>8. PushInv(w)'
  BY <1>2, <1>3, <1>5, <1>6 DEF PushInv, StampsMatch
<1>9. OwnLists(w)'
  BY <1>1, <1>2, <1>6, OwnListsStep
<1>10. QED
  BY <1>1, <1>2, <1>4, <1>7, <1>8, <1>9, QuietStep DEF RemovedBy, UpdatedBy, Touched, Reloads

\* A push that gives up before its event is published: nobody can follow, or nothing was to be announced.
LEMMA PushEndsStep ==
  ASSUME TypeOK, SyncInv, NEW w \in Hosts, PushFails(w) \/ LoseEvent(w)
  PROVE  SyncInv'
<1>1. w \in Nodes
  BY Constants
<1>2. /\ Writes(w) /\ push[w] # IdlePush /\ push'[w] = IdlePush /\ ~IsWriting(w)' /\ view' = view /\ stamp' = stamp
      /\ \/ IsWriting(w) /\ document' = document
         \/ /\ lost' = IF IsKeepAlive(push[w].event) THEN lost ELSE "unnoticed"
            /\ \/ document' = document /\ push[w].state = "publishing"
               \/ document'[w] = push[w].data /\ document'[w] # Nothing /\ IsWriting(w)
  BY PushEndsDoes
<1>3. /\ ~Reloads(Pending(w))' /\ RemovedBy(Pending(w))' = {} /\ UpdatedBy(Pending(w))' = {}
      /\ Touched(Pending(w))' = {}
  BY <1>2 DEF Pending, Reloads, RemovedBy, UpdatedBy, Touched
<1>4. PushInv(w) /\ EventInv(w)
  BY <1>1 DEF SyncInv
<1>5. StampsMatch(w)' => view[w][w] # Nothing /\ view'[w][w] = view[w][w] /\ document'[w].stamp = stamp[w]
  BY <1>2, Constants DEF StampsMatch, RemoteStamp, TypeOK
<1>6. \A i : StampsMatch(w)' => Target(w)' = Target(w)
  BY <1>2, <1>4, <1>5 DEF Target, PushInv
<1>7. PushInv(w)'
  <2>1. StampsMatch(w)' => document'[w].probes = view'[w][w].probes
    <3>1. CASE document' = document
      BY <1>2, <1>4, <3>1 DEF PushInv, StampsMatch, RemoteStamp
    <3>2. CASE IsWriting(w) /\ document'[w] = push[w].data
      BY <1>2, <1>4, <1>5, <3>2 DEF PushInv
    <3>3. QED
      BY <1>2, <3>1, <3>2
  <2>2. push'[w].state = "idle"
    BY <1>2 DEF IdlePush
  <2>3. QED
    BY <1>2, <2>1, <2>2 DEF PushInv
<1>8. OwnLists(w)'
  BY <1>1, <1>2, OwnListsStep
<1>9. CASE IsKeepAlive(push[w].event)
  <2>1. /\ ~Reloads(Pending(w)) /\ RemovedBy(Pending(w)) = {} /\ UpdatedBy(Pending(w)) = {} /\ Touched(Pending(w)) = {}
    BY <1>2, <1>9, PendingParts DEF IsKeepAlive
  <2>2. StampsMatch(w)' => IsWriting(w) \/ StampsMatch(w)
    BY <1>2 DEF StampsMatch, RemoteStamp
  <2>3. QED
    BY <1>1, <1>2, <1>3, <1>6, <1>7, <1>8, <2>1, <2>2, QuietStep
<1>10. CASE ~IsKeepAlive(push[w].event)
  <2>1. \A i : ~Open(w, i)'
    <3>1. CASE lost' = "unnoticed"
      BY <3>1 DEF Open
    <3>2. CASE IsWriting(w) /\ document' = document
      <4>1. push[w].state = "writing"
        BY <1>4, <1>10, <3>2 DEF PushInv, IsWriting
      <4>2. ~StampsMatch(w)
        BY <1>4, <4>1 DEF PushInv
      <4>3. QED
        BY <1>2, <3>2, <4>2 DEF Open, StampsMatch, RemoteStamp
    <3>3. QED
      BY <1>2, <1>10, <3>1, <3>2
  <2>2. \A i : RemovedBy(Events(w, i))' \subseteq RemovedBy(Events(w, i))
    BY <1>2, <1>3, WriterEvents, TouchedParts
  <2>3. \A i \in 0..StreamLength : Carried(w, i, i)
    BY <2>1 DEF Carried
  <2>4. StampsMatch(w)' => IsWriting(w) \/ StampsMatch(w)
    BY <1>2 DEF StampsMatch, RemoteStamp
  <2>5. EventInv(w)'
    <3>1. stage' = stage
      BY <1>2, WriterEvents
    <3>2. \A p \in RemovedBy(Events(w, 0))' : stage'[p] = Gone /\ (IsWriting(w)' \/ StampsMatch(w)' => Target(w)'[p] = 0)
      BY <1>2, <1>4, <1>6, <2>2, <2>4, <3>1 DEF EventInv
    <3>3. QED
      BY <1>3, <2>1, <3>2 DEF EventInv
  <2>6. QED
    BY <1>1, <1>2, <1>7, <1>8, <2>3, <2>5, WriterStep
<1>11. QED
  BY <1>9, <1>10

\* A document that is lost, or the own entry of a node that expires, keeps readers from following.
LEMMA LossStep ==
  ASSUME TypeOK, SyncInv, NEW w \in Nodes,
         (w \in Hosts /\ Evict(w)) \/ Expire(w, w)
  PROVE  SyncInv'
<1>1. /\ Writes(w) /\ push' = push /\ ~StampsMatch(w)'
      /\ document'[w] = document[w] \/ document'[w] = Nothing
      /\ view'[w][w] = view[w][w] \/ view'[w][w] = Nothing
      /\ stamp' = stamp
      /\ IsWriting(w) => lost' = "unnoticed" \/ document'[w] = document[w]
  <2>1. CASE w \in Hosts /\ Evict(w)
    <3>1. /\ Writes(w) /\ push' = push /\ view' = view /\ stamp' = stamp /\ document'[w] = Nothing
          /\ IsWriting(w) => lost' = "unnoticed"
      BY <2>1, EvictDoes
    <3>2. ~StampsMatch(w)'
      BY <3>1, Constants DEF StampsMatch, RemoteStamp, TypeOK
    <3>3. QED
      BY <3>1, <3>2
  <2>2. CASE Expire(w, w)
    <3>1. /\ UNCHANGED <<env, stamp, document, stream, cursor, push, pull, lost>>
          /\ view'[w][w] = Nothing
          /\ \A n, m \in Nodes : n # w \/ m # w => view'[n][m] = view[n][m]
      BY <2>2, ExpireDoes
    <3>2. Writes(w)
      BY <3>1 DEF Writes
    <3>3. QED
      BY <3>1, <3>2 DEF StampsMatch
  <2>3. QED
    BY <2>1, <2>2
<1>2. Pending(w)' = Pending(w) /\ (IsWriting(w)' <=> IsWriting(w))
  BY <1>1 DEF Pending, IsWriting
<1>3. IsWriting(w) => Target(w)' = Target(w)
  BY <1>1, <1>2 DEF Target
<1>4. PushInv(w)'
  <2>1. PushInv(w) /\ (lost = "unnoticed" => lost' = "unnoticed")
    BY <1>1 DEF SyncInv, Writes
  <2>2. QED
    BY <1>1, <1>2, <2>1 DEF PushInv
<1>5. OwnLists(w)'
  BY <1>1, <1>2, OwnListsStep
<1>6. QED
  BY <1>1, <1>2, <1>3, <1>4, <1>5, QuietStep DEF RemovedBy, UpdatedBy, Touched, Reloads

\* Events keep their order, and what was pending comes last: the events after a position are those
\* after its new position.
LEMMA PublishMoves ==
  ASSUME TypeOK, SyncInv, NEW w \in Hosts, Publish(w)
  PROVE  /\ push[w] # IdlePush /\ push[w].event.node = w /\ Trimmed <= Len(stream) /\ Len(stream) <= StreamLength
         /\ \A m \in Nodes, i \in Trimmed..Len(stream), j \in Nat : j = i - Trimmed =>
              /\ Events(m, j)' = Events(m, i)
              /\ Published(m, j)' = IF m = w THEN Events(m, i) ELSE Published(m, i)
         /\ \A m \in Nodes : Events(m, 0)' \subseteq Events(m, 0)
<1>1. w \in Nodes
  BY Constants
<1> DEFINE d == Trimmed
           L == Len(stream)
<1>2. /\ UNCHANGED <<env, stamp, document, faults, lost>>
      /\ push[w].state = "publishing" /\ push[w].event \in Event
      /\ push'[w] = IdlePush /\ \A m \in Nodes \ {w} : push'[m] = push[m]
      /\ d \in {0, 1} /\ L \in Nat /\ L' = L + 1 - d /\ L' \in 1..StreamLength
      /\ \A i \in 1..L' : stream'[i] = IF i = L' THEN push[w].event ELSE stream[i + d]
      /\ \A m \in Nodes :
           /\ cursor'[m] = Moved(cursor[m])
           /\ pull'[m] = IdlePull <=> pull[m] = IdlePull
           /\ Tasks(m)' = Tasks(m)
           /\ pull[m] # IdlePull => pull'[m].failed = pull[m].failed /\ pull'[m].upto = Moved(pull[m].upto)
           /\ view'[m][m] = view[m][m]
           /\ \A k \in Nodes : view'[m][k] = view[m][k] \/ view'[m][k] = Nothing
      /\ \A k \in Nodes :
           \/ \E i \in 1..L' : stream'[i].node = k
           \/ /\ \A m \in Nodes : /\ m # k => view'[m][k] = Nothing
                                  /\ \A t \in Tasks(m) : t.node # k
           \/ d = 0 \/ stream[1].node # k
  BY PublishDoes
<1>3. push[w] # IdlePush /\ push[w].event.node = w /\ ~IsWriting(w) /\ ~IsWriting(w)'
  <2>1. push[w] # IdlePush /\ ~IsWriting(w) /\ ~IsWriting(w)'
    BY <1>2 DEF IsWriting, IdlePush
  <2>2. QED
    BY <1>1, <2>1 DEF SyncInv, PushInv
<1> HIDE DEF d, L
<1>4. ASSUME NEW m \in Nodes, NEW i \in d..StreamLength, NEW j \in Nat, j = i - d
      PROVE  Published(m, j)' = Published(m, i) \cup (IF m = w /\ i <= L THEN {push[w].event} ELSE {})
  <2> DEFINE new == {k \in (j + 1)..L' : stream'[k].node = m}
             old == {k \in (i + 1)..L : stream[k].node = m}
             sent == IF m = w /\ i <= L THEN {push[w].event} ELSE {}
  <2>1. Published(m, j)' = {stream'[k] : k \in new} /\ Published(m, i) = {stream[k] : k \in old}
    BY DEF Published, L
  <2>2. i \in Nat /\ d \in Nat /\ StreamLength \in Nat
    BY <1>2, Constants
  <2>3. ASSUME NEW k \in new
        PROVE  stream'[k] \in {stream[h] : h \in old} \cup sent
    <3>1. k \in 1..L' /\ k >= i - d + 1 /\ stream'[k].node = m
      BY <1>2, <1>4, <2>2, <2>3
    <3>2. CASE k = L'
      BY <1>2, <1>3, <2>2, <3>1, <3>2
    <3>3. CASE k # L'
      <4>1. k + d \in (i + 1)..L /\ stream'[k] = stream[k + d]
        BY <1>2, <2>2, <3>1, <3>3
      <4>2. QED
        BY <3>1, <4>1
    <3>4. QED
      BY <3>2, <3>3
  <2>4. ASSUME NEW h \in old
        PROVE  stream[h] \in {stream'[k] : k \in new}
    <3>1. h \in (i + 1)..L /\ stream[h].node = m
      OBVIOUS
    <3>2. h - d \in 1..L' /\ h - d # L' /\ h - d + d = h /\ h - d >= j + 1
      BY <1>2, <1>4, <2>2, <3>1
    <3>3. stream'[h - d] = stream[h] /\ h - d \in new
      BY <1>2, <2>2, <3>1, <3>2
    <3>4. QED
      BY <3>3
  <2>5. ASSUME m = w, i <= L
        PROVE  push[w].event \in {stream'[k] : k \in new}
    <3>1. L' \in new /\ stream'[L'] = push[w].event
      BY <1>2, <1>3, <1>4, <2>2, <2>5
    <3>2. QED
      BY <3>1
  <2>6. {stream'[k] : k \in new} = {stream[h] : h \in old} \cup sent
    <3> HIDE DEF new, old
    <3>1. {stream'[k] : k \in new} \subseteq {stream[h] : h \in old} \cup sent
      BY <2>3
    <3>2. {stream[h] : h \in old} \subseteq {stream'[k] : k \in new} /\ sent \subseteq {stream'[k] : k \in new}
      BY <2>4, <2>5
    <3>3. QED
      BY <3>1, <3>2
  <2>7. QED
    BY <2>1, <2>6
<1>5. \A m \in Nodes : Pending(m) = Pending(m)' \cup (IF m = w THEN {push[w].event} ELSE {})
  BY <1>1, <1>2, <1>3 DEF Pending
<1>6. d <= L + 1 /\ L <= StreamLength /\ (d = 1 => L >= 1) /\ d <= L
  <2>1. Trimmed = 1 => L >= 1
    BY <1>2, Constants DEF Trimmed, L
  <2>2. L <= StreamLength
    BY DEF TypeOK, L
  <2>3. QED
    BY <1>2, <2>1, <2>2 DEF d
<1>7. ASSUME NEW m \in Nodes, NEW i \in d..L, NEW j \in Nat, j = i - d
      PROVE  Events(m, j)' = Events(m, i)
  <2>1. i \in d..StreamLength /\ i <= L
    BY <1>2, <1>6, Constants
  <2>2. Published(m, j)' = Published(m, i) \cup (IF m = w THEN {push[w].event} ELSE {})
    BY <1>4, <1>7, <2>1
  <2>3. QED
    BY <1>5, <2>2 DEF Events
<1>8. ASSUME NEW m \in Nodes, NEW i \in d..L, NEW j \in Nat, j = i - d
      PROVE  Published(m, j)' = IF m = w THEN Events(m, i) ELSE Published(m, i)
  <2>1. i \in d..StreamLength /\ i <= L
    BY <1>2, <1>6, Constants
  <2>2. Published(m, j)' = Published(m, i) \cup (IF m = w THEN {push[w].event} ELSE {})
    BY <1>4, <1>8, <2>1
  <2>3. m = w => Pending(m) = {push[w].event}
    BY <1>3 DEF Pending
  <2>4. QED
    BY <2>2, <2>3 DEF Events
<1>9. \A m \in Nodes : Events(m, 0)' \subseteq Events(m, 0)
  <2> TAKE m \in Nodes
  <2>1. Events(m, 0)' = Events(m, d)
    <3>1. d \in d..L /\ 0 = d - d /\ 0 \in Nat
      BY <1>2, <1>6
    <3>2. QED
      BY <1>7, <3>1
  <2>2. QED
    BY <1>2, <2>1, EventsShrink
<1>10. QED
  BY <1>3, <1>6, <1>7, <1>8, <1>9 DEF d, L

\* An event that is published is not pending any more; the oldest one may be trimmed, and a node
\* that has no event any more is not listed.
LEMMA PublishStep ==
  ASSUME TypeOK, SyncInv, NEW w \in Hosts, Publish(w)
  PROVE  SyncInv'
<1>1. w \in Nodes
  BY Constants
<1> DEFINE d == Trimmed
           L == Len(stream)
<1>2. /\ UNCHANGED <<env, stamp, document, faults, lost>>
      /\ push[w].state = "publishing" /\ push[w].event \in Event
      /\ push'[w] = IdlePush /\ \A m \in Nodes \ {w} : push'[m] = push[m]
      /\ d \in {0, 1} /\ L \in Nat /\ L' = L + 1 - d /\ L' \in 1..StreamLength
      /\ \A i \in 1..L' : stream'[i] = IF i = L' THEN push[w].event ELSE stream[i + d]
      /\ \A m \in Nodes :
           /\ cursor'[m] = Moved(cursor[m])
           /\ pull'[m] = IdlePull <=> pull[m] = IdlePull
           /\ Tasks(m)' = Tasks(m)
           /\ pull[m] # IdlePull => pull'[m].failed = pull[m].failed /\ pull'[m].upto = Moved(pull[m].upto)
           /\ view'[m][m] = view[m][m]
           /\ \A k \in Nodes : view'[m][k] = view[m][k] \/ view'[m][k] = Nothing
      /\ \A k \in Nodes :
           \/ \E i \in 1..L' : stream'[i].node = k
           \/ /\ \A m \in Nodes : /\ m # k => view'[m][k] = Nothing
                                  /\ \A t \in Tasks(m) : t.node # k
           \/ d = 0 \/ stream[1].node # k
  BY PublishDoes
<1>3. push[w] # IdlePush /\ push[w].event.node = w /\ ~IsWriting(w) /\ ~IsWriting(w)'
  <2>1. push[w] # IdlePush /\ ~IsWriting(w) /\ ~IsWriting(w)'
    BY <1>2 DEF IsWriting, IdlePush
  <2>2. QED
    BY <1>1, <2>1 DEF SyncInv, PushInv
<1>4. stage' = stage /\ home' = home /\ lost' = lost /\ stamp' = stamp /\ document' = document
  BY <1>2 DEF env
<1>5. \A m \in Nodes : /\ IsWriting(m)' <=> IsWriting(m)
                       /\ StampsMatch(m)' <=> StampsMatch(m)
                       /\ Target(m)' = Target(m)
  BY <1>1, <1>2, <1>3, <1>4 DEF IsWriting, StampsMatch, RemoteStamp, Target
<1> HIDE DEF d, L
<1>6. d <= L /\ L <= StreamLength /\ (d = 1 => L >= 1)
      /\ \A m \in Nodes, i \in d..L, j \in Nat : j = i - d => Events(m, j)' = Events(m, i)
  <2>1. d = 1 => L >= 1
    BY <1>2, PublishMoves DEF d, L
  <2>2. QED
    BY <2>1, PublishMoves DEF d, L
<1>7. \A m \in Nodes : Pending(m) = Pending(m)' \cup (IF m = w THEN {push[w].event} ELSE {})
  BY <1>1, <1>2, <1>3 DEF Pending
<1>8. ASSUME NEW m \in Nodes, NEW i \in d..L, NEW j \in Nat, j = i - d
      PROVE  Events(m, j)' = Events(m, i)
  BY <1>6, <1>8
<1>9. ASSUME NEW m \in Nodes, NEW i \in 0..L, NEW j, j = Moved(i)
      PROVE  Carried(m, i, j)
  <2>1. CASE i > d
    <3>1. j = i - d /\ j \in Nat /\ i \in d..L /\ i # 0
      BY <1>2, <1>9, <2>1 DEF Moved, d
    <3>2. Events(m, j)' = Events(m, i)
      BY <1>8, <3>1
    <3>3. QED
      BY <1>4, <1>5, <3>1, <3>2 DEF Carried, Open
  <2>2. CASE ~(i > d)
    <3>1. j = 0
      BY <1>9, <2>2 DEF Moved, d
    <3>2. ~Open(m, j)'
      BY <3>1 DEF Open
    <3>3. QED
      BY <3>1, <3>2 DEF Carried
  <2>3. QED
    BY <2>1, <2>2
<1>10. \A m \in Nodes : Published(m, 0) # {} =>
         \/ Published(m, 0)' # {}
         \/ \A n \in Nodes : /\ n # m => view'[n][m] = Nothing
                             /\ \A t \in Tasks(n) : t.node # m
  <2> SUFFICES ASSUME NEW m \in Nodes, Published(m, 0) # {}
               PROVE  \/ Published(m, 0)' # {}
                      \/ \A n \in Nodes : /\ n # m => view'[n][m] = Nothing
                                          /\ \A t \in Tasks(n) : t.node # m
    OBVIOUS
  <2>1. CASE \E i \in 1..L' : stream'[i].node = m
    BY <2>1 DEF Published, L
  <2>2. CASE d = 0 \/ stream[1].node # m
    <3>1. PICK j \in 1..L : stream[j].node = m
      BY DEF Published, L
    <3>2. j - d \in 1..L' /\ j - d # L' /\ j - d + d = j
      <4>1. d = 0 \/ j # 1
        BY <2>2, <3>1
      <4>2. QED
        BY <1>2, <4>1
    <3>3. stream'[j - d].node = m
      BY <1>2, <3>1, <3>2
    <3>4. \E k \in (0 + 1)..Len(stream)' : stream'[k].node = m
      BY <3>2, <3>3 DEF L
    <3>5. QED
      BY <3>4 DEF Published
  <2>3. QED
    BY <1>2, <2>1, <2>2 DEF d
<1>11. \A m \in Nodes : Events(m, 0)' \subseteq Events(m, 0)
  BY PublishMoves
<1>12. \A m \in Nodes : PushInv(m)'
  <2> SUFFICES ASSUME NEW m \in Nodes PROVE PushInv(m)'
    OBVIOUS
  <2>1. PushInv(m)
    BY DEF SyncInv
  <2>2. m # w => Pending(m)' = Pending(m)
    BY <1>2 DEF Pending
  <2>3. push'[w].state = "idle"
    BY <1>2 DEF IdlePush
  <2>4. QED
    BY <1>2, <1>3, <1>4, <1>5, <2>1, <2>2, <2>3 DEF PushInv
<1>13. \A m \in Nodes : EventInv(m)'
  <2> SUFFICES ASSUME NEW m \in Nodes PROVE EventInv(m)'
    OBVIOUS
  <2>1. EventInv(m)
    BY DEF SyncInv
  <2>2. \A p \in RemovedBy(Events(m, 0))' : p \in RemovedBy(Events(m, 0))
    BY <1>11 DEF RemovedBy
  <2>3. UpdatedBy(Pending(m))' \subseteq UpdatedBy(Pending(m))
    BY <1>7 DEF UpdatedBy
  <2>4. ASSUME NEW j \in 1..L', NEW p \in Probes,
               stream'[j].node = m, p \in stream'[j].update, Open(m, j)', Target(m)'[p] = 0
        PROVE  p \in RemovedBy(Events(m, j))'
    <3>1. CASE j = L'
      <4>1. stream'[j] = push[w].event
        BY <1>2, <3>1
      <4>2. m = w /\ p \in push[w].event.update
        BY <1>3, <2>4, <4>1
      <4>3. p \in UpdatedBy(Pending(m))
        BY <1>3, <4>2, PendingParts
      <4>4. IsWriting(m) \/ StampsMatch(m)
        BY <1>5, <2>4 DEF Open
      <4>5. Target(m)[p] # 0
        BY <2>1, <4>3, <4>4 DEF EventInv
      <4>6. QED
        BY <1>5, <2>4, <4>5
    <3>2. CASE j # L'
      <4>1. j + d \in 1..L /\ j + d \in d..L /\ j = j + d - d /\ j + d # 0 /\ j \in Nat
        BY <1>2, <3>2
      <4>i. PICK i \in 1..L : i = j + d
        BY <4>1, Zenon
      <4>j. d \in Nat /\ L \in Nat
        BY <1>2
      <4>2. i \in d..L /\ i = j + d /\ i \in 1..L /\ i # 0 /\ j = i - d
        BY <4>1, <4>i, <4>j
      <4>3. stream'[j] = stream[i]
        BY <1>2, <3>2, <4>2
      <4>4. Events(m, j)' = Events(m, i)
        BY <1>8, <4>1, <4>2
      <4>5. Open(m, i)
        BY <1>4, <1>5, <2>4, <4>2, <4>4 DEF Open
      <4>6. p \in RemovedBy(Events(m, i))
        BY <1>5, <2>1, <2>4, <4>2, <4>3, <4>5 DEF EventInv, L
      <4>7. QED
        BY <4>4, <4>6
    <3>3. QED
      BY <3>1, <3>2
  <2>5. QED
    BY <1>4, <1>5, <2>1, <2>2, <2>3, <2>4 DEF EventInv, L
<1>14. \A m \in Nodes : ListInv(m)'
  <2> SUFFICES ASSUME NEW m \in Nodes PROVE ListInv(m)'
    OBVIOUS
  <2>1. ListInv(m)
    BY DEF SyncInv
  <2>2. \A l : Lists(l, m)' <=> Lists(l, m)
    BY <1>4 DEF Lists
  <2>3. \A n \in Nodes : Tasks(n)' = Tasks(n) /\ (view'[n][m] = view[n][m] \/ view'[n][m] = Nothing)
    BY <1>2
  <2>4. IsWriting(m)' => IsWriting(m) /\ push'[m] = push[m]
    BY <1>2, <1>3, <1>5
  <2>5. QED
    BY <1>4, <2>1, <2>2, <2>3, <2>4 DEF ListInv
<1>15. \A n, m \in Nodes : ReadInv(n, m)'
  <2> SUFFICES ASSUME NEW n \in Nodes, NEW m \in Nodes PROVE ReadInv(n, m)'
    OBVIOUS
  <2>1. ReadInv(n, m)
    BY DEF SyncInv
  <2>2. \A i, j \in 0..L : Moved(i) <= L' /\ (i <= j => Moved(i) <= Moved(j))
    BY <1>2 DEF Moved, d
  <2>3. /\ cursor[n] \in 0..L
        /\ pull[n] # IdlePull => pull[n].upto \in 0..L /\ cursor[n] <= pull[n].upto
    <3>1. cursor[n] \in Nat /\ (pull[n] # IdlePull => pull[n].upto \in Nat)
      BY PullFields, Constants DEF TypeOK
    <3>2. QED
      BY <1>2, <2>1, <3>1 DEF ReadInv, L
  <2>4. /\ cursor'[n] = Moved(cursor[n]) /\ (pull'[n] # IdlePull <=> pull[n] # IdlePull) /\ Tasks(n)' = Tasks(n)
        /\ pull[n] # IdlePull => pull'[n].failed = pull[n].failed /\ pull'[n].upto = Moved(pull[n].upto)
        /\ view'[n][m] = view[n][m] \/ view'[n][m] = Nothing
    BY <1>2
  <2>5. cursor'[n] <= L' /\ (pull'[n] # IdlePull => cursor'[n] <= pull'[n].upto /\ pull'[n].upto <= L')
    BY <2>2, <2>3, <2>4
  <2>6. ASSUME NEW i \in 0..L, NEW j, j = Moved(i)
        PROVE  /\ \A l : RightTo(l, m, i) => RightTo(l, m, j)'
               /\ \A t : t.node = m /\ TaskRight(t, i) => TaskRight(t, j)'
    <3>1. Carried(m, i, j)
      BY <1>9, <2>6
    <3>2. QED
      BY <3>1, CarriedRight
  <2>7. CASE n = m
    BY <2>1, <2>4, <2>5, <2>7 DEF ReadInv, L
  <2>8. CASE n # m
    <3>1. PICK c : c = Moved(cursor[n])
      OBVIOUS
    <3>2. PICK u : u = Moved(pull[n].upto)
      OBVIOUS
    <3>3. \A l : RightTo(l, m, cursor[n]) => RightTo(l, m, c)'
      BY <2>3, <2>6, <3>1
    <3>4. pull[n] # IdlePull =>
            /\ \A l : RightTo(l, m, pull[n].upto) => RightTo(l, m, u)'
            /\ \A t : t.node = m /\ TaskRight(t, pull[n].upto) => TaskRight(t, u)'
      BY <2>3, <2>6, <3>2
    <3>5. view'[n][m] # Nothing => Published(m, 0)' # {} /\ RightTo(view[n][m].probes, m, cursor[n])'
      BY <1>10, <2>1, <2>4, <2>8, <3>1, <3>3 DEF ReadInv
    <3>6. \A t \in Tasks(n)' : t.node = m => Published(m, 0)' # {} /\ (~t.whole => TaskRight(t, pull[n].upto)')
      <4> SUFFICES ASSUME NEW t \in Tasks(n)', t.node = m
                   PROVE  Published(m, 0)' # {} /\ (~t.whole => TaskRight(t, pull[n].upto)')
        OBVIOUS
      <4>1. t \in Tasks(n) /\ pull[n] # IdlePull
        BY <2>4 DEF Tasks
      <4>2. Published(m, 0) # {} /\ (~t.whole => TaskRight(t, pull[n].upto))
        BY <2>1, <2>8, <4>1 DEF ReadInv
      <4>3. Published(m, 0)' # {}
        BY <1>10, <4>1, <4>2
      <4>4. QED
        BY <2>4, <3>2, <3>4, <4>1, <4>2, <4>3
    <3>7. pull'[n] # IdlePull /\ view'[n][m] # Nothing =>
            pull'[n].failed \/ (\E t \in Tasks(n)' : t.node = m) \/ RightTo(view[n][m].probes, m, pull[n].upto)'
      BY <2>1, <2>4, <2>8, <3>2, <3>4 DEF ReadInv
    <3>8. QED
      BY <2>1, <2>4, <2>5, <3>5, <3>6, <3>7 DEF ReadInv, L
  <2>9. QED
    BY <2>7, <2>8
<1>16. QED
  BY <1>12, <1>13, <1>14, <1>15 DEF SyncInv

-------------------------------------------------------------------------------
(* Pulls, probes and expirations *)

\* Probes only go on: a list of them stays one, and what has been removed stays gone.
LEMMA EnvSyncStep ==
  ASSUME TypeOK, SyncInv, EnvStep
  PROVE  SyncInv'
<1>1. /\ view' = view /\ stamp' = stamp /\ document' = document /\ stream' = stream /\ cursor' = cursor
      /\ push' = push /\ pull' = pull /\ lost' = lost
      /\ \A p \in Probes : /\ stage[p] = Gone => stage'[p] = Gone
                           /\ stage[p] # 0 => stage'[p] # 0 /\ home'[p] = home[p]
  <2>1. \A p \in Probes : \/ stage'[p] = stage[p] /\ home'[p] = home[p]
                          \/ stage[p] = 0 /\ stage'[p] = 1 /\ home'[p] \in Nodes
                          \/ /\ stage[p] \in 1..MaxVersion /\ stage'[p] \in 1..Gone /\ stage[p] < stage'[p]
                             /\ home'[p] = home[p]
    BY EnvStepDoes
  <2>2. \A p \in Probes : /\ stage[p] = Gone => stage'[p] = Gone
                          /\ stage[p] # 0 => stage'[p] # 0 /\ home'[p] = home[p]
    BY <2>1, Constants
  <2>3. QED
    BY <2>2, EnvStepDoes DEF caches
<1>2. \A m : /\ IsWriting(m)' <=> IsWriting(m)
             /\ StampsMatch(m)' <=> StampsMatch(m)
             /\ Target(m)' = Target(m) /\ Pending(m)' = Pending(m)
  BY <1>1 DEF IsWriting, StampsMatch, RemoteStamp, Target, Pending
<1>3. \A m : \A i : /\ Published(m, i)' = Published(m, i) /\ Events(m, i)' = Events(m, i)
                    /\ Open(m, i)' <=> Open(m, i)
  BY <1>1, <1>2 DEF Published, Events, Open
<1>4. \A n : Tasks(n)' = Tasks(n)
  BY <1>1 DEF Tasks
<1>5. \A m \in Nodes : PushInv(m)' /\ EventInv(m)'
  <2> SUFFICES ASSUME NEW m \in Nodes PROVE PushInv(m)' /\ EventInv(m)'
    OBVIOUS
  <2>1. PushInv(m) /\ EventInv(m)
    BY DEF SyncInv
  <2>2. PushInv(m)'
    BY <1>1, <1>2, <2>1 DEF PushInv
  <2>3. RemovedBy(Events(m, 0)) \subseteq Probes
    BY TouchedType
  <2>4. EventInv(m)'
    BY <1>1, <1>2, <1>3, <2>1, <2>3 DEF EventInv
  <2>5. QED
    BY <2>2, <2>4
<1>6. \A m \in Nodes : ListInv(m)'
  <2> SUFFICES ASSUME NEW m \in Nodes PROVE ListInv(m)'
    OBVIOUS
  <2>1. ListInv(m)
    BY DEF SyncInv
  <2>2. \A l : Lists(l, m) => Lists(l, m)'
    BY <1>1 DEF Lists
  <2>3. QED
    BY <1>1, <1>2, <1>4, <2>1, <2>2 DEF ListInv
<1>7. \A n, m \in Nodes : ReadInv(n, m)'
  <2> SUFFICES ASSUME NEW n \in Nodes, NEW m \in Nodes PROVE ReadInv(n, m)'
    OBVIOUS
  <2>1. ReadInv(n, m)
    BY DEF SyncInv
  <2>2. \A i : /\ \A l : RightTo(l, m, i)' <=> RightTo(l, m, i)
               /\ \A t : t.node = m => (TaskRight(t, i)' <=> TaskRight(t, i))
    BY <1>2, <1>3 DEF RightTo, TaskRight
  <2>3. QED
    BY <1>1, <1>3, <1>4, <2>1, <2>2 DEF ReadInv
<1>8. QED
  BY <1>5, <1>6, <1>7 DEF SyncInv

\* An entry of another node that expires is just not there.
LEMMA ExpireStep ==
  ASSUME TypeOK, SyncInv, NEW n \in Nodes, NEW w \in Nodes, n # w, Expire(n, w)
  PROVE  SyncInv'
<1>1. /\ UNCHANGED <<env, stamp, document, stream, cursor, push, pull, lost>>
      /\ view'[n][w] = Nothing
      /\ \A k, m \in Nodes : k # n \/ m # w => view'[k][m] = view[k][m]
  BY ExpireDoes
<1>2. \A k : Tasks(k)' = Tasks(k)
  BY <1>1 DEF Tasks
<1>3. Reads(n) /\ view'[n][n] = view[n][n] /\ pull' = pull /\ cursor' = cursor
      /\ \A m \in Nodes : view'[n][m] = view[n][m] \/ view'[n][m] = Nothing
  BY <1>1, <1>2 DEF Reads
<1>4. \A m \in Nodes : /\ view'[n][m] # Nothing => Lists(view'[n][m].probes, m)
                       /\ \A t \in Tasks(n)' : t.node = m => Lists(t.base, m)
  <2>1. \A m \in Nodes : ListInv(m)
    BY DEF SyncInv
  <2>2. QED
    BY <1>2, <1>3, <2>1 DEF ListInv
<1>5. \A m \in Nodes : ReadInv(n, m)'
  <2> SUFFICES ASSUME NEW m \in Nodes PROVE ReadInv(n, m)'
    OBVIOUS
  <2>1. ReadInv(n, m)
    BY DEF SyncInv
  <2>2. IF n = m THEN TRUE ELSE /\ IsWriting(m)' <=> IsWriting(m)
                                /\ StampsMatch(m)' <=> StampsMatch(m)
                                /\ Target(m)' = Target(m) /\ Pending(m)' = Pending(m)
    BY <1>1, <1>3 DEF IsWriting, StampsMatch, RemoteStamp, Target, Pending
  <2>3. \A i : /\ Published(m, i)' = Published(m, i)
               /\ n # m => Events(m, i)' = Events(m, i) /\ (Open(m, i)' <=> Open(m, i))
    BY <1>1, <2>2 DEF Published, Events, Open
  <2>4. n # m => \A i : /\ \A l : RightTo(l, m, i)' <=> RightTo(l, m, i)
                        /\ \A t : t.node = m => (TaskRight(t, i)' <=> TaskRight(t, i))
    BY <2>2, <2>3 DEF RightTo, TaskRight
  <2>5. stream' = stream
    BY <1>1
  <2>6. QED
    BY <1>2, <1>3, <2>1, <2>3, <2>4, <2>5 DEF ReadInv
<1>6. QED
  BY <1>3, <1>4, <1>5, ReaderStep

\* What a step of n's pull leaves of the others' events and lists.
LEMMA ReadsFrame ==
  ASSUME TypeOK, NEW n \in Nodes, Reads(n), view'[n][n] = view[n][n], NEW m \in Nodes
  PROVE  /\ stream' = stream
         /\ \A i : /\ Published(m, i)' = Published(m, i) /\ (Open(m, i)' <=> Open(m, i))
                   /\ \A l : RightTo(l, m, i)' <=> RightTo(l, m, i)
                   /\ \A t : t.node = m => (TaskRight(t, i)' <=> TaskRight(t, i))
<1>1. /\ stream' = stream /\ stamp' = stamp /\ document' = document /\ push' = push /\ lost' = lost
      /\ view'[m][m] = view[m][m]
  BY DEF Reads, env
<1>2. /\ IsWriting(m)' <=> IsWriting(m)
      /\ StampsMatch(m)' <=> StampsMatch(m)
      /\ Target(m)' = Target(m) /\ Pending(m)' = Pending(m)
  BY <1>1 DEF IsWriting, StampsMatch, RemoteStamp, Target, Pending
<1>3. \A i : Published(m, i)' = Published(m, i) /\ Events(m, i)' = Events(m, i) /\ (Open(m, i)' <=> Open(m, i))
  BY <1>1, <1>2 DEF Published, Events, Open
<1>4. QED
  BY <1>1, <1>2, <1>3 DEF RightTo, TaskRight

\* A pull ends: if nothing has failed, everything is right up to where it has read.
LEMMA FinishPullStep ==
  ASSUME TypeOK, SyncInv, NEW n \in Readers, FinishPull(n)
  PROVE  SyncInv'
<1>1. n \in Nodes
  BY Constants
<1>2. /\ Reads(n) /\ view' = view
      /\ pull[n] # IdlePull /\ Tasks(n) = {} /\ pull'[n] = IdlePull /\ Tasks(n)' = {}
      /\ cursor'[n] = IF pull[n].failed THEN cursor[n] ELSE pull[n].upto
  BY <1>1, FinishPullDoes
<1>3. \A m \in Nodes : ReadInv(n, m)'
  <2> SUFFICES ASSUME NEW m \in Nodes PROVE ReadInv(n, m)'
    OBVIOUS
  <2>1. ReadInv(n, m)
    BY <1>1 DEF SyncInv
  <2>2. /\ stream' = stream
        /\ \A i : Published(m, i)' = Published(m, i) /\ \A l : RightTo(l, m, i)' <=> RightTo(l, m, i)
    BY <1>1, <1>2, ReadsFrame
  <2>3. pull[n].upto \in 0..StreamLength
    BY <1>1, <1>2, PullFields
  <2>4. QED
    BY <1>2, <2>1, <2>2, <2>3 DEF ReadInv
<1>4. \A m \in Nodes : ListInv(m)
  BY DEF SyncInv
<1>5. QED
  BY <1>1, <1>2, <1>3, <1>4, ReaderStep DEF ListInv

\* A document or a patch that is fetched is right up to where the pull has read.
LEMMA FetchStep ==
  ASSUME TypeOK, SyncInv, NEW n \in Readers, NEW t \in Tasks(n),
         FetchNode(n, t) \/ FetchProbesById(n, t) \/ FetchFails(n, t)
  PROVE  SyncInv'
<1>1. n \in Nodes
  BY Constants
<1> DEFINE k == t.node
<1>2. /\ Reads(n) /\ cursor' = cursor /\ t \in Task
      /\ pull[n] # IdlePull /\ pull'[n] # IdlePull /\ pull'[n].upto = pull[n].upto
      /\ Tasks(n)' = Tasks(n) \ {t}
      /\ \A m \in Nodes : m # k => view'[n][m] = view[n][m]
      /\ \/ pull'[n].failed /\ view'[n][k] = view[n][k]
         \/ /\ pull'[n].failed = pull[n].failed /\ t.whole
            /\ \/ document[k] = Nothing /\ view'[n][k] = view[n][k]
               \/ /\ document[k] # Nothing /\ view'[n][k] # Nothing
                  /\ view'[n][k].probes = document[k].probes
         \/ /\ pull'[n].failed = pull[n].failed /\ ~t.whole /\ view'[n][k] # Nothing
            /\ \A p \in Probes : view'[n][k].probes[p] =
                 IF p \in t.update /\ document[k] # Nothing /\ document[k].probes[p] # 0
                 THEN document[k].probes[p] ELSE t.base[p]
  BY <1>1, FetchDoes
<1>3. k \in Nodes /\ n # k
  <2>1. k \in Nodes
    BY <1>2 DEF Task
  <2>2. QED
    BY <1>1, <2>1 DEF SyncInv, ReadInv
<1>4. ListInv(k) /\ PushInv(k) /\ EventInv(k) /\ ReadInv(n, k)
  BY <1>1, <1>3 DEF SyncInv
<1>5. view'[n][n] = view[n][n]
  BY <1>1, <1>2, <1>3
<1>6. pull[n].upto \in Nat /\ cursor[n] \in Nat /\ cursor[n] <= pull[n].upto
  BY <1>1, <1>2, <1>4, PullFields, Constants DEF TypeOK, ReadInv
<1>7. view'[n][k] # Nothing => \/ pull'[n].failed /\ view'[n][k] = view[n][k]
                               \/ RightTo(view'[n][k].probes, k, pull[n].upto)
  <2> SUFFICES ASSUME view'[n][k] # Nothing, ~(pull'[n].failed /\ view'[n][k] = view[n][k])
               PROVE  RightTo(view'[n][k].probes, k, pull[n].upto)
    OBVIOUS
  <2> DEFINE u == pull[n].upto
  <2>1. Open(k, u) => /\ document[k] # Nothing
                      /\ \A p \in Probes : document[k].probes[p] = Target(k)[p] \/ p \in Touched(Events(k, u))
    BY <1>3, <1>4, DocumentSound
  <2>2. CASE t.whole
    BY <1>2, <2>1, <2>2 DEF RightTo
  <2>3. CASE ~t.whole
    <3>1. TaskRight(t, u)
      BY <1>3, <1>4, <2>3 DEF ReadInv
    <3>2. \A p \in Probes : view'[n][k].probes[p] =
                 IF p \in t.update /\ document[k] # Nothing /\ document[k].probes[p] # 0
                 THEN document[k].probes[p] ELSE t.base[p]
      BY <1>2, <2>3
    <3> HIDE DEF u
    <3>3. Open(k, u) => \A p \in Probes : \/ p \in Touched(Events(k, u))
                                          \/ view'[n][k].probes[p] = Target(k)[p]
      BY <2>1, <3>1, <3>2 DEF TaskRight
    <3>4. QED
      BY <3>3 DEF RightTo, u
  <2>4. QED
    BY <2>2, <2>3
<1>8. view'[n][k] # Nothing => Lists(view'[n][k].probes, k)
  <2>1. /\ view[n][k] # Nothing => Lists(view[n][k].probes, k)
        /\ Lists(t.base, k)
        /\ document[k] # Nothing => Lists(document[k].probes, k)
    BY <1>1, <1>4 DEF ListInv
  <2>2. QED
    BY <1>2, <2>1 DEF Lists
<1>9. \A m \in Nodes : ReadInv(n, m)'
  <2> SUFFICES ASSUME NEW m \in Nodes PROVE ReadInv(n, m)'
    OBVIOUS
  <2>1. ReadInv(n, m)
    BY <1>1 DEF SyncInv
  <2>2. /\ stream' = stream
        /\ \A i : /\ Published(m, i)' = Published(m, i)
                  /\ \A l : RightTo(l, m, i)' <=> RightTo(l, m, i)
                  /\ \A s : s.node = m => (TaskRight(s, i)' <=> TaskRight(s, i))
    BY <1>1, <1>2, <1>5, ReadsFrame
  <2>3. /\ cursor'[n] <= Len(stream)' /\ \A s \in Tasks(n)' : s.node # n
        /\ pull'[n] # IdlePull => cursor'[n] <= pull'[n].upto /\ pull'[n].upto <= Len(stream)'
    BY <1>2, <2>1, <2>2 DEF ReadInv
  <2>4. CASE n = m
    BY <2>3, <2>4 DEF ReadInv
  <2>5. CASE n # m
    <3>1. \A s \in Tasks(n)' : s.node = m => Published(m, 0)' # {} /\ (~s.whole => TaskRight(s, pull[n].upto)')
      BY <1>2, <2>1, <2>2, <2>5 DEF ReadInv
    <3>2. CASE m = k
      <4>1. Published(m, 0)' # {}
        BY <1>2, <2>1, <2>2, <2>5, <3>2 DEF ReadInv
      <4>2. view'[n][m] # Nothing => RightTo(view'[n][m].probes, m, cursor[n])
        <5>1. view'[n][m] # Nothing /\ view'[n][m] = view[n][m] => RightTo(view'[n][m].probes, m, cursor[n])
          BY <2>1, <2>5 DEF ReadInv
        <5>2. view'[n][m] # Nothing /\ RightTo(view'[n][m].probes, m, pull[n].upto) => RightTo(view'[n][m].probes, m, cursor[n])
          BY <1>6, RightToEarlier
        <5>3. QED
          BY <1>7, <3>2, <5>1, <5>2
      <4>3. view'[n][m] # Nothing => pull'[n].failed \/ RightTo(view'[n][m].probes, m, pull[n].upto)
        BY <1>7, <3>2
      <4>4. QED
        BY <1>2, <2>2, <2>3, <2>5, <3>1, <4>1, <4>2, <4>3 DEF ReadInv
    <3>3. CASE m # k
      <4>1. view'[n][m] = view[n][m] /\ (pull[n].failed => pull'[n].failed)
        BY <1>2, <3>3
      <4>2. view'[n][m] # Nothing => Published(m, 0)' # {} /\ RightTo(view[n][m].probes, m, cursor[n])
        BY <2>1, <2>2, <2>5, <4>1 DEF ReadInv
      <4>3. view'[n][m] # Nothing =>
              pull'[n].failed \/ (\E s \in Tasks(n)' : s.node = m) \/ RightTo(view[n][m].probes, m, pull[n].upto)
        BY <1>2, <2>1, <2>5, <3>3, <4>1 DEF ReadInv
      <4>4. QED
        BY <1>2, <2>2, <2>3, <2>5, <3>1, <4>1, <4>2, <4>3 DEF ReadInv
    <3>4. QED
      BY <3>2, <3>3
  <2>6. QED
    BY <2>4, <2>5
<1>10. \A m \in Nodes : /\ view'[n][m] # Nothing => Lists(view'[n][m].probes, m)
                        /\ \A s \in Tasks(n)' : s.node = m => Lists(s.base, m)
  <2> SUFFICES ASSUME NEW m \in Nodes
               PROVE  /\ view'[n][m] # Nothing => Lists(view'[n][m].probes, m)
                      /\ \A s \in Tasks(n)' : s.node = m => Lists(s.base, m)
    OBVIOUS
  <2>1. ListInv(m)
    BY DEF SyncInv
  <2>2. QED
    BY <1>1, <1>2, <1>8, <2>1 DEF ListInv
<1>11. QED
  BY <1>1, <1>2, <1>5, <1>9, <1>10, ReaderStep

\* What a pull makes of the events it reads: a list that is right, or a task that makes one.
LEMMA TaskForRight ==
  ASSUME TypeOK, SyncInv, NEW n \in Nodes, NEW m \in Publishers(n), ~TaskFor(n, m).whole
  PROVE  TaskRight(TaskFor(n, m), Len(stream))
<1> DEFINE c == cursor[n]
           L == Len(stream)
           T == TaskFor(n, m)
<1>1. /\ m \in Nodes /\ n # m /\ T.node = m /\ view[n][m] # Nothing /\ ~MustReload(n, m) /\ T.update = Updates(n, m)
      /\ \A p \in Probes : T.base[p] = IF p \in Removes(n, m) THEN 0 ELSE view[n][m].probes[p]
  <2>1. /\ m \in Nodes \ {n} /\ TaskFor(n, m) \in Task /\ TaskFor(n, m).node = m
        /\ ~TaskFor(n, m).whole =>
             /\ view[n][m] # Nothing /\ ~MustReload(n, m)
             /\ TaskFor(n, m).update = Updates(n, m)
             /\ \A p \in Probes : TaskFor(n, m).base[p] = IF p \in Removes(n, m) THEN 0 ELSE view[n][m].probes[p]
    BY TaskType
  <2>2. QED
    BY <2>1
<1>2. L \in Nat /\ c \in Nat /\ c <= L
  <2>1. ReadInv(n, m)
    BY <1>1 DEF SyncInv
  <2>2. QED
    BY <2>1, Constants DEF TypeOK, ReadInv
<1>3. EventInv(m) /\ RightTo(view[n][m].probes, m, c)
  BY <1>1 DEF SyncInv, ReadInv
<1>4. Published(m, c) = {stream[i] : i \in UnreadOf(n, m)}
  BY DEF Published, UnreadOf, Unread
<1>5. Removes(n, m) = RemovedBy(Published(m, c)) /\ Updates(n, m) = UpdatedBy(Published(m, c))
      /\ ~Reloads(Published(m, c)) /\ c # 0
  BY <1>1, <1>4 DEF Removes, Updates, RemovedBy, UpdatedBy, Reloads, MustReload
<1> HIDE DEF c, L, T
<1>6. SUFFICES ASSUME Open(m, L), NEW p \in Probes, p \notin Touched(Events(m, L)), T.base[p] # Target(m)[p]
               PROVE  p \in T.update /\ Target(m)[p] # 0
  BY <1>1 DEF TaskRight, T, L
<1>7. Events(m, L) = Pending(m)
  <2>1. Published(m, L) = {}
    BY <1>2 DEF Published, L
  <2>2. QED
    BY <2>1 DEF Events
<1>8. Open(m, c)
  BY <1>5, <1>6, <1>7, TouchedParts DEF Open
<1>9. p \notin Touched(Pending(m)) /\ p \notin RemovedBy(Pending(m))
  BY <1>6, <1>7 DEF Touched
<1>10. p \notin Removes(n, m)
  <2> SUFFICES ASSUME p \in Removes(n, m) PROVE FALSE
    OBVIOUS
  <2>1. p \in RemovedBy(Events(m, 0))
    <3>1. p \in RemovedBy(Events(m, c))
      BY <1>5, TouchedParts
    <3>2. QED
      BY <1>1, <1>2, <3>1, EventsShrink
  <2>2. Target(m)[p] = 0
    BY <1>3, <1>6, <2>1 DEF EventInv, Open
  <2>3. QED
    BY <1>1, <1>6, <2>2
<1>11. T.base[p] = view[n][m].probes[p]
  BY <1>1, <1>10
<1>12. p \in Touched(Events(m, c))
  BY <1>3, <1>6, <1>8, <1>11 DEF RightTo
<1>13. p \in UpdatedBy(Published(m, c))
  <2>1. p \in Touched(Published(m, c))
    BY <1>9, <1>12, TouchedParts
  <2>2. QED
    BY <1>5, <1>10, <2>1 DEF Touched
<1>14. Target(m)[p] # 0
  <2> SUFFICES ASSUME Target(m)[p] = 0 PROVE FALSE
    OBVIOUS
  <2>1. PICK i \in UnreadOf(n, m) : p \in stream[i].update
    BY <1>4, <1>13 DEF UpdatedBy
  <2>2. i \in (c + 1)..L /\ stream[i].node = m
    BY DEF UnreadOf, Unread, c, L
  <2>3. i \in 1..L /\ i \in Nat /\ c <= i
    BY <1>2, <2>2
  <2>4. Open(m, i)
    BY <1>1, <1>2, <1>5, <1>8, <2>3, EventsShrink
  <2>5. p \in RemovedBy(Events(m, i))
    BY <1>3, <2>1, <2>2, <2>3, <2>4 DEF EventInv, L
  <2>6. p \in RemovedBy(Events(m, c))
    BY <1>1, <1>2, <2>3, <2>5, EventsShrink
  <2>7. p \in RemovedBy(Published(m, c))
    BY <1>9, <2>6, TouchedParts
  <2>8. QED
    BY <1>5, <1>10, <2>7
<1>15. QED
  BY <1>1, <1>5, <1>13, <1>14

\* A pull starts with all the events that are there.
LEMMA StartPullStep ==
  ASSUME TypeOK, SyncInv, NEW n \in Readers, StartPull(n)
  PROVE  SyncInv'
<1>1. n \in Nodes
  BY Constants
<1>2. /\ Reads(n) /\ cursor' = cursor
      /\ pull[n] = IdlePull /\ pull'[n] # IdlePull /\ ~pull'[n].failed /\ pull'[n].upto = Len(stream)
      /\ \A t \in Tasks(n)' : t.node \in Publishers(n) /\ t = TaskFor(n, t.node)
      /\ \A m \in Publishers(n) :
           \/ TaskFor(n, m) \in Tasks(n)' /\ view'[n][m] = view[n][m]
           \/ /\ Immediate(TaskFor(n, m)) /\ view'[n][m] # Nothing /\ view'[n][m].probes = TaskFor(n, m).base
      /\ \A m \in Nodes \ Publishers(n) : view'[n][m] = view[n][m]
  BY <1>1, StartPullDoes
<1>3. view'[n][n] = view[n][n]
  BY <1>1, <1>2 DEF Publishers
<1>4. ASSUME NEW m \in Publishers(n)
      PROVE  /\ m \in Nodes \ {n} /\ TaskFor(n, m) \in Task /\ TaskFor(n, m).node = m
             /\ ~TaskFor(n, m).whole =>
                  /\ view[n][m] # Nothing
                  /\ \A p \in Probes : TaskFor(n, m).base[p] = IF p \in Removes(n, m) THEN 0 ELSE view[n][m].probes[p]
  BY <1>1, TaskType
<1> DEFINE L == Len(stream)
<1>5. L \in Nat /\ cursor[n] \in Nat
  BY <1>1, Constants DEF TypeOK
<1>6. \A m \in Nodes : ReadInv(n, m)'
  <2> SUFFICES ASSUME NEW m \in Nodes PROVE ReadInv(n, m)'
    OBVIOUS
  <2>1. ReadInv(n, m)
    BY <1>1 DEF SyncInv
  <2>2. /\ stream' = stream
        /\ \A i : /\ Published(m, i)' = Published(m, i)
                  /\ \A l : RightTo(l, m, i)' <=> RightTo(l, m, i)
                  /\ \A t : t.node = m => (TaskRight(t, i)' <=> TaskRight(t, i))
    BY <1>1, <1>2, <1>3, ReadsFrame
  <2>3. cursor[n] <= L
    BY <2>1 DEF ReadInv
  <2>4. /\ cursor'[n] <= Len(stream)' /\ \A t \in Tasks(n)' : t.node # n
        /\ cursor'[n] <= pull'[n].upto /\ pull'[n].upto <= Len(stream)'
    <3>1. \A t \in Tasks(n)' : t.node \in Nodes \ {n}
      BY <1>2, <1>4
    <3>2. QED
      BY <1>2, <1>5, <2>2, <2>3, <3>1
  <2>5. CASE n = m
    BY <2>4, <2>5 DEF ReadInv
  <2>6. CASE n # m /\ m \in Publishers(n)
    <3>1. Published(m, 0) # {}
      <4>1. PICK i \in UnreadOf(n, m) : TRUE
        BY <2>6 DEF Publishers, UnreadOf
      <4>2. i \in (0 + 1)..Len(stream) /\ stream[i].node = m
        BY <1>5 DEF UnreadOf, Unread
      <4>3. QED
        BY <4>2 DEF Published
    <3>2. ~TaskFor(n, m).whole => TaskRight(TaskFor(n, m), L)
      BY <1>1, <2>6, TaskForRight
    <3>3. Immediate(TaskFor(n, m)) => RightTo(TaskFor(n, m).base, m, L)
      BY <1>4, <2>6, <3>2 DEF Immediate, TaskRight, RightTo
    <3>4. \A t \in Tasks(n)' : t.node = m /\ ~t.whole => TaskRight(t, L)'
      BY <1>2, <1>4, <2>2, <2>6, <3>2
    <3>5. view'[n][m] # Nothing => RightTo(view'[n][m].probes, m, cursor[n])
      <4>1. view'[n][m] # Nothing /\ view'[n][m] = view[n][m] => RightTo(view'[n][m].probes, m, cursor[n])
        BY <2>1, <2>6 DEF ReadInv
      <4>2. RightTo(view'[n][m].probes, m, L) => RightTo(view'[n][m].probes, m, cursor[n])
        BY <1>5, <2>3, RightToEarlier
      <4>3. QED
        BY <1>2, <2>6, <3>3, <4>1, <4>2
    <3>6. (\E t \in Tasks(n)' : t.node = m) \/ RightTo(view'[n][m].probes, m, L)
      BY <1>2, <1>4, <2>6, <3>3
    <3>7. QED
      BY <1>2, <2>2, <2>4, <2>6, <3>1, <3>4, <3>5, <3>6 DEF ReadInv
  <2>7. CASE n # m /\ m \notin Publishers(n)
    <3>1. view'[n][m] = view[n][m] /\ \A t \in Tasks(n)' : t.node # m
      BY <1>2, <2>7
    <3>2. view[n][m] # Nothing => Published(m, 0) # {} /\ RightTo(view[n][m].probes, m, cursor[n])
      BY <2>1, <2>7 DEF ReadInv
    <3>3. Published(m, cursor[n]) = {}
      BY <2>7 DEF Published, Publishers, Unread
    <3>4. view[n][m] # Nothing => RightTo(view[n][m].probes, m, L)
      <4> SUFFICES ASSUME view[n][m] # Nothing PROVE RightTo(view[n][m].probes, m, L)
        OBVIOUS
      <4>1. cursor[n] # 0
        BY <3>2, <3>3
      <4>2. Published(m, L) = {}
        BY <1>5 DEF Published
      <4>3. Events(m, L) = Events(m, cursor[n])
        BY <3>3, <4>2 DEF Events
      <4>4. Open(m, L) => Open(m, cursor[n])
        BY <4>1, <4>3 DEF Open
      <4>5. QED
        BY <3>2, <4>3, <4>4 DEF RightTo
    <3>5. QED
      BY <1>2, <2>2, <2>4, <2>7, <3>1, <3>2, <3>4 DEF ReadInv
  <2>8. QED
    BY <2>5, <2>6, <2>7
<1>7. \A m \in Nodes : /\ view'[n][m] # Nothing => Lists(view'[n][m].probes, m)
                       /\ \A t \in Tasks(n)' : t.node = m => Lists(t.base, m)
  <2> SUFFICES ASSUME NEW m \in Nodes
               PROVE  /\ view'[n][m] # Nothing => Lists(view'[n][m].probes, m)
                      /\ \A t \in Tasks(n)' : t.node = m => Lists(t.base, m)
    OBVIOUS
  <2>1. view[n][m] # Nothing => Lists(view[n][m].probes, m)
    BY <1>1 DEF SyncInv, ListInv
  <2>2. m \in Publishers(n) => Lists(TaskFor(n, m).base, m)
    <3> SUFFICES ASSUME m \in Publishers(n) PROVE Lists(TaskFor(n, m).base, m)
      OBVIOUS
    <3>1. CASE TaskFor(n, m).whole
      BY <3>1 DEF TaskFor, Lists
    <3>2. CASE ~TaskFor(n, m).whole
      <4>1. view[n][m] # Nothing
            /\ \A p \in Probes : TaskFor(n, m).base[p] = IF p \in Removes(n, m) THEN 0 ELSE view[n][m].probes[p]
        BY <1>4, <3>2
      <4>2. QED
        BY <2>1, <4>1 DEF Lists
    <3>3. QED
      BY <3>1, <3>2
  <2>3. QED
    BY <1>2, <2>1, <2>2
<1>8. QED
  BY <1>1, <1>2, <1>3, <1>6, <1>7, ReaderStep

-------------------------------------------------------------------------------
(* Agreement *)

\* At first nothing is listed, written or announced.
LEMMA InitSync == Init => SyncInv
<1> SUFFICES ASSUME Init PROVE SyncInv
  OBVIOUS
<1>1. \A m \in Nodes : /\ push[m] = IdlePush /\ push[m].state = "idle" /\ ~IsWriting(m) /\ Pending(m) = {}
                       /\ pull[m] = IdlePull /\ Tasks(m) = {} /\ document[m] = Nothing /\ cursor[m] = 0
                       /\ \A n \in Nodes : view[n][m] = Nothing
  BY DEF Init, IdlePush, IsWriting, Pending, Tasks
<1>2. \A m \in Nodes : ~StampsMatch(m)
  BY <1>1 DEF StampsMatch
<1>3. stream = <<>> /\ Len(stream) = 0
  BY DEF Init
<1>4. \A m \in Nodes : Events(m, 0) = {}
  <2>1. \A m \in Nodes : Published(m, 0) = {}
    BY <1>3 DEF Published
  <2>2. QED
    BY <1>1, <2>1 DEF Events
<1>5. ASSUME NEW m \in Nodes PROVE PushInv(m) /\ EventInv(m) /\ ListInv(m)
  <2>1. PushInv(m)
    BY <1>1, <1>2 DEF PushInv
  <2>2. EventInv(m)
    BY <1>1, <1>3, <1>4 DEF EventInv, RemovedBy, UpdatedBy
  <2>3. ListInv(m)
    BY <1>1 DEF ListInv
  <2>4. QED
    BY <2>1, <2>2, <2>3
<1>6. \A n, m \in Nodes : ReadInv(n, m)
  BY <1>1, <1>3 DEF ReadInv
<1>7. QED
  BY <1>5, <1>6 DEF SyncInv

\* Every step keeps the lists right.
LEMMA SyncStep == TypeOK /\ SyncInv /\ [Next]_vars => SyncInv'
<1> SUFFICES ASSUME TypeOK, SyncInv, [Next]_vars PROVE SyncInv'
  OBVIOUS
<1>1. CASE UNCHANGED vars
  <2>1. /\ stage' = stage /\ home' = home /\ view' = view /\ stamp' = stamp /\ document' = document /\ stream' = stream
        /\ cursor' = cursor /\ push' = push /\ pull' = pull /\ lost' = lost
    BY <1>1 DEF vars, env, caches
  <2>2. \A m : /\ IsWriting(m)' <=> IsWriting(m)
               /\ StampsMatch(m)' <=> StampsMatch(m)
               /\ Target(m)' = Target(m) /\ Pending(m)' = Pending(m) /\ Tasks(m)' = Tasks(m)
    BY <2>1 DEF IsWriting, StampsMatch, RemoteStamp, Target, Pending, Tasks
  <2>3. \A m : \A i : /\ Published(m, i)' = Published(m, i) /\ Events(m, i)' = Events(m, i)
                      /\ Open(m, i)' <=> Open(m, i)
    BY <2>1, <2>2 DEF Published, Events, Open
  <2>4. \A m : /\ PushInv(m)' <=> PushInv(m)
               /\ EventInv(m)' <=> EventInv(m)
               /\ ListInv(m)' <=> ListInv(m)
    BY <2>1, <2>2, <2>3 DEF PushInv, EventInv, ListInv, Lists
  <2>5. \A n, m : ReadInv(n, m)' <=> ReadInv(n, m)
    BY <2>1, <2>2, <2>3 DEF ReadInv, RightTo, TaskRight
  <2>6. QED
    BY <2>4, <2>5 DEF SyncInv
<1>2. CASE EnvStep
  BY <1>2, EnvSyncStep
<1>3. ASSUME NEW w \in Hosts, PushStep(w) PROVE SyncInv'
  BY <1>3, PushReloadStep, PushDiffStep, PushAliveStep, WriteDocumentStep, PublishStep DEF PushStep
<1>4. ASSUME NEW w \in Hosts, PushFails(w) \/ LoseEvent(w) PROVE SyncInv'
  BY <1>4, PushEndsStep
<1>5. ASSUME NEW w \in Hosts, Evict(w) PROVE SyncInv'
  BY <1>5, LossStep, Constants
<1>6. ASSUME NEW n \in Readers, PullStep(n) PROVE SyncInv'
  BY <1>6, StartPullStep, FetchStep, FinishPullStep DEF PullStep
<1>7. ASSUME NEW n \in Nodes, NEW m \in Nodes, Expire(n, m) PROVE SyncInv'
  <2>1. CASE n = m
    BY <1>7, <2>1, LossStep
  <2>2. CASE n # m
    BY <1>7, <2>2, ExpireStep
  <2>3. QED
    BY <2>1, <2>2
<1>8. QED
  BY <1>1, <1>2, <1>3, <1>4, <1>5, <1>6, <1>7 DEF Next

\* The types of the variables, and what keeps the lists of the nodes together, always hold.
THEOREM SyncInvariant == Spec => [](TypeOK /\ SyncInv)
<1>1. Init => TypeOK /\ SyncInv
  BY InitType, InitSync
<1>2. TypeOK /\ SyncInv /\ [Next]_vars => (TypeOK /\ SyncInv)'
  BY TypeStep, SyncStep
<1>3. QED
  BY <1>1, <1>2, PTL DEF Spec

\* A node that has read all the events of another one agrees with it on its probes, for any number
\* of nodes and probes, any length of the stream, and whatever fails on the way.
THEOREM CaughtUpNodesAlwaysAgree == Spec => []CaughtUpNodesAgree
<1>1. TypeOK /\ SyncInv => CaughtUpNodesAgree
  <2> SUFFICES ASSUME TypeOK, SyncInv, lost # "unnoticed", NEW n \in Nodes, NEW m \in Nodes,
                      push[m] = IdlePush, view[m][m] # Nothing,
                      document[m] # Nothing, document[m].stamp = stamp[m],
                      pull[n] = IdlePull, m \notin Publishers(n), view[n][m] # Nothing
               PROVE  view[n][m].probes = view[m][m].probes
    BY DEF CaughtUpNodesAgree
  <2>1. CASE n = m
    BY <2>1
  <2>2. CASE n # m
    <3>1. Published(m, 0) # {} /\ RightTo(view[n][m].probes, m, cursor[n])
      BY <2>2 DEF SyncInv, ReadInv
    <3>2. Published(m, cursor[n]) = {}
      BY <2>2 DEF Published, Publishers, Unread
    <3>3. cursor[n] # 0
      BY <3>1, <3>2
    <3>4. Events(m, cursor[n]) = {}
      BY <3>2 DEF Events, Pending
    <3>5. StampsMatch(m)
      BY DEF StampsMatch, RemoteStamp
    <3>6. Open(m, cursor[n])
      BY <3>3, <3>4, <3>5 DEF Open, Reloads
    <3>7. Target(m) = view[m][m].probes
      BY DEF Target, IsWriting, IdlePush
    <3>8. \A p \in Probes : view[n][m].probes[p] = view[m][m].probes[p]
      BY <3>1, <3>4, <3>6, <3>7 DEF RightTo, Touched, RemovedBy, UpdatedBy
    <3>9. view[n][m].probes \in ProbesById /\ view[m][m].probes \in ProbesById
      BY DEF TypeOK, Entry
    <3>10. QED
      BY <3>8, <3>9 DEF ProbesById
  <2>3. QED
    BY <2>1, <2>2
<1>2. QED
  BY <1>1, SyncInvariant, PTL

-------------------------------------------------------------------------------
(* What is fresh to a call of fetchProbes *)

\* A change to the list of m's probes is in the document before it is published.
Announced(m) == Published(m, 0) \cup (IF push[m].state = "publishing" THEN Pending(m) ELSE {})

\* The probes about which this list of m's says what a call of fetchProbes is waiting for.
FreshProbes(l, m) == {p \in Probes : home[p] = m => FreshEnough(l[p], p)}
AllFresh(l, m) == \A p \in Probes : p \in FreshProbes(l, m)

\* And those about which the list will that this task is going to make of a fresh document.
TaskProbes(t) == {p \in Probes : home[p] = t.node =>
  IF p \in t.update THEN t.base[p] = 0 \/ asked[p] # Gone ELSE FreshEnough(t.base[p], p)}

\* A reader of these events takes the list that they make for fresh.  It is, if it is fresh for the
\* probes in S before.
IsFresh(E) == (\E e \in E : e.fresh) /\ ~Reloads(E)
Covers(E, S) == IsFresh(E) => \A p \in Probes : p \in Touched(E) \/ p \in S
FreshTo(S, m, i) == i # 0 => Covers(Published(m, i), S) /\ Covers(Events(m, i), S)

\* Before the call nothing is fresh.
NothingFresh ==
  \A m \in Nodes :
    /\ \A n \in Nodes : /\ view[n][m] # Nothing => ~view[n][m].fresh
                        /\ \A t \in Tasks(n) : ~t.fresh
    /\ document[m] # Nothing => ~document[m].fresh
    /\ IsWriting(m) => ~push[m].data.fresh
    /\ \A e \in Events(m, 0) : ~e.fresh

AskedInv == asked # Nothing => \A p \in Probes : asked[p] <= stage[p]

\* Events and tasks update probes that the document has, unless they are gone.
Known(p, m) == home[p] = m /\ stage[p] # 0

WrittenInv(m) ==
  /\ Announced(m) # {} => document[m] # Nothing
  /\ \A p \in Probes :
       p \in UpdatedBy(Announced(m)) \/ (\E n \in Nodes : \E t \in Tasks(n) : t.node = m /\ p \in t.update) =>
         /\ Known(p, m)
         /\ \/ stage[p] = Gone
            \/ document[m].probes[p] # 0 /\ (IsWriting(m) => push[m].data.probes[p] # 0)
  /\ IsWriting(m) => \A p \in push[m].event.update : Known(p, m) /\ push[m].data.probes[p] # 0

\* What has been announced as fresh has been written.
DocumentInv(m) ==
  /\ document[m] # Nothing /\ document[m].fresh => AllFresh(document[m].probes, m)
  /\ IsWriting(m) =>
       /\ push[m].data.fresh => AllFresh(push[m].data.probes, m)
       /\ push[m].event.fresh => push[m].data.fresh
  /\ (\E e \in Announced(m) : e.fresh) \/ (\E n \in Nodes : \E t \in Tasks(n) : t.node = m /\ t.fresh) =>
       /\ AllFresh(document[m].probes, m)
       /\ IsWriting(m) => AllFresh(push[m].data.probes, m)

\* Whoever had left before the call is not updated by a fresh event, and removed again if it was
\* updated by an earlier one.
Retracts(E, p) == IsFresh(E) => p \in RemovedBy(E)

UpdateInv(m) ==
  /\ \A e \in Events(m, 0) : e.fresh => \A p \in e.update : asked[p] # Gone
  /\ \A i \in 1..Len(stream), p \in Probes :
       stream[i].node = m /\ p \in stream[i].update /\ asked[p] = Gone =>
         Retracts(Published(m, i), p) /\ Retracts(Events(m, i), p)

\* Lists that are taken for fresh are, and events that are fresh make them so.
FreshReadInv(n, m) ==
  /\ view[n][m] # Nothing /\ view[n][m].fresh => AllFresh(view[n][m].probes, m)
  /\ n # m =>
     /\ view[n][m] # Nothing => FreshTo(FreshProbes(view[n][m].probes, m), m, cursor[n])
     /\ \A t \in Tasks(n) : t.node = m /\ ~t.whole =>
          /\ FreshTo(TaskProbes(t), m, cursor[n]) /\ FreshTo(TaskProbes(t), m, pull[n].upto)
          /\ t.fresh => \A p \in Probes : p \in TaskProbes(t)
     /\ pull[n] # IdlePull /\ view[n][m] # Nothing =>
          \/ pull[n].failed \/ \E t \in Tasks(n) : t.node = m
          \/ FreshTo(FreshProbes(view[n][m].probes, m), m, pull[n].upto)

FreshInv ==
  /\ asked = Nothing => NothingFresh
  /\ AskedInv
  /\ lost = "nothing" => \A m \in Nodes : WrittenInv(m)
  /\ lost = "nothing" /\ asked # Nothing =>
       \A m \in Nodes : DocumentInv(m) /\ UpdateInv(m) /\ \A n \in Nodes : FreshReadInv(n, m)

\* Whoever collects its probes after the call knows enough about them.
LEMMA LocalFresh ==
  ASSUME TypeOK, asked # Nothing, \A p \in Probes : asked[p] <= stage[p], NEW m \in Nodes
  PROVE  /\ AllFresh(Local(m), m)
         /\ \A p \in Probes : /\ Local(m)[p] # 0 => asked[p] # Gone
                              /\ stage[p] = Gone => FreshEnough(0, p)
                              /\ stage[p] = Gone /\ asked[p] # Gone => \A v : FreshEnough(v, p)
<1> SUFFICES ASSUME NEW p \in Probes
             PROVE  /\ home[p] = m => FreshEnough(Local(m)[p], p)
                    /\ Local(m)[p] # 0 => asked[p] # Gone
                    /\ stage[p] = Gone => FreshEnough(0, p)
                    /\ stage[p] = Gone /\ asked[p] # Gone => \A v : FreshEnough(v, p)
  BY DEF AllFresh, FreshProbes
<1>1. asked[p] \in 0..Gone /\ stage[p] \in 0..Gone /\ asked[p] <= stage[p] /\ Gone \in Nat /\ Gone # 0
  BY Constants DEF TypeOK
<1>2. Local(m)[p] = IF home[p] = m /\ stage[p] # Gone THEN stage[p] ELSE 0
  BY DEF Local
<1>3. stage[p] = 0 => asked[p] = 0
  BY <1>1
<1>4. Local(m)[p] # 0 => asked[p] # Gone
  BY <1>1, <1>2
<1>5. home[p] = m => FreshEnough(Local(m)[p], p)
  BY <1>1, <1>2, <1>3 DEF FreshEnough
<1>6. QED
  BY <1>4, <1>5 DEF FreshEnough

\* The list that m announces, if it is the one of its probes now, is fresh to whoever reads all its events.
CollectedFresh ==
  \A m \in Nodes, i \in Nat \ {0} : (IsWriting(m) \/ StampsMatch(m)) /\ Target(m) = Local(m) =>
    /\ \A l : RightTo(l, m, i) => Covers(Events(m, i), FreshProbes(l, m))
    /\ \A t : \A j \in Nat : t.node = m /\ i <= j /\ TaskRight(t, j) => Covers(Events(m, i), TaskProbes(t))
    /\ \A p \in Probes : i <= Len(stream) /\ stream[i].node = m /\ p \in stream[i].update /\ asked[p] = Gone =>
         Retracts(Events(m, i), p)

LEMMA TargetFresh == TypeOK /\ SyncInv /\ asked # Nothing /\ AskedInv /\ lost # "unnoticed" => CollectedFresh
<1> SUFFICES ASSUME TypeOK, SyncInv, asked # Nothing, AskedInv, lost # "unnoticed",
                    NEW m \in Nodes, NEW i \in Nat \ {0}, IsWriting(m) \/ StampsMatch(m), Target(m) = Local(m)
             PROVE  /\ \A l : RightTo(l, m, i) => Covers(Events(m, i), FreshProbes(l, m))
                    /\ \A t : \A j \in Nat : t.node = m /\ i <= j /\ TaskRight(t, j) => Covers(Events(m, i), TaskProbes(t))
                    /\ \A p \in Probes : i <= Len(stream) /\ stream[i].node = m /\ p \in stream[i].update /\ asked[p] = Gone =>
                         Retracts(Events(m, i), p)
  BY DEF CollectedFresh
<1>1. IsFresh(Events(m, i)) => Open(m, i)
  BY DEF IsFresh, Open
<1>2. /\ \A p \in Probes : home[p] = m => FreshEnough(Local(m)[p], p)
      /\ \A p \in Probes : Local(m)[p] # 0 => asked[p] # Gone
  BY LocalFresh DEF AllFresh, FreshProbes, AskedInv
<1>3. ASSUME NEW l, RightTo(l, m, i) PROVE Covers(Events(m, i), FreshProbes(l, m))
  BY <1>1, <1>2, <1>3 DEF Covers, RightTo, FreshProbes
<1>4. ASSUME NEW t, NEW j \in Nat, t.node = m, i <= j, TaskRight(t, j) PROVE Covers(Events(m, i), TaskProbes(t))
  <2> SUFFICES ASSUME Open(m, i), NEW p \in Probes, p \notin Touched(Events(m, i))
               PROVE  p \in TaskProbes(t)
    BY <1>1 DEF Covers
  <2>1. Open(m, j) /\ p \notin Touched(Events(m, j))
    BY <1>4, EventsShrink
  <2>2. t.base[p] = Local(m)[p] \/ (p \in t.update /\ Local(m)[p] # 0)
    <3>1. \/ p \in Touched(Events(m, j)) \/ t.base[p] = Target(m)[p]
          \/ p \in t.update /\ Target(m)[p] # 0
      BY <1>4, <2>1 DEF TaskRight
    <3>2. QED
      BY <2>1, <3>1
  <2>3. QED
    BY <1>2, <1>4, <2>2 DEF TaskProbes
<1>5. ASSUME NEW p \in Probes, i <= Len(stream), stream[i].node = m, p \in stream[i].update, asked[p] = Gone
      PROVE  Retracts(Events(m, i), p)
  <2>1. EventInv(m) /\ i \in 1..Len(stream)
    BY <1>5 DEF SyncInv, TypeOK
  <2>2. QED
    BY <1>1, <1>2, <1>5, <2>1 DEF EventInv, Retracts
<1>6. QED
  BY <1>3, <1>4, <1>5

\* Of course that holds in the next state as well.
LEMMA TargetFreshNext ==
  (TypeOK /\ SyncInv /\ asked # Nothing /\ AskedInv /\ lost # "unnoticed" => CollectedFresh)'
BY TargetFresh, PTL

\* The same call sees the same as long as no probe does anything.
LEMMA FreshFrame ==
  ASSUME stage' = stage, home' = home, asked' = asked
  PROVE  /\ \A l, m : FreshProbes(l, m)' = FreshProbes(l, m) /\ (AllFresh(l, m)' <=> AllFresh(l, m))
         /\ \A t : TaskProbes(t)' = TaskProbes(t)
         /\ \A p, m : Known(p, m)' <=> Known(p, m)
         /\ \A E, p : Retracts(E, p)' <=> Retracts(E, p)
<1>1. \A l, m : FreshProbes(l, m)' = FreshProbes(l, m)
  BY DEF FreshProbes, FreshEnough
<1>2. \A t : TaskProbes(t)' = TaskProbes(t)
  BY DEF TaskProbes, FreshEnough
<1>3. \A p, m : Known(p, m)' <=> Known(p, m)
  BY DEF Known
<1>4. QED
  BY <1>1, <1>2, <1>3 DEF AllFresh

\* What m has announced is among its events.
LEMMA AnnouncedParts ==
  ASSUME TypeOK, NEW m \in Nodes
  PROVE  /\ Announced(m) \subseteq Events(m, 0)
         /\ \A i \in Nat : Published(m, i) \subseteq Announced(m)
         /\ push[m].state = "publishing" => Announced(m) = Events(m, 0)
         /\ push[m].state # "publishing" => Announced(m) = Published(m, 0)
<1>1. \A i \in Nat : Published(m, i) \subseteq Published(m, 0)
  <2> SUFFICES ASSUME NEW i \in Nat PROVE Published(m, i) \subseteq Published(m, 0)
    OBVIOUS
  <2>1. 0 \in Nat /\ 0 <= i
    OBVIOUS
  <2>2. QED
    BY <2>1, EventsShrink
<1>2. QED
  BY <1>1 DEF Announced, Events

\* What w writes and announces itself is fresh only after the call.
OwnUnfresh(w) ==
  /\ view[w][w] # Nothing => ~view[w][w].fresh
  /\ document[w] # Nothing => ~document[w].fresh
  /\ IsWriting(w) => ~push[w].data.fresh
  /\ \A e \in Pending(w) : ~e.fresh

\* And what is marked as such is.
OwnFresh(w) ==
  /\ DocumentInv(w)
  /\ view[w][w] # Nothing /\ view[w][w].fresh => AllFresh(view[w][w].probes, w)
  /\ \A e \in Pending(w) : e.fresh => \A p \in e.update : asked[p] # Gone

\* A step of w's push keeps what is fresh to readers if it collects its probes, gives up, or has them reload.
LEMMA WriterFresh ==
  ASSUME TypeOK, SyncInv, FreshInv, TypeOK', SyncInv', NEW w \in Nodes, Writes(w),
         lost' = "nothing" => lost = "nothing",
         asked = Nothing => OwnUnfresh(w)',
         lost' = "nothing" => WrittenInv(w)',
         lost' = "nothing" /\ asked # Nothing =>
           /\ OwnFresh(w)'
           /\ \/ Pending(w)' = {} \/ Pending(w)' = Pending(w) \/ Reloads(Pending(w))'
              \/ Target(w)' = Local(w)' /\ (IsWriting(w)' \/ StampsMatch(w)')
  PROVE  FreshInv'
<1>1. /\ stage' = stage /\ home' = home /\ asked' = asked /\ stream' = stream /\ cursor' = cursor /\ pull' = pull
      /\ \A n \in Nodes : Tasks(n)' = Tasks(n)
      /\ \A m, i : Published(m, i)' = Published(m, i)
  BY DEF Writes, env, Tasks, Published
<1>2. \A m \in Nodes \ {w} : push'[m] = push[m] /\ document'[m] = document[m] /\ view'[m][m] = view[m][m]
  BY DEF Writes
<1>3. \A m \in Nodes \ {w} :
        /\ IsWriting(m)' <=> IsWriting(m)
        /\ Pending(m)' = Pending(m) /\ Announced(m)' = Announced(m)
        /\ \A i : Events(m, i)' = Events(m, i)
  BY <1>1, <1>2 DEF IsWriting, Pending, Announced, Events
<1>4. \A n, m \in Nodes : n # w \/ m # w => view'[n][m] = view[n][m]
  BY DEF Writes
<1>5. asked' = Nothing => NothingFresh'
  <2> SUFFICES ASSUME asked' = Nothing PROVE NothingFresh'
    OBVIOUS
  <2>1. NothingFresh /\ OwnUnfresh(w)'
    BY <1>1 DEF FreshInv
  <2>2. \A e \in Events(w, 0)' : ~e.fresh
    BY <1>1, <2>1 DEF Events, NothingFresh, OwnUnfresh
  <2>3. QED
    BY <1>1, <1>2, <1>3, <1>4, <2>1, <2>2 DEF NothingFresh, OwnUnfresh
<1>6. AskedInv'
  BY <1>1 DEF AskedInv, FreshInv
<1>7. ASSUME lost' = "nothing", NEW m \in Nodes PROVE WrittenInv(m)'
  <2>1. CASE m = w
    BY <1>7, <2>1
  <2>2. CASE m # w
    <3>1. WrittenInv(m)
      BY <1>7 DEF FreshInv
    <3>2. \A p : Known(p, m)' <=> Known(p, m)
      BY <1>1 DEF Known
    <3>3. QED
      BY <1>1, <1>2, <1>3, <2>2, <3>1, <3>2 DEF WrittenInv
  <2>3. QED
    BY <2>1, <2>2
<1>8. ASSUME lost' = "nothing", asked' # Nothing, NEW m \in Nodes
      PROVE  DocumentInv(m)' /\ UpdateInv(m)' /\ \A n \in Nodes : FreshReadInv(n, m)'
  <2>1. DocumentInv(m) /\ UpdateInv(m) /\ \A n \in Nodes : FreshReadInv(n, m)
    BY <1>1, <1>8 DEF FreshInv
  <2>2. /\ \A l : FreshProbes(l, m)' = FreshProbes(l, m) /\ (AllFresh(l, m)' <=> AllFresh(l, m))
        /\ \A t : TaskProbes(t)' = TaskProbes(t)
        /\ \A E, p : Retracts(E, p)' <=> Retracts(E, p)
    BY <1>1, FreshFrame
  <2>3. m = w => OwnFresh(m)'
    BY <1>1, <1>8
  <2>4. DocumentInv(m)'
    <3>1. CASE m = w
      BY <2>3, <3>1 DEF OwnFresh
    <3>2. CASE m # w
      BY <1>1, <1>2, <1>3, <2>1, <2>2, <3>2 DEF DocumentInv
    <3>3. QED
      BY <3>1, <3>2
\* The events either are those there were, or those there were in the stream, or have the readers start
\* again, or make the list what it is now.
  <2>5. \/ \A i : Events(m, i)' = Events(m, i)
        \/ \A i : Events(m, i)' = Published(m, i)
        \/ \A i : ~IsFresh(Events(m, i)')
        \/ Target(m)' = Local(m)' /\ (IsWriting(m)' \/ StampsMatch(m)')
    <3>1. CASE m # w
      BY <1>3, <3>1
    <3>2. CASE m = w
      <4>1. \A i : Events(m, i)' = Published(m, i) \cup Pending(m)'
        BY <1>1 DEF Events
      <4>2. CASE Pending(m)' = {}
        BY <4>1, <4>2
      <4>3. CASE Pending(m)' = Pending(m)
        BY <4>1, <4>3 DEF Events
      <4>4. CASE Reloads(Pending(m)')
        BY <4>1, <4>4 DEF IsFresh, Reloads
      <4>5. QED
        BY <1>1, <1>8, <3>2, <4>2, <4>3, <4>4 DEF Reloads
    <3>3. QED
      BY <3>1, <3>2
  <2>6. CollectedFresh'
    BY <1>1, <1>6, <1>8, TargetFreshNext
  <2>7. UpdateInv(m)'
    <3>1. \A e \in Events(m, 0)' : e.fresh => \A p \in e.update : asked'[p] # Gone
      <4>1. \A e \in Events(m, 0)' : e \in Events(m, 0) \/ (m = w /\ e \in Pending(w)')
        BY <1>1, <1>3 DEF Events
      <4>2. QED
        BY <1>1, <2>1, <2>3, <4>1 DEF UpdateInv, OwnFresh
    <3>2. ASSUME NEW i \in 1..Len(stream)', NEW p \in Probes,
                 stream'[i].node = m, p \in stream'[i].update, asked'[p] = Gone
          PROVE  Retracts(Published(m, i), p)' /\ Retracts(Events(m, i), p)'
      <4>1. i \in 1..Len(stream) /\ stream[i].node = m /\ p \in stream[i].update /\ asked[p] = Gone
        BY <1>1, <3>2
      <4>2. Retracts(Published(m, i), p) /\ Retracts(Events(m, i), p)
        BY <2>1, <4>1 DEF UpdateInv
      <4>3. CASE Target(m)' = Local(m)' /\ (IsWriting(m)' \/ StampsMatch(m)')
        <5>1. i \in Nat \ {0} /\ i <= Len(stream)'
          BY <1>1 DEF TypeOK
        <5>2. Retracts(Events(m, i), p)'
          BY <2>6, <3>2, <4>3, <5>1 DEF CollectedFresh
        <5>3. QED
          BY <1>1, <2>2, <4>2, <5>2
      <4>4. QED
        BY <1>1, <2>2, <2>5, <4>2, <4>3 DEF Retracts
    <3>3. QED
      BY <3>1, <3>2 DEF UpdateInv
  <2>8. ASSUME NEW S, NEW i \in Nat, FreshTo(S, m, i),
               Target(m)' = Local(m)' /\ (IsWriting(m)' \/ StampsMatch(m)') /\ i # 0 => Covers(Events(m, i)', S)
        PROVE  FreshTo(S, m, i)'
    BY <1>1, <2>5, <2>8 DEF FreshTo, Covers
  <2>9. ASSUME NEW n \in Nodes PROVE FreshReadInv(n, m)'
    <3>1. FreshReadInv(n, m) /\ ReadInv(n, m)'
      BY <2>1 DEF SyncInv
    <3>2. view'[n][m] # Nothing /\ view'[n][m].fresh => AllFresh(view[n][m].probes, m)'
      <4>1. CASE n = w /\ m = w
        BY <2>3, <4>1 DEF OwnFresh
      <4>2. CASE n # w \/ m # w
        <5>1. view'[n][m] = view[n][m]
          BY <1>4, <4>2
        <5>2. QED
          BY <2>2, <3>1, <5>1 DEF FreshReadInv
      <4>3. QED
        BY <4>1, <4>2
    <3>3. CASE n = m
      BY <3>2, <3>3 DEF FreshReadInv
    <3>4. CASE n # m
      <4>1. view'[n][m] = view[n][m]
        BY <1>4, <3>4
      <4>2. cursor[n] \in Nat /\ (pull[n] # IdlePull => pull[n].upto \in Nat /\ cursor[n] <= pull[n].upto)
        BY <1>1, <3>1, PullFields, Constants DEF TypeOK, ReadInv
      <4>3. ASSUME NEW l, NEW i \in Nat, RightTo(l, m, i)', FreshTo(FreshProbes(l, m), m, i)
            PROVE  FreshTo(FreshProbes(l, m), m, i)'
        <5>1. Target(m)' = Local(m)' /\ (IsWriting(m)' \/ StampsMatch(m)') /\ i # 0 => Covers(Events(m, i)', FreshProbes(l, m))
          BY <2>2, <2>6, <4>3 DEF CollectedFresh, Covers
        <5>2. QED
          BY <2>2, <2>8, <4>3, <5>1
      <4>4. ASSUME NEW t, NEW i \in Nat, NEW j \in Nat, i <= j, t.node = m, TaskRight(t, j)', FreshTo(TaskProbes(t), m, i)
            PROVE  FreshTo(TaskProbes(t), m, i)'
        <5>1. Target(m)' = Local(m)' /\ (IsWriting(m)' \/ StampsMatch(m)') /\ i # 0 => Covers(Events(m, i)', TaskProbes(t))
          BY <2>2, <2>6, <4>4 DEF CollectedFresh, Covers
        <5>2. QED
          BY <2>2, <2>8, <4>4, <5>1
      <4>5. view'[n][m] # Nothing => FreshTo(FreshProbes(view[n][m].probes, m), m, cursor[n])'
        BY <1>1, <3>1, <3>4, <4>1, <4>2, <4>3 DEF FreshReadInv, ReadInv
      <4>6. \A t \in Tasks(n)' : t.node = m /\ ~t.whole =>
              /\ FreshTo(TaskProbes(t), m, cursor[n])' /\ FreshTo(TaskProbes(t), m, pull[n].upto)'
              /\ t.fresh => \A p \in Probes : p \in TaskProbes(t)'
        <5> SUFFICES ASSUME NEW t \in Tasks(n), t.node = m, ~t.whole
                     PROVE  /\ FreshTo(TaskProbes(t), m, cursor[n])' /\ FreshTo(TaskProbes(t), m, pull[n].upto)'
                            /\ t.fresh => \A p \in Probes : p \in TaskProbes(t)'
          BY <1>1
        <5>1. pull[n] # IdlePull
          BY DEF Tasks
        <5>2. TaskRight(t, pull[n].upto)'
          BY <1>1, <3>1, <3>4 DEF ReadInv
        <5>3. /\ FreshTo(TaskProbes(t), m, cursor[n]) /\ FreshTo(TaskProbes(t), m, pull[n].upto)
              /\ t.fresh => \A p \in Probes : p \in TaskProbes(t)
          BY <3>1, <3>4 DEF FreshReadInv
        <5>4. PICK u \in Nat : u = pull[n].upto
          BY <4>2, <5>1
        <5>5. PICK c \in Nat : c = cursor[n]
          BY <4>2
        <5>6. c <= u /\ TaskRight(t, u)' /\ cursor'[n] = c /\ pull'[n].upto = u
          BY <1>1, <4>2, <5>1, <5>2, <5>4, <5>5
        <5>7. FreshTo(TaskProbes(t), m, c)'
          BY <4>4, <5>3, <5>5, <5>6
        <5>8. u <= u /\ FreshTo(TaskProbes(t), m, u)
          BY <5>3, <5>4
        <5>9. FreshTo(TaskProbes(t), m, u)'
          BY <4>4, <5>6, <5>8
        <5>10. QED
          BY <2>2, <5>3, <5>6, <5>7, <5>9
      <4>7. pull'[n] # IdlePull /\ view'[n][m] # Nothing =>
              \/ pull'[n].failed \/ \E t \in Tasks(n)' : t.node = m
              \/ FreshTo(FreshProbes(view[n][m].probes, m), m, pull[n].upto)'
        BY <1>1, <3>1, <3>4, <4>1, <4>2, <4>3 DEF FreshReadInv, ReadInv
      <4>8. QED
        BY <3>2, <3>4, <4>5, <4>6, <4>7 DEF FreshReadInv
    <3>5. QED
      BY <3>3, <3>4
  <2>10. QED
    BY <2>4, <2>7, <2>9
<1>9. QED
  BY <1>1, <1>5, <1>6, <1>7, <1>8 DEF FreshInv

\* A push begins: it collects the probes, and is going to write and announce them.
LEMMA PushBegins ==
  ASSUME TypeOK, SyncInv, NEW w \in Hosts, PushReload(w) \/ PushDiff(w) \/ PushAlive(w) \/ PushRefresh(w)
  PROVE  /\ TypeOK' /\ SyncInv' /\ Writes(w) /\ push[w] = IdlePush /\ document' = document /\ lost' = lost
         /\ view'[w][w] # Nothing
         /\ \/ view'[w][w] = view[w][w]
            \/ view'[w][w].probes = Local(w) /\ view'[w][w].fresh = (asked # Nothing)
         /\ push'[w] # IdlePush /\ (push'[w].event.fresh => asked # Nothing)
         /\ \A p \in push'[w].event.update : p \in Probes /\ Local(w)[p] # 0
         /\ \/ /\ IsWriting(w)' /\ push'[w].state # "publishing"
               /\ push'[w].data.probes = Local(w) /\ push'[w].data.fresh = (asked # Nothing)
            \/ /\ ~IsWriting(w)' /\ push'[w].state = "publishing" /\ push'[w].event.update = {}
               /\ document[w] # Nothing /\ document[w].probes = Local(w)
         /\ push'[w].event.reload \/ (Target(w)' = Local(w) /\ (IsWriting(w)' \/ StampsMatch(w)'))
<1>1. w \in Nodes /\ SyncInv'
  BY PushReloadStep, PushDiffStep, PushAliveStep, Constants
<1>2. /\ DiffEvent(w).update = Updated(w) /\ DiffEvent(w).fresh = (asked # Nothing)
      /\ \A p \in Updated(w) : p \in Probes /\ Local(w)[p] # 0
      /\ Unchanged(w) => Updated(w) = {}
      /\ Unchanged(w) /\ StampsMatch(w) => Local(w) = view[w][w].probes
  BY <1>1, DiffRight DEF DiffEvent, Updated, Unchanged
<1>3. CASE PushReload(w) \/ PushDiff(w)
  <2>1. /\ TypeOK' /\ Writes(w) /\ push[w] = IdlePush /\ document' = document /\ lost' = lost
        /\ view'[w][w] # Nothing /\ view'[w][w].probes = Local(w) /\ view'[w][w].fresh = (asked # Nothing)
        /\ push'[w].state = "writing" /\ push'[w].data = SnapshotOf(w) /\ IsWriting(w)'
        /\ \/ push'[w].event.reload /\ ~push'[w].event.fresh /\ push'[w].event.update = {}
           \/ push'[w].event = DiffEvent(w)
    BY <1>3, PushChangeDoes
  <2>2. SnapshotOf(w).probes = Local(w) /\ SnapshotOf(w).fresh = (asked # Nothing)
    BY <1>1, SnapshotType
  <2>3. push'[w] # IdlePush
    BY <2>1 DEF IdlePush
  <2>4. Target(w)' = Local(w)
    BY <2>1, <2>2 DEF Target
  <2>5. push'[w].event.fresh => asked # Nothing
    BY <1>2, <2>1
  <2>6. \A p \in push'[w].event.update : p \in Probes /\ Local(w)[p] # 0
    BY <1>2, <2>1
  <2>7. push'[w].data.probes = Local(w) /\ push'[w].data.fresh = (asked # Nothing)
    BY <2>1, <2>2
  <2>8. QED
    BY <1>1, <2>1, <2>3, <2>4, <2>5, <2>6, <2>7
<1>4. CASE PushAlive(w) \/ PushRefresh(w)
  <2>1. /\ TypeOK' /\ Writes(w) /\ push[w] = IdlePush /\ document' = document /\ lost' = lost
        /\ StampsMatch(w) /\ Unchanged(w) /\ push'[w].event = DiffEvent(w) /\ stamp'[w] = stamp[w]
        /\ \/ /\ view'[w][w] # Nothing /\ view'[w][w].probes = Local(w) /\ view'[w][w].fresh = (asked # Nothing)
              /\ push'[w].state = "publishing" /\ ~IsWriting(w)'
           \/ /\ view' = view /\ push'[w].state = "refreshing" /\ IsWriting(w)'
              /\ push'[w].data.probes = Local(w) /\ push'[w].data.fresh = (asked # Nothing)
    BY <1>4, PushAliveDoes, PushRefreshDoes
  <2>2. push'[w] # IdlePush
    BY <2>1 DEF IdlePush
  <2>3. view[w][w] # Nothing /\ document[w] # Nothing /\ document[w].probes = Local(w)
    <3>1. view[w][w] # Nothing /\ document[w] # Nothing
      BY <1>1, <2>1, Constants DEF StampsMatch, RemoteStamp, TypeOK
    <3>2. QED
      BY <1>1, <1>2, <2>1, <3>1 DEF SyncInv, PushInv
  <2>4. Target(w)' = Local(w)
    BY <2>1 DEF Target
  <2>5. view'[w][w] # Nothing /\ StampsMatch(w)'
    BY <2>1, <2>3 DEF StampsMatch, RemoteStamp
  <2>6. push'[w].event.fresh => asked # Nothing
    BY <1>2, <2>1
  <2>7. push'[w].event.update = {}
    BY <1>2, <2>1
  <2>8. QED
    BY <1>1, <2>1, <2>2, <2>3, <2>4, <2>5, <2>6, <2>7
<1>5. QED
  BY <1>3, <1>4

\* After the call a push collects what is fresh.
LEMMA PushBeginsFresh ==
  ASSUME TypeOK, SyncInv, FreshInv, NEW w \in Hosts, PushReload(w) \/ PushDiff(w) \/ PushAlive(w) \/ PushRefresh(w)
  PROVE  FreshInv'
<1>1. /\ TypeOK' /\ SyncInv' /\ Writes(w) /\ push[w] = IdlePush /\ document' = document /\ lost' = lost
      /\ view'[w][w] # Nothing
      /\ \/ view'[w][w] = view[w][w]
         \/ view'[w][w].probes = Local(w) /\ view'[w][w].fresh = (asked # Nothing)
      /\ push'[w] # IdlePush /\ (push'[w].event.fresh => asked # Nothing)
      /\ \A p \in push'[w].event.update : p \in Probes /\ Local(w)[p] # 0
      /\ \/ /\ IsWriting(w)' /\ push'[w].state # "publishing"
            /\ push'[w].data.probes = Local(w) /\ push'[w].data.fresh = (asked # Nothing)
         \/ /\ ~IsWriting(w)' /\ push'[w].state = "publishing" /\ push'[w].event.update = {}
            /\ document[w] # Nothing /\ document[w].probes = Local(w)
      /\ push'[w].event.reload \/ (Target(w)' = Local(w) /\ (IsWriting(w)' \/ StampsMatch(w)'))
  BY PushBegins
<1>2. w \in Nodes
  BY Constants
<1>3. /\ stage' = stage /\ home' = home /\ asked' = asked /\ stream' = stream /\ pull' = pull
      /\ \A n \in Nodes : Tasks(n)' = Tasks(n)
      /\ Published(w, 0)' = Published(w, 0) /\ Local(w)' = Local(w)
  BY <1>1 DEF Writes, env, Tasks, Published, Local
<1>4. Pending(w)' = {push'[w].event}
  BY <1>1 DEF Pending
<1>5. push[w].state = "idle" /\ ~IsWriting(w)
  BY <1>1 DEF IdlePush, IsWriting
<1>6. Announced(w) = Published(w, 0) /\ Announced(w)' = Published(w, 0) \cup (IF IsWriting(w)' THEN {} ELSE {push'[w].event})
  <2>1. Announced(w)' = Published(w, 0) \cup (IF push'[w].state = "publishing" THEN Pending(w)' ELSE {})
    BY <1>3 DEF Announced
  <2>2. QED
    BY <1>1, <1>4, <1>5, <2>1 DEF Announced
<1>7. \A p \in Probes : Known(p, w) /\ stage[p] # Gone <=> Local(w)[p] # 0
  BY Constants DEF Known, Local
<1>8. asked = Nothing => OwnUnfresh(w)'
  <2> SUFFICES ASSUME asked = Nothing PROVE OwnUnfresh(w)'
    OBVIOUS
  <2>1. /\ view[w][w] # Nothing => ~view[w][w].fresh
        /\ document[w] # Nothing => ~document[w].fresh
    BY <1>2 DEF FreshInv, NothingFresh
  <2>2. view'[w][w] # Nothing => ~view'[w][w].fresh
    BY <1>1, <2>1
  <2>3. IsWriting(w)' => ~push'[w].data.fresh
    BY <1>1
  <2>4. QED
    BY <1>1, <1>4, <2>1, <2>2, <2>3 DEF OwnUnfresh
<1>9. lost' = "nothing" => WrittenInv(w)'
  <2> SUFFICES ASSUME lost' = "nothing" PROVE WrittenInv(w)'
    OBVIOUS
  <2>1. WrittenInv(w)
    BY <1>1, <1>2 DEF FreshInv
  <2>2. \A p : Known(p, w)' <=> Known(p, w)
    BY <1>3 DEF Known
  <2>3. Announced(w)' # {} => document'[w] # Nothing
    BY <1>1, <1>6, <2>1 DEF WrittenInv
  <2>4. UpdatedBy(Announced(w)') = UpdatedBy(Announced(w))
    BY <1>1, <1>6 DEF UpdatedBy
  <2>5. ASSUME NEW p \in Probes,
               p \in UpdatedBy(Announced(w)') \/ (\E n \in Nodes : \E t \in Tasks(n)' : t.node = w /\ p \in t.update)
        PROVE  /\ Known(p, w)'
               /\ \/ stage'[p] = Gone
                  \/ document'[w].probes[p] # 0 /\ (IsWriting(w)' => push'[w].data.probes[p] # 0)
    <3>1. Known(p, w) /\ (stage[p] = Gone \/ document[w].probes[p] # 0)
      BY <1>3, <2>1, <2>4, <2>5 DEF WrittenInv
    <3>2. QED
      BY <1>1, <1>3, <1>7, <2>2, <3>1
  <2>6. \A p \in push'[w].event.update : Known(p, w)' /\ (IsWriting(w)' => push'[w].data.probes[p] # 0)
    BY <1>1, <1>7, <2>2
  <2>7. QED
    BY <2>3, <2>5, <2>6 DEF WrittenInv, UpdatedBy
<1>10. ASSUME lost' = "nothing", asked # Nothing PROVE OwnFresh(w)'
  <2>1. DocumentInv(w) /\ FreshReadInv(w, w)
    BY <1>1, <1>2, <1>10 DEF FreshInv
  <2>2. \A l : AllFresh(l, w)' <=> AllFresh(l, w)
    BY <1>3, FreshFrame
  <2>3. AllFresh(Local(w), w) /\ \A p \in Probes : Local(w)[p] # 0 => asked[p] # Gone
    BY <1>2, <1>10, LocalFresh DEF FreshInv, AskedInv
  <2>4. IsWriting(w)' => AllFresh(push'[w].data.probes, w) /\ push'[w].data.fresh
    BY <1>1, <1>10, <2>3
  <2>5. (\E e \in Announced(w)' : e.fresh) \/ (\E n \in Nodes : \E t \in Tasks(n)' : t.node = w /\ t.fresh) =>
          AllFresh(document'[w].probes, w)
    BY <1>1, <1>3, <1>6, <2>1, <2>3 DEF DocumentInv
  <2>6. DocumentInv(w)'
    BY <1>1, <2>1, <2>2, <2>4, <2>5 DEF DocumentInv
  <2>7. view'[w][w].fresh => AllFresh(view'[w][w].probes, w)
    BY <1>1, <2>1, <2>3 DEF FreshReadInv
  <2>8. \A e \in Pending(w)' : \A p \in e.update : asked'[p] # Gone
    BY <1>1, <1>3, <1>4, <2>3
  <2>9. QED
    BY <1>1, <2>2, <2>6, <2>7, <2>8 DEF OwnFresh
<1>11. Reloads(Pending(w)') \/ (Target(w)' = Local(w)' /\ (IsWriting(w)' \/ StampsMatch(w)'))
  BY <1>1, <1>3, <1>4 DEF Reloads
<1>12. QED
  BY <1>1, <1>2, <1>8, <1>9, <1>10, <1>11, WriterFresh DEF Reloads

\* What a document becomes was fresh when it was collected, if that was after the call.
LEMMA WriteDocumentFresh ==
  ASSUME TypeOK, SyncInv, FreshInv, NEW w \in Hosts, WriteDocument(w)
  PROVE  FreshInv'
<1>1. w \in Nodes
  BY Constants
<1>2. /\ TypeOK' /\ Writes(w) /\ IsWriting(w) /\ ~IsWriting(w)' /\ lost' = lost
      /\ document'[w] = push[w].data /\ document'[w] # Nothing
      /\ push'[w].state = "publishing" /\ push'[w].event = push[w].event
      /\ view'[w][w] = view[w][w] \/ (/\ view'[w][w] # Nothing /\ view'[w][w].probes = push[w].data.probes
                                      /\ view'[w][w].fresh = push[w].data.fresh)
  BY WriteDocumentDoes
<1>3. SyncInv'
  BY WriteDocumentStep
<1>4. push[w] # IdlePush /\ push'[w] # IdlePush
  BY <1>1, <1>2, PushFields DEF IdlePush
<1>5. Pending(w)' = Pending(w) /\ Pending(w) = {push[w].event}
  BY <1>2, <1>4 DEF Pending
<1>6. /\ stage' = stage /\ home' = home /\ asked' = asked
      /\ \A n \in Nodes : Tasks(n)' = Tasks(n)
      /\ Published(w, 0)' = Published(w, 0)
  BY <1>2 DEF Writes, env, Tasks, Published
<1>7. Announced(w)' = Published(w, 0) \cup {push[w].event} /\ Published(w, 0) \subseteq Announced(w)
  BY <1>2, <1>5, <1>6 DEF Announced
<1>8. asked = Nothing => OwnUnfresh(w)'
  <2> SUFFICES ASSUME asked = Nothing PROVE OwnUnfresh(w)'
    OBVIOUS
  <2>1. /\ view[w][w] # Nothing => ~view[w][w].fresh
        /\ ~push[w].data.fresh /\ \A e \in Pending(w) : ~e.fresh
    BY <1>1, <1>2 DEF FreshInv, NothingFresh, Events
  <2>2. QED
    BY <1>2, <1>5, <2>1 DEF OwnUnfresh
<1>9. ASSUME lost' = "nothing" PROVE WrittenInv(w)'
  <2>1. WrittenInv(w)
    BY <1>1, <1>2, <1>9 DEF FreshInv
  <2>2. \A p : Known(p, w)' <=> Known(p, w)
    BY <1>6 DEF Known
  <2>3. \A p : p \in UpdatedBy(Announced(w)') => p \in UpdatedBy(Announced(w)) \/ p \in push[w].event.update
    BY <1>7 DEF UpdatedBy
  <2>4. ASSUME NEW p \in Probes,
               p \in UpdatedBy(Announced(w)') \/ (\E n \in Nodes : \E t \in Tasks(n)' : t.node = w /\ p \in t.update)
        PROVE  Known(p, w)' /\ (stage'[p] = Gone \/ document'[w].probes[p] # 0)
    <3>1. Known(p, w) /\ (stage[p] = Gone \/ push[w].data.probes[p] # 0)
      BY <1>2, <1>6, <2>1, <2>3, <2>4 DEF WrittenInv
    <3>2. QED
      BY <1>2, <1>6, <2>2, <3>1
  <2>5. QED
    BY <1>2, <2>4 DEF WrittenInv, UpdatedBy
<1>10. ASSUME lost' = "nothing", asked # Nothing PROVE OwnFresh(w)'
  <2>1. DocumentInv(w) /\ FreshReadInv(w, w) /\ UpdateInv(w)
    BY <1>1, <1>2, <1>10 DEF FreshInv
  <2>2. \A l : AllFresh(l, w)' <=> AllFresh(l, w)
    BY <1>6, FreshFrame
  <2>3. (\E e \in Announced(w)' : e.fresh) \/ (\E n \in Nodes : \E t \in Tasks(n)' : t.node = w /\ t.fresh) =>
          AllFresh(push[w].data.probes, w)
    BY <1>2, <1>6, <1>7, <2>1 DEF DocumentInv
  <2>4. DocumentInv(w)'
    BY <1>2, <2>1, <2>2, <2>3 DEF DocumentInv
  <2>5. view'[w][w] # Nothing /\ view'[w][w].fresh => AllFresh(view'[w][w].probes, w)
    BY <1>2, <2>1 DEF FreshReadInv, DocumentInv
  <2>6. \A e \in Pending(w)' : e.fresh => \A p \in e.update : asked'[p] # Gone
    BY <1>5, <1>6, <2>1 DEF UpdateInv, Events
  <2>7. QED
    BY <2>2, <2>4, <2>5, <2>6 DEF OwnFresh
<1>11. QED
  BY <1>1, <1>2, <1>3, <1>5, <1>8, <1>9, <1>10, WriterFresh

\* A push that gives up leaves what has been published as it is.
LEMMA PushEndsFresh ==
  ASSUME TypeOK, SyncInv, FreshInv, NEW w \in Hosts, PushFails(w) \/ LoseEvent(w)
  PROVE  FreshInv'
<1>1. w \in Nodes
  BY Constants
<1>2. /\ TypeOK' /\ Writes(w) /\ push'[w] = IdlePush /\ ~IsWriting(w)' /\ view' = view
      /\ lost' = "nothing" => lost = "nothing"
      /\ document' = document \/ (document'[w] = push[w].data /\ document'[w] # Nothing /\ IsWriting(w))
  BY PushEndsDoes
<1>3. SyncInv'
  BY PushEndsStep
<1>4. Pending(w)' = {}
  BY <1>2 DEF Pending
<1>5. /\ stage' = stage /\ home' = home /\ asked' = asked
      /\ \A n \in Nodes : Tasks(n)' = Tasks(n)
      /\ Published(w, 0)' = Published(w, 0)
  BY <1>2 DEF Writes, env, Tasks, Published
<1>6. Announced(w)' = Published(w, 0) /\ Published(w, 0) \subseteq Announced(w)
  BY <1>2, <1>4, <1>5 DEF Announced
<1>7. asked = Nothing => OwnUnfresh(w)'
  <2> SUFFICES ASSUME asked = Nothing PROVE OwnUnfresh(w)'
    OBVIOUS
  <2>1. /\ view[w][w] # Nothing => ~view[w][w].fresh
        /\ document[w] # Nothing => ~document[w].fresh
        /\ IsWriting(w) => ~push[w].data.fresh
    BY <1>1 DEF FreshInv, NothingFresh
  <2>2. QED
    BY <1>2, <1>4, <2>1 DEF OwnUnfresh
<1>8. ASSUME lost' = "nothing" PROVE WrittenInv(w)'
  <2>1. WrittenInv(w)
    BY <1>1, <1>2, <1>8 DEF FreshInv
  <2>2. \A p : Known(p, w)' <=> Known(p, w)
    BY <1>5 DEF Known
  <2>3. \A p : p \in UpdatedBy(Announced(w)') => p \in UpdatedBy(Announced(w))
    BY <1>6 DEF UpdatedBy
  <2>4. ASSUME NEW p \in Probes,
               p \in UpdatedBy(Announced(w)') \/ (\E n \in Nodes : \E t \in Tasks(n)' : t.node = w /\ p \in t.update)
        PROVE  Known(p, w)' /\ (stage'[p] = Gone \/ document'[w].probes[p] # 0)
    <3>1. Known(p, w) /\ (stage[p] = Gone \/ (document[w].probes[p] # 0 /\ (IsWriting(w) => push[w].data.probes[p] # 0)))
      BY <1>5, <2>1, <2>3, <2>4 DEF WrittenInv
    <3>2. QED
      BY <1>2, <1>5, <2>2, <3>1
  <2>5. Announced(w)' # {} => document'[w] # Nothing
    BY <1>2, <1>6, <2>1 DEF WrittenInv
  <2>6. QED
    BY <1>2, <2>4, <2>5 DEF WrittenInv, UpdatedBy
<1>9. ASSUME lost' = "nothing", asked # Nothing PROVE OwnFresh(w)'
  <2>1. DocumentInv(w) /\ FreshReadInv(w, w)
    BY <1>1, <1>2, <1>9 DEF FreshInv
  <2>2. \A l : AllFresh(l, w)' <=> AllFresh(l, w)
    BY <1>5, FreshFrame
  <2>3. (\E e \in Announced(w)' : e.fresh) \/ (\E n \in Nodes : \E t \in Tasks(n)' : t.node = w /\ t.fresh) =>
          AllFresh(document'[w].probes, w)
    BY <1>2, <1>5, <1>6, <2>1 DEF DocumentInv
  <2>4. DocumentInv(w)'
    BY <1>2, <2>1, <2>2, <2>3 DEF DocumentInv
  <2>5. view'[w][w] # Nothing /\ view'[w][w].fresh => AllFresh(view'[w][w].probes, w)
    BY <1>2, <2>1 DEF FreshReadInv
  <2>6. QED
    BY <1>4, <2>2, <2>4, <2>5 DEF OwnFresh
<1>10. QED
  BY <1>1, <1>2, <1>3, <1>4, <1>7, <1>8, <1>9, WriterFresh

\* The own entry of a node that expires was fresh, or not; after a document was lost nothing is claimed.
LEMMA LossFresh ==
  ASSUME TypeOK, SyncInv, FreshInv, NEW w \in Nodes, (w \in Hosts /\ Evict(w)) \/ Expire(w, w)
  PROVE  FreshInv'
<1>1. /\ TypeOK' /\ Writes(w) /\ push' = push
      /\ view'[w][w] = view[w][w] \/ view'[w][w] = Nothing
      /\ document'[w] = document[w] \/ document'[w] = Nothing
      /\ lost' = "nothing" => lost = "nothing" /\ document' = document
  <2>1. CASE w \in Hosts /\ Evict(w)
    BY <2>1, EvictDoes
  <2>2. CASE Expire(w, w)
    <3>1. /\ TypeOK' /\ UNCHANGED <<env, stamp, document, stream, cursor, push, pull, lost>>
          /\ view'[w][w] = Nothing
          /\ \A n, m \in Nodes : n # w \/ m # w => view'[n][m] = view[n][m]
      BY <2>2, ExpireDoes
    <3>2. Writes(w)
      BY <3>1 DEF Writes
    <3>3. QED
      BY <3>1, <3>2
  <2>3. QED
    BY <2>1, <2>2
<1>2. SyncInv'
  BY LossStep
<1>3. /\ stage' = stage /\ home' = home /\ asked' = asked
      /\ \A n \in Nodes : Tasks(n)' = Tasks(n)
      /\ Pending(w)' = Pending(w) /\ (IsWriting(w)' <=> IsWriting(w)) /\ Announced(w)' = Announced(w)
  BY <1>1 DEF Writes, env, Tasks, Published, Pending, IsWriting, Announced
<1>4. asked = Nothing => OwnUnfresh(w)'
  BY <1>1, <1>3 DEF FreshInv, NothingFresh, OwnUnfresh, Events
<1>5. ASSUME lost' = "nothing" PROVE WrittenInv(w)'
  <2>1. WrittenInv(w)
    BY <1>1, <1>5 DEF FreshInv
  <2>2. \A p : Known(p, w)' <=> Known(p, w)
    BY <1>3 DEF Known
  <2>3. QED
    BY <1>1, <1>3, <1>5, <2>1, <2>2 DEF WrittenInv
<1>6. ASSUME lost' = "nothing", asked # Nothing PROVE OwnFresh(w)'
  <2>1. DocumentInv(w) /\ FreshReadInv(w, w) /\ UpdateInv(w)
    BY <1>1, <1>6 DEF FreshInv
  <2>2. \A l : AllFresh(l, w)' <=> AllFresh(l, w)
    BY <1>3, FreshFrame
  <2>3. DocumentInv(w)'
    BY <1>1, <1>3, <1>6, <2>1, <2>2 DEF DocumentInv
  <2>4. QED
    BY <1>1, <1>3, <2>1, <2>2, <2>3 DEF OwnFresh, FreshReadInv, UpdateInv, Events
<1>7. QED
  BY <1>1, <1>2, <1>3, <1>4, <1>5, <1>6, WriterFresh

\* A step of n's pull keeps what is fresh if n's entries are.
LEMMA ReaderFresh ==
  ASSUME TypeOK, FreshInv, NEW n \in Nodes, Reads(n), view'[n][n] = view[n][n],
         asked = Nothing => /\ \A m \in Nodes : view'[n][m] # Nothing => ~view'[n][m].fresh
                            /\ \A t \in Tasks(n)' : ~t.fresh,
         \A t \in Tasks(n)' : \/ t \in Tasks(n)
                              \/ /\ t.update \subseteq UpdatedBy(Announced(t.node))
                                 /\ t.fresh => \E e \in Announced(t.node) : e.fresh,
         lost = "nothing" /\ asked # Nothing => \A m \in Nodes : FreshReadInv(n, m)'
  PROVE  FreshInv'
<1>1. /\ stage' = stage /\ home' = home /\ asked' = asked /\ stream' = stream /\ document' = document /\ push' = push
      /\ lost' = lost /\ \A k \in Nodes \ {n} : pull'[k] = pull[k] /\ cursor'[k] = cursor[k] /\ Tasks(k)' = Tasks(k)
      /\ \A k, m \in Nodes : k # n => view'[k][m] = view[k][m]
  BY DEF Reads, env
<1>2. \A m : /\ IsWriting(m)' <=> IsWriting(m)
             /\ Pending(m)' = Pending(m) /\ Announced(m)' = Announced(m)
             /\ \A i : Published(m, i)' = Published(m, i) /\ Events(m, i)' = Events(m, i)
  BY <1>1 DEF IsWriting, Pending, Announced, Published, Events
<1>3. \A m : \A k \in Nodes : \A t \in Tasks(k)' : t.node = m =>
        \/ \E j \in Nodes : t \in Tasks(j)
        \/ t.update \subseteq UpdatedBy(Announced(m)) /\ (t.fresh => \E e \in Announced(m) : e.fresh)
  <2>1. \A k \in Nodes : \A t \in Tasks(k)' : k # n => t \in Tasks(k)
    BY <1>1
  <2>2. QED
    BY <2>1
<1>4. asked' = Nothing => NothingFresh'
  <2> SUFFICES ASSUME asked' = Nothing PROVE NothingFresh'
    OBVIOUS
  <2>1. NothingFresh
    BY <1>1 DEF FreshInv
  <2>2. ASSUME NEW m \in Nodes, NEW k \in Nodes
        PROVE  (view'[k][m] # Nothing => ~view'[k][m].fresh) /\ \A t \in Tasks(k)' : ~t.fresh
    <3>1. CASE k = n
      BY <1>1, <3>1
    <3>2. CASE k # n
      BY <1>1, <2>1, <3>2 DEF NothingFresh
    <3>3. QED
      BY <3>1, <3>2
  <2>3. QED
    BY <1>1, <1>2, <2>1, <2>2 DEF NothingFresh
<1>5. AskedInv'
  BY <1>1 DEF AskedInv, FreshInv
<1>6. ASSUME lost' = "nothing", NEW m \in Nodes PROVE WrittenInv(m)'
  <2>1. WrittenInv(m)
    BY <1>1, <1>6 DEF FreshInv
  <2>2. \A p : Known(p, m)' <=> Known(p, m)
    BY <1>1 DEF Known
  <2>3. \A p \in Probes : (\E k \in Nodes : \E t \in Tasks(k)' : t.node = m /\ p \in t.update) =>
          p \in UpdatedBy(Announced(m)) \/ \E k \in Nodes : \E t \in Tasks(k) : t.node = m /\ p \in t.update
    BY <1>3
  <2>4. QED
    BY <1>1, <1>2, <2>1, <2>2, <2>3 DEF WrittenInv
<1>7. ASSUME lost' = "nothing", asked' # Nothing, NEW m \in Nodes
      PROVE  DocumentInv(m)' /\ UpdateInv(m)' /\ \A k \in Nodes : FreshReadInv(k, m)'
  <2>1. DocumentInv(m) /\ UpdateInv(m) /\ \A k \in Nodes : FreshReadInv(k, m)
    BY <1>1, <1>7 DEF FreshInv
  <2>2. /\ \A l : FreshProbes(l, m)' = FreshProbes(l, m) /\ (AllFresh(l, m)' <=> AllFresh(l, m))
        /\ \A t : TaskProbes(t)' = TaskProbes(t)
        /\ \A E, p : Retracts(E, p)' <=> Retracts(E, p)
    BY <1>1, FreshFrame
  <2>3. (\E k \in Nodes : \E t \in Tasks(k)' : t.node = m /\ t.fresh) =>
          (\E e \in Announced(m) : e.fresh) \/ \E k \in Nodes : \E t \in Tasks(k) : t.node = m /\ t.fresh
    BY <1>3
  <2>4. DocumentInv(m)'
    BY <1>1, <1>2, <2>1, <2>2, <2>3 DEF DocumentInv
  <2>5. UpdateInv(m)'
    BY <1>1, <1>2, <2>1, <2>2 DEF UpdateInv
  <2>6. ASSUME NEW k \in Nodes PROVE FreshReadInv(k, m)'
    <3>1. CASE k = n
      BY <1>1, <1>7, <3>1
    <3>2. CASE k # n
      <4>1. FreshReadInv(k, m) /\ view'[k][m] = view[k][m] /\ pull'[k] = pull[k] /\ cursor'[k] = cursor[k]
            /\ Tasks(k)' = Tasks(k)
        BY <1>1, <2>1, <3>2
      <4>2. \A S, i : FreshTo(S, m, i)' <=> FreshTo(S, m, i)
        BY <1>2 DEF FreshTo, Covers
      <4>3. QED
        BY <2>2, <4>1, <4>2 DEF FreshReadInv
    <3>3. QED
      BY <3>1, <3>2
  <2>7. QED
    BY <2>4, <2>5, <2>6
<1>8. QED
  BY <1>1, <1>4, <1>5, <1>6, <1>7 DEF FreshInv

\* What a step of n's pull leaves of what is fresh.
LEMMA ReadsFreshFrame ==
  ASSUME NEW n \in Nodes, Reads(n), NEW m \in Nodes
  PROVE  /\ \A l : FreshProbes(l, m)' = FreshProbes(l, m) /\ (AllFresh(l, m)' <=> AllFresh(l, m))
         /\ \A t : TaskProbes(t)' = TaskProbes(t)
         /\ \A S, i : FreshTo(S, m, i)' <=> FreshTo(S, m, i)
<1>1. stage' = stage /\ home' = home /\ asked' = asked /\ stream' = stream /\ push' = push
  BY DEF Reads, env
<1>2. \A i : Published(m, i)' = Published(m, i) /\ Events(m, i)' = Events(m, i)
  BY <1>1 DEF Published, Events, Pending
<1>3. \A S, i : FreshTo(S, m, i)' <=> FreshTo(S, m, i)
  BY <1>2 DEF FreshTo, Covers
<1>4. QED
  BY <1>1, <1>3, FreshFrame

\* An entry of another node that expires is neither fresh nor not.
LEMMA ExpireFresh ==
  ASSUME TypeOK, FreshInv, NEW n \in Nodes, NEW w \in Nodes, n # w, Expire(n, w)
  PROVE  FreshInv'
<1>1. /\ UNCHANGED <<env, stamp, document, stream, cursor, push, pull, lost>>
      /\ view'[n][w] = Nothing
      /\ \A k, m \in Nodes : k # n \/ m # w => view'[k][m] = view[k][m]
  BY ExpireDoes
<1>2. \A k : Tasks(k)' = Tasks(k)
  BY <1>1 DEF Tasks
<1>3. Reads(n) /\ view'[n][n] = view[n][n] /\ pull' = pull /\ cursor' = cursor
      /\ \A m \in Nodes : view'[n][m] = view[n][m] \/ view'[n][m] = Nothing
  BY <1>1, <1>2 DEF Reads
<1>4. asked = Nothing => /\ \A m \in Nodes : view'[n][m] # Nothing => ~view'[n][m].fresh
                         /\ \A t \in Tasks(n)' : ~t.fresh
  BY <1>2, <1>3 DEF FreshInv, NothingFresh
<1>5. ASSUME lost = "nothing", asked # Nothing, NEW m \in Nodes PROVE FreshReadInv(n, m)'
  <2>1. FreshReadInv(n, m)
    BY <1>5 DEF FreshInv
  <2>2. /\ \A l : FreshProbes(l, m)' = FreshProbes(l, m) /\ (AllFresh(l, m)' <=> AllFresh(l, m))
        /\ \A t : TaskProbes(t)' = TaskProbes(t)
        /\ \A S, i : FreshTo(S, m, i)' <=> FreshTo(S, m, i)
    BY <1>3, ReadsFreshFrame
  <2>3. QED
    BY <1>2, <1>3, <2>1, <2>2 DEF FreshReadInv
<1>6. QED
  BY <1>2, <1>3, <1>4, <1>5, ReaderFresh

\* A pull ends.
LEMMA FinishPullFresh ==
  ASSUME TypeOK, FreshInv, NEW n \in Readers, FinishPull(n)
  PROVE  FreshInv'
<1>1. n \in Nodes
  BY Constants
<1>2. /\ Reads(n) /\ view' = view
      /\ pull[n] # IdlePull /\ Tasks(n) = {} /\ pull'[n] = IdlePull /\ Tasks(n)' = {}
      /\ cursor'[n] = IF pull[n].failed THEN cursor[n] ELSE pull[n].upto
  BY <1>1, FinishPullDoes
<1>3. asked = Nothing => \A m \in Nodes : view'[n][m] # Nothing => ~view'[n][m].fresh
  BY <1>1, <1>2 DEF FreshInv, NothingFresh
<1>4. ASSUME lost = "nothing", asked # Nothing, NEW m \in Nodes PROVE FreshReadInv(n, m)'
  <2>1. FreshReadInv(n, m)
    BY <1>1, <1>4 DEF FreshInv
  <2>2. /\ \A l : FreshProbes(l, m)' = FreshProbes(l, m) /\ (AllFresh(l, m)' <=> AllFresh(l, m))
        /\ \A S, i : FreshTo(S, m, i)' <=> FreshTo(S, m, i)
    BY <1>1, <1>2, ReadsFreshFrame
  <2>3. QED
    BY <1>2, <2>1, <2>2 DEF FreshReadInv
<1>5. QED
  BY <1>1, <1>2, <1>3, <1>4, ReaderFresh

\* A document is fresh but for what is going to be announced.
LEMMA DocumentFreshTo ==
  ASSUME TypeOK, NEW m \in Nodes, PushInv(m), DocumentInv(m), lost = "nothing", document[m] # Nothing, NEW i \in Nat
  PROVE  FreshTo(FreshProbes(document[m].probes, m), m, i)
<1> DEFINE S == FreshProbes(document[m].probes, m)
<1>1. (\E e \in Announced(m) : e.fresh) => \A p \in Probes : p \in S
  BY DEF DocumentInv, AllFresh
<1>2. Published(m, i) \subseteq Announced(m) /\ Announced(m) \subseteq Events(m, 0)
  BY AnnouncedParts
<1>3. Covers(Published(m, i), S)
  BY <1>1, <1>2 DEF Covers, IsFresh
<1>4. Covers(Events(m, i), S)
  <2>1. SUFFICES ASSUME IsFresh(Events(m, i)), NEW p \in Probes PROVE p \in Touched(Events(m, i)) \/ p \in S
    BY DEF Covers
  <2>2. CASE \E e \in Announced(m) : e.fresh
    BY <1>1, <2>2
  <2>3. CASE ~\E e \in Announced(m) : e.fresh
    <3>1. PICK e \in Pending(m) : e.fresh
      BY <1>2, <2>1, <2>3 DEF IsFresh, Events
    <3>2. push[m] # IdlePush /\ e = push[m].event
      BY <3>1 DEF Pending
    <3>3. push[m].state # "publishing"
      BY <2>3, <3>1 DEF Announced
    <3>4. IsWriting(m)
      BY <3>2, <3>3, PushFields DEF IsWriting
    <3>5. ~push[m].event.reload
      BY <2>1, <3>1, <3>2 DEF IsFresh, Reloads, Events
    <3>6. p \in Touched(Pending(m)) \/ document[m].probes[p] = push[m].data.probes[p]
      BY <3>4, <3>5 DEF PushInv
    <3>7. p \in FreshProbes(push[m].data.probes, m)
      BY <3>1, <3>2, <3>4 DEF DocumentInv, AllFresh
    <3>8. QED
      BY <3>6, <3>7, TouchedParts DEF FreshProbes
  <2>4. QED
    BY <2>2, <2>3
<1>5. QED
  BY <1>3, <1>4 DEF FreshTo

\* A list that is patched is as fresh as the task and the document are.
LEMMA PatchFresh ==
  ASSUME TypeOK, asked # Nothing, AskedInv, NEW m \in Nodes, WrittenInv(m), document[m] # Nothing,
         NEW n \in Nodes, NEW t \in Tasks(n), t.node = m,
         NEW l, \A p \in Probes : l[p] = IF p \in t.update /\ document[m] # Nothing /\ document[m].probes[p] # 0
                                         THEN document[m].probes[p] ELSE t.base[p],
         NEW p \in Probes, p \in TaskProbes(t), p \in FreshProbes(document[m].probes, m)
  PROVE  p \in FreshProbes(l, m)
<1> SUFFICES ASSUME home[p] = m PROVE FreshEnough(l[p], p)
  BY DEF FreshProbes
<1>1. FreshEnough(document[m].probes[p], p)
  BY DEF FreshProbes
<1>2. CASE p \notin t.update
  BY <1>2 DEF TaskProbes
<1>3. CASE p \in t.update /\ document[m] # Nothing /\ document[m].probes[p] # 0
  BY <1>1, <1>3
<1>4. CASE p \in t.update /\ ~(document[m] # Nothing /\ document[m].probes[p] # 0)
  <2>1. l[p] = t.base[p] /\ (t.base[p] = 0 \/ asked[p] # Gone)
    BY <1>4 DEF TaskProbes
  <2>2. \E k \in Nodes : \E s \in Tasks(k) : s.node = m /\ p \in s.update
    BY <1>4
  <2>3. stage[p] = Gone \/ document[m].probes[p] # 0
    BY <2>2 DEF WrittenInv
  <2>4. CASE stage[p] = Gone
    BY <2>1, <2>4, LocalFresh DEF AskedInv
  <2>5. CASE stage[p] # Gone
    BY <1>4, <2>3, <2>5
  <2>6. QED
    BY <2>4, <2>5
<1>5. QED
  BY <1>2, <1>3, <1>4

\* A document or a patch that is fetched is as fresh as it is said to be.
LEMMA FetchFresh ==
  ASSUME TypeOK, SyncInv, FreshInv, NEW n \in Readers, NEW t \in Tasks(n),
         FetchNode(n, t) \/ FetchProbesById(n, t) \/ FetchFails(n, t)
  PROVE  FreshInv'
<1>1. n \in Nodes
  BY Constants
<1> DEFINE k == t.node
<1>2. /\ Reads(n) /\ cursor' = cursor /\ t \in Task
      /\ pull[n] # IdlePull /\ pull'[n] # IdlePull /\ pull'[n].upto = pull[n].upto
      /\ Tasks(n)' = Tasks(n) \ {t}
      /\ \A m \in Nodes : m # k => view'[n][m] = view[n][m]
      /\ \/ pull'[n].failed /\ view'[n][k] = view[n][k]
         \/ /\ pull'[n].failed = pull[n].failed /\ t.whole
            /\ \/ document[k] = Nothing /\ view'[n][k] = view[n][k]
               \/ /\ document[k] # Nothing /\ view'[n][k] # Nothing
                  /\ view'[n][k].probes = document[k].probes
                  /\ view'[n][k].fresh = document[k].fresh
         \/ /\ pull'[n].failed = pull[n].failed /\ ~t.whole /\ view'[n][k] # Nothing
            /\ view'[n][k].fresh = t.fresh
            /\ \A p \in Probes : view'[n][k].probes[p] =
                 IF p \in t.update /\ document[k] # Nothing /\ document[k].probes[p] # 0
                 THEN document[k].probes[p] ELSE t.base[p]
  BY <1>1, FetchDoes
<1>3. k \in Nodes /\ n # k
  <2>1. k \in Nodes
    BY <1>2 DEF Task
  <2>2. QED
    BY <1>1, <2>1 DEF SyncInv, ReadInv
<1>4. PushInv(k) /\ ReadInv(n, k)
  BY <1>1, <1>3 DEF SyncInv
<1>5. view'[n][n] = view[n][n]
  BY <1>1, <1>2, <1>3
<1>6. cursor[n] \in Nat /\ pull[n].upto \in Nat
  BY <1>1, <1>2, PullFields, Constants DEF TypeOK
<1>7. asked = Nothing => /\ \A m \in Nodes : view'[n][m] # Nothing => ~view'[n][m].fresh
                         /\ \A s \in Tasks(n)' : ~s.fresh
  <2> SUFFICES ASSUME asked = Nothing PROVE /\ \A m \in Nodes : view'[n][m] # Nothing => ~view'[n][m].fresh
                                            /\ \A s \in Tasks(n)' : ~s.fresh
    OBVIOUS
  <2>1. /\ \A m \in Nodes : view[n][m] # Nothing => ~view[n][m].fresh
        /\ \A s \in Tasks(n) : ~s.fresh
        /\ document[k] # Nothing => ~document[k].fresh
    BY <1>1, <1>3 DEF FreshInv, NothingFresh
  <2>2. view'[n][k] # Nothing => ~view'[n][k].fresh
    BY <1>2, <1>3, <2>1
  <2>3. QED
    BY <1>2, <2>1, <2>2
<1>8. ASSUME lost = "nothing", asked # Nothing
      PROVE  view'[n][k] # Nothing =>
               \/ pull'[n].failed /\ view'[n][k] = view[n][k]
               \/ /\ view'[n][k].fresh => AllFresh(view'[n][k].probes, k)
                  /\ \A i \in Nat : FreshTo(TaskProbes(t), k, i) \/ t.whole => FreshTo(FreshProbes(view'[n][k].probes, k), k, i)
  <2> SUFFICES ASSUME view'[n][k] # Nothing, ~(pull'[n].failed /\ view'[n][k] = view[n][k])
               PROVE  /\ view'[n][k].fresh => AllFresh(view'[n][k].probes, k)
                      /\ \A i \in Nat : FreshTo(TaskProbes(t), k, i) \/ t.whole => FreshTo(FreshProbes(view'[n][k].probes, k), k, i)
    OBVIOUS
  <2>1. WrittenInv(k) /\ DocumentInv(k) /\ FreshReadInv(n, k) /\ AskedInv
    BY <1>1, <1>3, <1>8 DEF FreshInv
  <2>2. document[k] # Nothing
    <3>1. Published(k, 0) # {}
      BY <1>3, <1>4 DEF ReadInv
    <3>2. QED
      BY <2>1, <3>1 DEF WrittenInv, Announced
  <2>3. \A i \in Nat : FreshTo(FreshProbes(document[k].probes, k), k, i)
    BY <1>3, <1>4, <1>8, <2>1, <2>2, DocumentFreshTo
  <2>4. CASE t.whole
    BY <1>2, <2>1, <2>2, <2>3, <2>4 DEF DocumentInv
  <2>5. CASE ~t.whole
    <3>1. /\ view'[n][k].fresh = t.fresh
          /\ \A p \in Probes : view'[n][k].probes[p] =
               IF p \in t.update /\ document[k] # Nothing /\ document[k].probes[p] # 0
               THEN document[k].probes[p] ELSE t.base[p]
      BY <1>2, <2>5
    <3> DEFINE l == view'[n][k].probes
    <3>2. \A p \in Probes : p \in TaskProbes(t) /\ p \in FreshProbes(document[k].probes, k) => p \in FreshProbes(l, k)
      <4> SUFFICES ASSUME NEW p \in Probes, p \in TaskProbes(t), p \in FreshProbes(document[k].probes, k)
                   PROVE  p \in FreshProbes(l, k)
        OBVIOUS
      <4>1. \A p_1 \in Probes : l[p_1] = IF p_1 \in t.update /\ document[k] # Nothing /\ document[k].probes[p_1] # 0
                                         THEN document[k].probes[p_1] ELSE t.base[p_1]
        BY <3>1
      <4>2. WrittenInv(k) /\ AskedInv
        BY <2>1
      <4> HIDE DEF l
      <4>3. QED
        BY <1>1, <1>3, <1>8, <2>2, <4>1, <4>2, PatchFresh
    <3>3. t.fresh => AllFresh(l, k)
      <4> SUFFICES ASSUME t.fresh PROVE AllFresh(l, k)
        OBVIOUS
      <4>1. \A p \in Probes : p \in TaskProbes(t)
        BY <1>3, <2>1, <2>5 DEF FreshReadInv
      <4>2. \E j \in Nodes : \E s \in Tasks(j) : s.node = k /\ s.fresh
        BY <1>1
      <4>3. \A p \in Probes : p \in FreshProbes(document[k].probes, k)
        BY <2>1, <4>2 DEF DocumentInv, AllFresh
      <4> HIDE DEF l
      <4>4. QED
        BY <3>2, <4>1, <4>3 DEF AllFresh
    <3>4. \A i \in Nat : FreshTo(TaskProbes(t), k, i) => FreshTo(FreshProbes(l, k), k, i)
      <4> HIDE DEF l
      <4>1. QED
        BY <2>3, <3>2 DEF FreshTo, Covers
    <3>5. QED
      BY <2>5, <3>1, <3>3, <3>4
  <2>6. QED
    BY <2>4, <2>5
<1>9. ASSUME lost = "nothing", asked # Nothing, NEW m \in Nodes PROVE FreshReadInv(n, m)'
  <2>1. FreshReadInv(n, m)
    BY <1>1, <1>9 DEF FreshInv
  <2>2. /\ \A l : FreshProbes(l, m)' = FreshProbes(l, m) /\ (AllFresh(l, m)' <=> AllFresh(l, m))
        /\ \A s : TaskProbes(s)' = TaskProbes(s)
        /\ \A S, i : FreshTo(S, m, i)' <=> FreshTo(S, m, i)
    BY <1>1, <1>2, ReadsFreshFrame
  <2>3. CASE m = k
    <3>1. \A s \in Tasks(n)' : s.node = m /\ ~s.whole =>
            /\ FreshTo(TaskProbes(s), m, cursor[n]) /\ FreshTo(TaskProbes(s), m, pull[n].upto)
            /\ s.fresh => \A p \in Probes : p \in TaskProbes(s)
      BY <1>2, <1>3, <2>1, <2>3 DEF FreshReadInv
    <3>2. FreshTo(TaskProbes(t), m, cursor[n]) \/ t.whole
      BY <1>3, <2>1, <2>3 DEF FreshReadInv
    <3>3. FreshTo(TaskProbes(t), m, pull[n].upto) \/ t.whole
      BY <1>3, <2>1, <2>3 DEF FreshReadInv
    <3>4. view'[n][m] # Nothing =>
            /\ view'[n][m].fresh => AllFresh(view'[n][m].probes, m)
            /\ FreshTo(FreshProbes(view'[n][m].probes, m), m, cursor[n])
            /\ pull'[n].failed \/ FreshTo(FreshProbes(view'[n][m].probes, m), m, pull[n].upto)
      <4>1. CASE pull'[n].failed /\ view'[n][m] = view[n][m]
        BY <1>3, <2>1, <2>3, <4>1 DEF FreshReadInv
      <4>2. CASE ~(pull'[n].failed /\ view'[n][m] = view[n][m])
        <5>1. view'[n][m] # Nothing =>
               /\ view'[n][m].fresh => AllFresh(view'[n][m].probes, m)
               /\ \A i \in Nat : FreshTo(TaskProbes(t), m, i) \/ t.whole => FreshTo(FreshProbes(view'[n][m].probes, m), m, i)
          BY <1>8, <1>9, <2>3, <4>2
        <5>2. QED
          BY <1>6, <3>2, <3>3, <5>1
      <4>3. QED
        BY <4>1, <4>2
    <3>5. QED
      BY <1>2, <2>2, <3>1, <3>4 DEF FreshReadInv
  <2>4. CASE m # k
    <3>1. view'[n][m] = view[n][m] /\ (pull[n].failed => pull'[n].failed)
      BY <1>2, <2>4
    <3>2. \A s \in Tasks(n) : s.node = m => s \in Tasks(n)'
      BY <1>2, <2>4
    <3>3. QED
      BY <1>2, <2>1, <2>2, <3>1, <3>2 DEF FreshReadInv
  <2>5. QED
    BY <2>3, <2>4
<1>10. \A s \in Tasks(n)' : s \in Tasks(n)
  BY <1>2
<1>11. QED
  BY <1>1, <1>2, <1>5, <1>7, <1>9, <1>10, ReaderFresh

\* What a pull makes of the events that it reads is fresh if they are.
LEMMA TaskForFresh ==
  ASSUME TypeOK, SyncInv, NEW n \in Nodes, NEW m \in Publishers(n), ~TaskFor(n, m).whole, UpdateInv(m), FreshReadInv(n, m)
  PROVE  /\ FreshTo(TaskProbes(TaskFor(n, m)), m, cursor[n]) /\ FreshTo(TaskProbes(TaskFor(n, m)), m, Len(stream))
         /\ TaskFor(n, m).fresh => \A p \in Probes : p \in TaskProbes(TaskFor(n, m))
<1> DEFINE c == cursor[n]
           L == Len(stream)
           T == TaskFor(n, m)
           P == Published(m, c)
<1>1. /\ m \in Nodes /\ n # m /\ T.node = m /\ view[n][m] # Nothing /\ ~MustReload(n, m) /\ T.update = Updates(n, m)
      /\ T.fresh = LastOf(n, m).fresh
      /\ \A p \in Probes : T.base[p] = IF p \in Removes(n, m) THEN 0 ELSE view[n][m].probes[p]
  <2>1. /\ m \in Nodes \ {n} /\ TaskFor(n, m) \in Task /\ TaskFor(n, m).node = m
        /\ ~TaskFor(n, m).whole =>
             /\ view[n][m] # Nothing /\ ~MustReload(n, m)
             /\ TaskFor(n, m).update = Updates(n, m) /\ TaskFor(n, m).fresh = LastOf(n, m).fresh
             /\ \A p \in Probes : TaskFor(n, m).base[p] = IF p \in Removes(n, m) THEN 0 ELSE view[n][m].probes[p]
    BY TaskType
  <2>2. QED
    BY <2>1
<1>2. L \in Nat /\ c \in Nat /\ c <= L
  <2>1. ReadInv(n, m)
    BY <1>1 DEF SyncInv
  <2>2. QED
    BY <2>1, Constants DEF TypeOK, ReadInv
<1>3. P = {stream[i] : i \in UnreadOf(n, m)}
  BY DEF Published, UnreadOf, Unread
<1>4. Removes(n, m) = RemovedBy(P) /\ T.update = UpdatedBy(P) /\ ~Reloads(P) /\ c # 0
  BY <1>1, <1>3 DEF Removes, Updates, RemovedBy, UpdatedBy, Reloads, MustReload
<1>5. FreshTo(FreshProbes(view[n][m].probes, m), m, c)
  BY <1>1 DEF FreshReadInv
<1>6. \A i \in UnreadOf(n, m) : i \in 1..L /\ i \in Nat /\ c <= i /\ stream[i].node = m
  <2>1. \A i \in UnreadOf(n, m) : i \in (c + 1)..L /\ stream[i].node = m
    BY DEF UnreadOf, Unread
  <2>2. QED
    BY <1>2, <2>1
<1> HIDE DEF c, L, T, P
<1>7. ASSUME NEW p \in Probes, p \notin Touched(P), p \in FreshProbes(view[n][m].probes, m) PROVE p \in TaskProbes(T)
  BY <1>1, <1>4, <1>7 DEF Touched, FreshProbes, TaskProbes
<1>8. ASSUME NEW p \in Probes, p \in RemovedBy(P) PROVE p \in TaskProbes(T)
  <2>1. p \in RemovedBy(Events(m, c))
    BY <1>8, TouchedParts DEF P
  <2>2. p \in RemovedBy(Events(m, 0))
    BY <1>1, <1>2, <2>1, EventsShrink
  <2>3. stage[p] = Gone
    BY <1>1, <2>2 DEF SyncInv, EventInv
  <2>4. T.base[p] = 0
    BY <1>1, <1>4, <1>8
  <2>5. QED
    BY <2>3, <2>4 DEF TaskProbes, FreshEnough
<1>9. ASSUME NEW p \in Probes, p \in UpdatedBy(P), p \notin TaskProbes(T)
      PROVE  asked[p] = Gone /\ \E i \in UnreadOf(n, m) : p \in stream[i].update
  BY <1>1, <1>3, <1>4, <1>9 DEF TaskProbes, UpdatedBy
<1>10. \A i \in UnreadOf(n, m) : Published(m, i) \subseteq P
  BY <1>1, <1>2, <1>6, EventsShrink DEF P
<1>11. FreshTo(TaskProbes(T), m, c)
  <2>1. Covers(P, FreshProbes(view[n][m].probes, m)) /\ Covers(Events(m, c), FreshProbes(view[n][m].probes, m))
    BY <1>4, <1>5 DEF FreshTo, P
  <2>2. Touched(P) \subseteq Touched(Events(m, c))
    BY TouchedParts DEF P
  <2>3. Covers(P, TaskProbes(T)) /\ Covers(Events(m, c), TaskProbes(T))
    BY <1>7, <2>1, <2>2 DEF Covers
  <2>4. QED
    BY <2>3 DEF FreshTo, P
<1>12. FreshTo(TaskProbes(T), m, L)
  <2>1. Published(m, L) = {}
    BY <1>2 DEF Published, L
  <2>2. Events(m, L) = Pending(m)
    BY <2>1 DEF Events
  <2>3. Covers(Published(m, L), TaskProbes(T))
    BY <2>1 DEF Covers, IsFresh
  <2>4. Covers(Pending(m), TaskProbes(T))
    <3> SUFFICES ASSUME IsFresh(Pending(m)), NEW p \in Probes, p \notin Touched(Pending(m)), p \notin TaskProbes(T) PROVE FALSE
      BY DEF Covers
    <3>1. IsFresh(Events(m, c))
      BY <1>4 DEF IsFresh, Events, Reloads, P
    <3>2. p \in Touched(Events(m, c)) \/ p \in FreshProbes(view[n][m].probes, m)
      BY <1>4, <1>5, <3>1 DEF FreshTo, Covers
    <3>3. p \in Touched(P) \/ p \in FreshProbes(view[n][m].probes, m)
      BY <3>2, TouchedParts DEF P
    <3>4. p \in UpdatedBy(P) /\ p \notin RemovedBy(P)
      BY <1>7, <1>8, <3>3 DEF Touched
    <3>5. asked[p] = Gone /\ \E i \in UnreadOf(n, m) : p \in stream[i].update
      BY <1>9, <3>4
    <3>6. PICK i \in UnreadOf(n, m) : p \in stream[i].update
      BY <3>5
    <3>7. Retracts(Events(m, i), p)
      BY <1>6, <3>5, <3>6 DEF UpdateInv, L
    <3>8. IsFresh(Events(m, i))
      BY <1>4, <1>10 DEF IsFresh, Events, Reloads
    <3>9. p \in RemovedBy(Published(m, i))
      BY <3>7, <3>8, TouchedParts DEF Retracts, Touched
    <3>10. QED
      BY <1>10, <3>4, <3>9 DEF RemovedBy
  <2>5. QED
    BY <2>2, <2>3, <2>4 DEF FreshTo
<1>13. ASSUME T.fresh, NEW p \in Probes, p \notin TaskProbes(T) PROVE FALSE
  <2>1. PICK k \in UnreadOf(n, m) : LastOf(n, m) = stream[k] /\ \A j \in UnreadOf(n, m) : k >= j
    BY LastIsThere
  <2>2. stream[k] \in P /\ stream[k].fresh
    BY <1>1, <1>3, <1>13, <2>1
  <2>3. IsFresh(P)
    BY <1>4, <2>2 DEF IsFresh
  <2>4. p \in Touched(P) \/ p \in FreshProbes(view[n][m].probes, m)
    BY <1>4, <1>5, <2>3 DEF FreshTo, Covers, P
  <2>5. p \in UpdatedBy(P) /\ p \notin RemovedBy(P)
    BY <1>7, <1>8, <1>13, <2>4 DEF Touched
  <2>6. asked[p] = Gone /\ \E i \in UnreadOf(n, m) : p \in stream[i].update
    BY <1>9, <1>13, <2>5
  <2>7. PICK i \in UnreadOf(n, m) : p \in stream[i].update
    BY <2>6
  <2>8. CASE k = i
    <3>1. P \subseteq Events(m, 0)
      <4>1. P \subseteq Published(m, 0)
        BY <1>1, <1>2, EventsShrink DEF P
      <4>2. QED
        BY <4>1 DEF Events
    <3>2. stream[k] \in Events(m, 0)
      BY <2>2, <3>1
    <3>3. QED
      BY <2>2, <2>6, <2>7, <2>8, <3>2 DEF UpdateInv
  <2>9. CASE k # i
    <3>1. k \in (i + 1)..Len(stream) /\ stream[k].node = m
      <4>1. k >= i /\ k \in 1..L /\ i \in 1..L
        BY <1>6, <2>1, <2>7
      <4>2. QED
        BY <1>2, <1>6, <2>9, <4>1 DEF L
    <3>2. stream[k] \in Published(m, i)
      BY <3>1 DEF Published
    <3>3. IsFresh(Published(m, i))
      BY <1>4, <1>10, <2>2, <3>2 DEF IsFresh, Reloads
    <3>4. Retracts(Published(m, i), p)
      BY <1>6, <2>6, <2>7 DEF UpdateInv, L
    <3>5. p \in RemovedBy(Published(m, i))
      BY <3>3, <3>4 DEF Retracts
    <3>6. QED
      BY <1>10, <2>5, <2>7, <3>5 DEF RemovedBy
  <2>10. QED
    BY <2>8, <2>9
<1>14. QED
  BY <1>11, <1>12, <1>13 DEF c, L, T

\* A pull starts: what it lists right away is as fresh as the events are.
LEMMA StartPullFresh ==
  ASSUME TypeOK, SyncInv, FreshInv, NEW n \in Readers, StartPull(n)
  PROVE  FreshInv'
<1>1. n \in Nodes
  BY Constants
<1>2. /\ Reads(n) /\ cursor' = cursor
      /\ pull[n] = IdlePull /\ pull'[n] # IdlePull /\ ~pull'[n].failed /\ pull'[n].upto = Len(stream)
      /\ \A t \in Tasks(n)' : t.node \in Publishers(n) /\ t = TaskFor(n, t.node) /\ ~Immediate(t)
      /\ \A m \in Publishers(n) :
           \/ TaskFor(n, m) \in Tasks(n)' /\ view'[n][m] = view[n][m] /\ ~Immediate(TaskFor(n, m))
           \/ /\ Immediate(TaskFor(n, m)) /\ view'[n][m] # Nothing
              /\ view'[n][m].probes = TaskFor(n, m).base /\ view'[n][m].fresh = TaskFor(n, m).fresh
      /\ \A m \in Nodes \ Publishers(n) : view'[n][m] = view[n][m]
  BY <1>1, StartPullDoes
<1>3. view'[n][n] = view[n][n]
  BY <1>1, <1>2 DEF Publishers
<1>4. ASSUME NEW m \in Publishers(n)
      PROVE  /\ m \in Nodes \ {n} /\ TaskFor(n, m) \in Task /\ TaskFor(n, m).node = m
             /\ TaskFor(n, m).update \subseteq UpdatedBy(Announced(m))
             /\ TaskFor(n, m).fresh => \E e \in Announced(m) : e.fresh
  <2>1. /\ m \in Nodes \ {n} /\ TaskFor(n, m) \in Task /\ TaskFor(n, m).node = m
        /\ ~TaskFor(n, m).whole => TaskFor(n, m).update = Updates(n, m) /\ TaskFor(n, m).fresh = LastOf(n, m).fresh
    BY <1>1, TaskType
  <2>2. Published(m, cursor[n]) = {stream[i] : i \in UnreadOf(n, m)}
    BY DEF Published, UnreadOf, Unread
  <2>3. cursor[n] \in Nat
    BY <1>1, Constants DEF TypeOK
  <2>4. Published(m, cursor[n]) \subseteq Announced(m)
    BY <2>1, <2>3, AnnouncedParts
  <2>5. CASE TaskFor(n, m).whole
    BY <2>1, <2>5 DEF TaskFor
  <2>6. CASE ~TaskFor(n, m).whole
    <3>1. \E i \in UnreadOf(n, m) : LastOf(n, m) = stream[i]
      BY <1>1, LastIsThere
    <3>2. Updates(n, m) \subseteq UpdatedBy(Announced(m))
      BY <2>2, <2>4 DEF Updates, UpdatedBy
    <3>3. LastOf(n, m) \in Announced(m)
      BY <2>2, <2>4, <3>1
    <3>4. QED
      BY <2>1, <2>6, <3>2, <3>3
  <2>7. QED
    BY <2>5, <2>6
<1>5. \A t \in Tasks(n)' : /\ t.update \subseteq UpdatedBy(Announced(t.node))
                           /\ t.fresh => \E e \in Announced(t.node) : e.fresh
  <2> SUFFICES ASSUME NEW t \in Tasks(n)'
               PROVE  /\ t.update \subseteq UpdatedBy(Announced(t.node))
                      /\ t.fresh => \E e \in Announced(t.node) : e.fresh
    OBVIOUS
  <2>1. t.node \in Publishers(n) /\ t = TaskFor(n, t.node)
    BY <1>2
  <2>2. PICK m \in Publishers(n) : m = t.node
    BY <2>1
  <2>3. QED
    BY <1>4, <2>1, <2>2
<1>6. ASSUME asked = Nothing
      PROVE  /\ \A m \in Nodes : view'[n][m] # Nothing => ~view'[n][m].fresh
             /\ \A t \in Tasks(n)' : ~t.fresh
  <2>1. NothingFresh
    BY <1>6 DEF FreshInv
  <2>2. \A m \in Nodes : \A e \in Announced(m) : ~e.fresh
    BY <2>1, AnnouncedParts DEF NothingFresh
  <2>3. \A m \in Publishers(n) : ~TaskFor(n, m).fresh
    BY <1>4, <2>2
  <2>4. \A m \in Nodes : view[n][m] # Nothing => ~view[n][m].fresh
    BY <1>1, <2>1 DEF NothingFresh
  <2>5. QED
    BY <1>2, <2>3, <2>4
<1> DEFINE L == Len(stream)
<1>7. L \in Nat /\ cursor[n] \in Nat
  BY <1>1, Constants DEF TypeOK
<1>8. ASSUME lost = "nothing", asked # Nothing, NEW m \in Nodes PROVE FreshReadInv(n, m)'
  <2>1. FreshReadInv(n, m) /\ UpdateInv(m) /\ ReadInv(n, m)
    BY <1>1, <1>8 DEF FreshInv, SyncInv
  <2>2. /\ \A l : FreshProbes(l, m)' = FreshProbes(l, m) /\ (AllFresh(l, m)' <=> AllFresh(l, m))
        /\ \A s : TaskProbes(s)' = TaskProbes(s)
        /\ \A S, i : FreshTo(S, m, i)' <=> FreshTo(S, m, i)
    BY <1>1, <1>2, ReadsFreshFrame
  <2>3. CASE n = m
    BY <1>3, <2>1, <2>2, <2>3 DEF FreshReadInv
  <2>4. CASE n # m /\ m \in Publishers(n)
    <3> DEFINE T == TaskFor(n, m)
    <3>1. T.node = m
      BY <1>4, <2>4
    <3>2. ~T.whole => /\ FreshTo(TaskProbes(T), m, cursor[n]) /\ FreshTo(TaskProbes(T), m, L)
                      /\ T.fresh => \A p \in Probes : p \in TaskProbes(T)
      BY <1>1, <2>1, <2>4, TaskForFresh
    <3>3. \A t \in Tasks(n)' : t.node = m => t = T
      BY <1>2
    <3> HIDE DEF T
    <3>4. CASE T \in Tasks(n)' /\ view'[n][m] = view[n][m]
      BY <1>2, <2>1, <2>2, <2>4, <3>1, <3>2, <3>3, <3>4 DEF FreshReadInv
    <3>5. CASE Immediate(T) /\ view'[n][m] # Nothing /\ view'[n][m].probes = T.base /\ view'[n][m].fresh = T.fresh
      <4>1. ~T.whole /\ T.update = {}
        BY <3>5 DEF Immediate
      <4>2. \A p \in Probes : p \in TaskProbes(T) => p \in FreshProbes(T.base, m)
        BY <3>1, <4>1 DEF TaskProbes, FreshProbes
      <4>3. \A i : FreshTo(TaskProbes(T), m, i) => FreshTo(FreshProbes(T.base, m), m, i)
        BY <4>2 DEF FreshTo, Covers
      <4>4. T.fresh => AllFresh(T.base, m)
        BY <3>2, <4>1, <4>2 DEF AllFresh
      <4>5. \A t \in Tasks(n)' : t.node # m
        BY <1>2, <3>3, <3>5
      <4>6. FreshTo(FreshProbes(view'[n][m].probes, m), m, cursor[n]) /\ FreshTo(FreshProbes(view'[n][m].probes, m), m, L)
        BY <3>2, <3>5, <4>1, <4>3
      <4>7. QED
        BY <1>2, <2>2, <3>5, <4>4, <4>5, <4>6 DEF FreshReadInv
    <3>6. QED
      BY <1>2, <2>4, <3>4, <3>5 DEF T
  <2>5. CASE n # m /\ m \notin Publishers(n)
    <3>1. view'[n][m] = view[n][m] /\ \A t \in Tasks(n)' : t.node # m
      BY <1>2, <2>5
    <3>2. view[n][m] # Nothing => Published(m, 0) # {} /\ FreshTo(FreshProbes(view[n][m].probes, m), m, cursor[n])
      BY <2>1, <2>5 DEF ReadInv, FreshReadInv
    <3>3. Published(m, cursor[n]) = {}
      BY <2>5 DEF Published, Publishers, Unread
    <3>4. view[n][m] # Nothing => FreshTo(FreshProbes(view[n][m].probes, m), m, L)
      <4> SUFFICES ASSUME view[n][m] # Nothing PROVE FreshTo(FreshProbes(view[n][m].probes, m), m, L)
        OBVIOUS
      <4>1. cursor[n] # 0
        BY <3>2, <3>3
      <4>2. Published(m, L) = {}
        BY <1>7 DEF Published
      <4>3. Events(m, L) = Events(m, cursor[n])
        BY <3>3, <4>2 DEF Events
      <4>4. QED
        BY <3>2, <3>3, <4>1, <4>2, <4>3 DEF FreshTo
    <3>5. QED
      BY <1>2, <2>1, <2>2, <2>5, <3>1, <3>2, <3>4 DEF FreshReadInv
  <2>6. QED
    BY <2>3, <2>4, <2>5
<1>9. QED
  BY <1>1, <1>2, <1>3, <1>5, <1>6, <1>8, ReaderFresh

\* An event that is published is as fresh to readers as it was when it was pending.
LEMMA PublishFresh ==
  ASSUME TypeOK, SyncInv, FreshInv, NEW w \in Hosts, Publish(w)
  PROVE  FreshInv'
<1>1. w \in Nodes
  BY Constants
<1> DEFINE d == Trimmed
           L == Len(stream)
<1>2. /\ UNCHANGED <<env, stamp, document, faults, lost>>
      /\ push[w].state = "publishing"
      /\ push'[w] = IdlePush /\ \A m \in Nodes \ {w} : push'[m] = push[m]
      /\ d \in {0, 1} /\ L \in Nat /\ L' = L + 1 - d /\ L' \in 1..StreamLength
      /\ \A i \in 1..L' : stream'[i] = IF i = L' THEN push[w].event ELSE stream[i + d]
      /\ \A m \in Nodes :
           /\ cursor'[m] = Moved(cursor[m])
           /\ pull'[m] = IdlePull <=> pull[m] = IdlePull
           /\ Tasks(m)' = Tasks(m)
           /\ pull[m] # IdlePull => pull'[m].failed = pull[m].failed /\ pull'[m].upto = Moved(pull[m].upto)
           /\ \A k \in Nodes : view'[m][k] = view[m][k] \/ view'[m][k] = Nothing
  BY PublishDoes
<1>3. stage' = stage /\ home' = home /\ asked' = asked /\ lost' = lost /\ document' = document
  BY <1>2 DEF env
<1>4. ~IsWriting(w) /\ ~IsWriting(w)' /\ Pending(w)' = {} /\ push[w].event.node = w
  <2>1. push[w].event.node = w
    BY PublishMoves
  <2>2. QED
    BY <1>2, <2>1 DEF IsWriting, IdlePush, Pending
<1>5. \A m \in Nodes : IsWriting(m)' => IsWriting(m) /\ push'[m] = push[m]
  BY <1>2, <1>4 DEF IsWriting
<1> HIDE DEF d, L
<1>6. d <= L /\ \A m \in Nodes, i \in d..L, j \in Nat : j = i - d =>
        /\ Events(m, j)' = Events(m, i)
        /\ Published(m, j)' = Published(m, i) \/ Published(m, j)' = Events(m, i)
  <2>1. d <= L
    BY PublishMoves DEF d, L
  <2>2. ASSUME NEW m \in Nodes, NEW i \in d..L, NEW j \in Nat, j = i - d
        PROVE  /\ Events(m, j)' = Events(m, i)
               /\ Published(m, j)' = IF m = w THEN Events(m, i) ELSE Published(m, i)
    BY <2>2, PublishMoves DEF d, L
  <2>3. QED
    BY <2>1, <2>2
<1>7. \A m \in Nodes : Events(m, 0)' \subseteq Events(m, 0)
  BY PublishMoves
<1>8. \A m \in Nodes : Announced(m)' \subseteq Announced(m)
  <2> SUFFICES ASSUME NEW m \in Nodes PROVE Announced(m)' \subseteq Announced(m)
    OBVIOUS
  <2>1. CASE m = w
    <3>1. Announced(m)' \subseteq Events(m, 0)'
      BY <1>4, <2>1 DEF Announced, Events
    <3>2. Announced(m) = Events(m, 0)
      BY <1>2, <2>1, AnnouncedParts
    <3>3. QED
      BY <1>7, <3>1, <3>2
  <2>2. CASE m # w
    <3>1. Published(m, 0)' \subseteq Published(m, 0)
      <4>1. d \in d..L /\ 0 = d - d /\ 0 \in Nat /\ d \in Nat /\ 0 <= d
        BY <1>2, <1>6
      <4>2. Published(m, 0)' = Published(m, d)
        BY <2>2, <4>1, PublishMoves DEF d, L
      <4>3. QED
        BY <4>1, <4>2, EventsShrink
    <3>2. push'[m] = push[m]
      BY <1>2, <2>2
    <3>3. QED
      BY <3>1, <3>2 DEF Announced, Pending
  <2>3. QED
    BY <2>1, <2>2
<1>9. asked' = Nothing => NothingFresh'
  <2> SUFFICES ASSUME asked' = Nothing PROVE NothingFresh'
    OBVIOUS
  <2>1. NothingFresh
    BY <1>3 DEF FreshInv
  <2>2. \A m, k \in Nodes : view'[m][k] = view[m][k] \/ view'[m][k] = Nothing
    BY <1>2
  <2>3. \A n \in Nodes : Tasks(n)' = Tasks(n)
    BY <1>2
  <2>4. QED
    BY <1>3, <1>5, <1>7, <2>1, <2>2, <2>3 DEF NothingFresh
<1>10. AskedInv'
  BY <1>3 DEF AskedInv, FreshInv
<1>11. ASSUME lost' = "nothing", NEW m \in Nodes PROVE WrittenInv(m)'
  <2>1. WrittenInv(m)
    BY <1>3, <1>11 DEF FreshInv
  <2>2. \A p : Known(p, m)' <=> Known(p, m)
    BY <1>3 DEF Known
  <2>3. \A n \in Nodes : Tasks(n)' = Tasks(n)
    BY <1>2
  <2>4. \A p : p \in UpdatedBy(Announced(m)') => p \in UpdatedBy(Announced(m))
    BY <1>8 DEF UpdatedBy
  <2>5. Announced(m)' # {} => Announced(m) # {}
    BY <1>8
  <2>6. ASSUME NEW p \in Probes,
               p \in UpdatedBy(Announced(m)') \/ (\E n \in Nodes : \E t \in Tasks(n)' : t.node = m /\ p \in t.update)
        PROVE  /\ Known(p, m)'
               /\ \/ stage'[p] = Gone
                  \/ document'[m].probes[p] # 0 /\ (IsWriting(m)' => push'[m].data.probes[p] # 0)
    <3>1. /\ Known(p, m)
          /\ \/ stage[p] = Gone
             \/ document[m].probes[p] # 0 /\ (IsWriting(m) => push[m].data.probes[p] # 0)
      BY <2>1, <2>3, <2>4, <2>6 DEF WrittenInv
    <3>2. QED
      BY <1>3, <1>5, <2>2, <3>1
  <2>7. IsWriting(m)' => \A p \in push'[m].event.update : Known(p, m)' /\ push'[m].data.probes[p] # 0
    BY <1>5, <2>1, <2>2 DEF WrittenInv
  <2>8. Announced(m)' # {} => document'[m] # Nothing
    BY <1>3, <2>1, <2>5 DEF WrittenInv
  <2>9. QED
    BY <2>6, <2>7, <2>8 DEF WrittenInv, UpdatedBy
<1>12. ASSUME lost' = "nothing", asked' # Nothing, NEW m \in Nodes
       PROVE  DocumentInv(m)' /\ UpdateInv(m)' /\ \A n \in Nodes : FreshReadInv(n, m)'
  <2>1. DocumentInv(m) /\ UpdateInv(m) /\ \A n \in Nodes : FreshReadInv(n, m)
    BY <1>3, <1>12 DEF FreshInv
  <2>2. /\ \A l : FreshProbes(l, m)' = FreshProbes(l, m) /\ (AllFresh(l, m)' <=> AllFresh(l, m))
        /\ \A t : TaskProbes(t)' = TaskProbes(t)
        /\ \A E, p : Retracts(E, p)' <=> Retracts(E, p)
    BY <1>3, FreshFrame
  <2>3. DocumentInv(m)'
    <3>1. \A n \in Nodes : Tasks(n)' = Tasks(n)
      BY <1>2
    <3>2. (\E e \in Announced(m)' : e.fresh) => \E e \in Announced(m) : e.fresh
      BY <1>8
    <3>3. QED
      BY <1>3, <1>5, <2>1, <2>2, <3>1, <3>2 DEF DocumentInv
  <2>4. ASSUME NEW j \in 1..L', NEW p \in Probes, stream'[j].node = m, p \in stream'[j].update, asked'[p] = Gone
        PROVE  Retracts(Published(m, j), p)' /\ Retracts(Events(m, j), p)'
    <3>1. CASE j = L'
      <4>1. m = w
        BY <1>2, <1>4, <2>4, <3>1
      <4>2. Published(m, j)' = {}
        BY <1>2, <3>1 DEF Published, L
      <4>3. Events(m, j)' = {}
        BY <1>4, <4>1, <4>2 DEF Events
      <4>4. QED
        BY <4>2, <4>3 DEF Retracts, IsFresh
    <3>2. CASE j # L'
      <4>1. j + d \in 1..L /\ j \in Nat /\ d \in Nat /\ L \in Nat
        BY <1>2, <3>2
      <4>2. PICK i \in 1..L : i = j + d
        BY <4>1, Zenon
      <4>3. i \in d..L /\ j = i - d
        BY <4>1, <4>2
      <4>4. stream'[j] = stream[i]
        BY <1>2, <3>2, <4>2
      <4>5. Events(m, j)' = Events(m, i) /\ (Published(m, j)' = Published(m, i) \/ Published(m, j)' = Events(m, i))
        BY <1>6, <4>1, <4>3
      <4>6. Retracts(Published(m, i), p) /\ Retracts(Events(m, i), p)
        BY <1>3, <2>1, <2>4, <4>4 DEF UpdateInv, L
      <4>7. QED
        BY <2>2, <4>5, <4>6
    <3>3. QED
      BY <3>1, <3>2
  <2>5. UpdateInv(m)'
    <3>1. \A e \in Events(m, 0)' : e.fresh => \A p \in e.update : asked'[p] # Gone
      BY <1>3, <1>7, <2>1 DEF UpdateInv
    <3>2. QED
      BY <2>4, <3>1 DEF UpdateInv, L
  <2>6. ASSUME NEW S, NEW i \in 0..L, NEW j, j = Moved(i), FreshTo(S, m, i)
        PROVE  FreshTo(S, m, j)'
    <3>1. CASE i > d
      <4>1. j = i - d /\ j \in Nat /\ i \in d..L /\ i # 0
        BY <1>2, <2>6, <3>1 DEF Moved, d
      <4>2. Events(m, j)' = Events(m, i) /\ (Published(m, j)' = Published(m, i) \/ Published(m, j)' = Events(m, i))
        BY <1>6, <4>1
      <4>3. QED
        BY <2>6, <4>1, <4>2 DEF FreshTo, Covers
    <3>2. CASE ~(i > d)
      <4>1. j = 0
        BY <2>6, <3>2 DEF Moved, d
      <4>2. QED
        BY <4>1 DEF FreshTo
    <3>3. QED
      BY <3>1, <3>2
  <2>7. ASSUME NEW n \in Nodes PROVE FreshReadInv(n, m)'
    <3>1. FreshReadInv(n, m) /\ ReadInv(n, m)
      BY <2>1 DEF SyncInv
    <3>2. cursor[n] \in 0..L /\ (pull[n] # IdlePull => pull[n].upto \in 0..L)
      <4>1. cursor[n] \in Nat /\ (pull[n] # IdlePull => pull[n].upto \in Nat)
        BY PullFields, Constants DEF TypeOK
      <4>2. QED
        BY <1>2, <3>1, <4>1 DEF ReadInv, L
    <3>3. /\ cursor'[n] = Moved(cursor[n]) /\ (pull'[n] # IdlePull <=> pull[n] # IdlePull) /\ Tasks(n)' = Tasks(n)
          /\ pull[n] # IdlePull => pull'[n].failed = pull[n].failed /\ pull'[n].upto = Moved(pull[n].upto)
          /\ view'[n][m] = view[n][m] \/ view'[n][m] = Nothing
      BY <1>2
    <3>4. PICK c : c = Moved(cursor[n])
      OBVIOUS
    <3>5. PICK u : u = Moved(pull[n].upto)
      OBVIOUS
    <3>6. \A S : FreshTo(S, m, cursor[n]) => FreshTo(S, m, c)'
      BY <2>6, <3>2, <3>4
    <3>7. pull[n] # IdlePull => \A S : FreshTo(S, m, pull[n].upto) => FreshTo(S, m, u)'
      BY <2>6, <3>2, <3>5
    <3>8. view'[n][m] # Nothing /\ view'[n][m].fresh => AllFresh(view[n][m].probes, m)'
      BY <2>2, <3>1, <3>3 DEF FreshReadInv
    <3>9. n # m /\ view'[n][m] # Nothing => FreshTo(FreshProbes(view[n][m].probes, m), m, cursor[n])'
      BY <2>2, <3>1, <3>3, <3>4, <3>6 DEF FreshReadInv
    <3>10. n # m => \A t \in Tasks(n)' : t.node = m /\ ~t.whole =>
             /\ FreshTo(TaskProbes(t), m, cursor[n])' /\ FreshTo(TaskProbes(t), m, pull[n].upto)'
             /\ t.fresh => \A p \in Probes : p \in TaskProbes(t)'
      <4> SUFFICES ASSUME n # m, NEW t \in Tasks(n)', t.node = m, ~t.whole
                   PROVE  /\ FreshTo(TaskProbes(t), m, cursor[n])' /\ FreshTo(TaskProbes(t), m, pull[n].upto)'
                          /\ t.fresh => \A p \in Probes : p \in TaskProbes(t)'
        OBVIOUS
      <4>1. t \in Tasks(n) /\ pull[n] # IdlePull
        BY <3>3 DEF Tasks
      <4>2. /\ FreshTo(TaskProbes(t), m, cursor[n]) /\ FreshTo(TaskProbes(t), m, pull[n].upto)
            /\ t.fresh => \A p \in Probes : p \in TaskProbes(t)
        BY <3>1, <4>1 DEF FreshReadInv
      <4>3. QED
        BY <2>2, <3>3, <3>4, <3>5, <3>6, <3>7, <4>1, <4>2
    <3>11. n # m /\ pull'[n] # IdlePull /\ view'[n][m] # Nothing =>
             \/ pull'[n].failed \/ \E t \in Tasks(n)' : t.node = m
             \/ FreshTo(FreshProbes(view[n][m].probes, m), m, pull[n].upto)'
      BY <2>2, <3>1, <3>3, <3>5, <3>7 DEF FreshReadInv
    <3>12. QED
      BY <3>8, <3>9, <3>10, <3>11 DEF FreshReadInv
  <2>8. QED
    BY <2>3, <2>5, <2>7
<1>13. QED
  BY <1>9, <1>10, <1>11, <1>12 DEF FreshInv

\* As time goes on, more and more is newer than the call.
LEMMA FreshGrows ==
  ASSUME TypeOK, EnvStep, asked # Nothing, AskedInv
  PROVE  /\ AskedInv'
         /\ \A l \in ProbesById, m \in Nodes : FreshProbes(l, m) \subseteq FreshProbes(l, m)'
         /\ \A t \in Task : TaskProbes(t) \subseteq TaskProbes(t)'
<1>1. asked' = asked
  BY EnvStepDoes
<1>2. ASSUME NEW p \in Probes
      PROVE  /\ asked[p] <= stage'[p]
             /\ \A v \in Versions, m \in Nodes : home'[p] = m /\ (home[p] = m => FreshEnough(v, p)) => FreshEnough(v, p)'
             /\ \A m \in Nodes : home'[p] = m => home[p] = m \/ asked[p] # Gone
  <2>1. /\ asked[p] \in 0..Gone /\ stage[p] \in 0..Gone /\ asked[p] <= stage[p]
        /\ MaxVersion \in Nat /\ Gone = MaxVersion + 1 /\ Versions = 0..MaxVersion
    BY Constants DEF TypeOK, AskedInv
  <2>2. \/ stage'[p] = stage[p] /\ home'[p] = home[p]
        \/ stage[p] = 0 /\ stage'[p] = 1 /\ home'[p] \in Nodes
        \/ /\ stage[p] \in 1..MaxVersion /\ stage'[p] \in 1..Gone /\ stage[p] < stage'[p]
           /\ home'[p] = home[p]
    BY EnvStepDoes
  <2>3. CASE stage'[p] = stage[p] /\ home'[p] = home[p]
    BY <1>1, <2>1, <2>3 DEF FreshEnough
  <2>4. CASE stage[p] = 0 /\ stage'[p] = 1 /\ home'[p] \in Nodes
    <3>1. asked[p] = 0
      BY <2>1, <2>4
    <3>2. \A v \in Versions : FreshEnough(v, p)'
      BY <1>1, <2>1, <3>1 DEF FreshEnough
    <3>3. QED
      BY <2>1, <2>4, <3>1, <3>2
  <2>5. CASE stage[p] \in 1..MaxVersion /\ stage'[p] \in 1..Gone /\ stage[p] < stage'[p] /\ home'[p] = home[p]
    <3>1. \A v \in Versions : FreshEnough(v, p) => FreshEnough(v, p)'
      BY <1>1, <2>1, <2>5 DEF FreshEnough
    <3>2. QED
      BY <2>1, <2>5, <3>1
  <2>6. QED
    BY <2>2, <2>3, <2>4, <2>5
<1>3. AskedInv'
  BY <1>1, <1>2 DEF AskedInv
<1>4. \A l \in ProbesById, m \in Nodes : FreshProbes(l, m) \subseteq FreshProbes(l, m)'
  <2> SUFFICES ASSUME NEW l \in ProbesById, NEW m \in Nodes, NEW p \in FreshProbes(l, m) PROVE p \in FreshProbes(l, m)'
    OBVIOUS
  <2>1. p \in Probes /\ l[p] \in Versions /\ (home[p] = m => FreshEnough(l[p], p))
    BY DEF FreshProbes, ProbesById
  <2>2. home'[p] = m => FreshEnough(l[p], p)'
    BY <1>2, <2>1
  <2>3. QED
    BY <2>1, <2>2 DEF FreshProbes
<1>5. \A t \in Task : TaskProbes(t) \subseteq TaskProbes(t)'
  <2> SUFFICES ASSUME NEW t \in Task, NEW p \in TaskProbes(t) PROVE p \in TaskProbes(t)'
    OBVIOUS
  <2>1. /\ p \in Probes /\ t.node \in Nodes /\ t.base[p] \in Versions
        /\ home[p] = t.node => IF p \in t.update THEN t.base[p] = 0 \/ asked[p] # Gone ELSE FreshEnough(t.base[p], p)
    BY DEF TaskProbes, Task, ProbesById
  <2>2. CASE p \in t.update
    <3>1. home'[p] = t.node => t.base[p] = 0 \/ asked'[p] # Gone
      BY <1>1, <1>2, <2>1, <2>2
    <3>2. QED
      BY <2>1, <2>2, <3>1 DEF TaskProbes
  <2>3. CASE p \notin t.update
    <3>1. home'[p] = t.node => FreshEnough(t.base[p], p)'
      BY <1>2, <2>1, <2>3
    <3>2. QED
      BY <2>1, <2>3, <3>1 DEF TaskProbes
  <2>4. QED
    BY <2>2, <2>3
<1>6. QED
  BY <1>3, <1>4, <1>5

\* What has been said of fresh entries stays true while the probes go on; when the call is made, there are none.
LEMMA EnvFresh ==
  ASSUME TypeOK, SyncInv, FreshInv, EnvStep
  PROVE  FreshInv'
<1>1. /\ view' = view /\ document' = document /\ stream' = stream /\ cursor' = cursor
      /\ push' = push /\ pull' = pull /\ lost' = lost
  BY EnvStepDoes DEF caches
<1>2. \A m : /\ IsWriting(m)' <=> IsWriting(m)
             /\ Pending(m)' = Pending(m) /\ Announced(m)' = Announced(m) /\ Tasks(m)' = Tasks(m)
             /\ \A i : Published(m, i)' = Published(m, i) /\ Events(m, i)' = Events(m, i)
  BY <1>1 DEF IsWriting, Pending, Announced, Published, Events, Tasks
<1>3. NothingFresh' <=> NothingFresh
  BY <1>1, <1>2 DEF NothingFresh
<1>4. ASSUME lost' = "nothing", NEW m \in Nodes PROVE WrittenInv(m)'
  <2>1. WrittenInv(m)
    BY <1>1, <1>4 DEF FreshInv
  <2>2. \A p \in Probes : \/ stage'[p] = stage[p] /\ home'[p] = home[p]
                          \/ stage[p] = 0 /\ stage'[p] = 1 /\ home'[p] \in Nodes
                          \/ /\ stage[p] \in 1..MaxVersion /\ stage'[p] \in 1..Gone /\ stage[p] < stage'[p]
                             /\ home'[p] = home[p]
    BY EnvStepDoes
  <2>3. \A p \in Probes : (Known(p, m) => Known(p, m)') /\ (stage[p] = Gone => stage'[p] = Gone)
    BY <2>2, Constants DEF Known
  <2>4. IsWriting(m) => push[m].event.update \subseteq Probes
    BY PushFields DEF IsWriting, Event, IdlePush
  <2>5. QED
    BY <1>1, <1>2, <2>1, <2>3, <2>4 DEF WrittenInv
<1>5. CASE asked = Nothing /\ asked' = Nothing
  BY <1>3, <1>4, <1>5 DEF FreshInv, AskedInv
<1>6. CASE asked = Nothing /\ asked' # Nothing
  <2>1. asked' = stage /\ stage' = stage /\ home' = home
    BY <1>6, EnvStepDoes
  <2>2. AskedInv'
    <3>1. \A p \in Probes : asked'[p] <= stage'[p]
      BY <2>1, Constants DEF TypeOK
    <3>2. QED
      BY <3>1 DEF AskedInv
  <2>3. NothingFresh
    BY <1>6 DEF FreshInv
  <2>4. ASSUME NEW m \in Nodes PROVE DocumentInv(m)' /\ UpdateInv(m)' /\ \A n \in Nodes : FreshReadInv(n, m)'
    <3>1. \A e \in Events(m, 0) : ~e.fresh
      BY <2>3 DEF NothingFresh
    <3>2. \A e \in Announced(m) : ~e.fresh
      BY <3>1, AnnouncedParts
    <3>3. \A i \in Nat : ~IsFresh(Published(m, i)) /\ ~IsFresh(Events(m, i))
      <4> TAKE i \in Nat
      <4>1. Published(m, i) \subseteq Announced(m)
        BY AnnouncedParts
      <4>2. Events(m, i) \subseteq Events(m, 0)
        <5>1. Published(m, i) \subseteq Events(m, 0)
          BY <4>1, AnnouncedParts
        <5>2. QED
          BY <5>1 DEF Events
      <4>3. QED
        BY <3>1, <3>2, <4>1, <4>2 DEF IsFresh
    <3>4. IsWriting(m) => ~push[m].event.fresh
      BY <3>1 DEF IsWriting, Events, Pending, IdlePush
    <3>5. DocumentInv(m)'
      <4>1. /\ document'[m] # Nothing => ~document'[m].fresh
            /\ IsWriting(m)' => ~push'[m].data.fresh /\ ~push'[m].event.fresh
            /\ \A e \in Announced(m)' : ~e.fresh
            /\ \A n \in Nodes : \A t \in Tasks(n)' : ~t.fresh
        BY <1>1, <1>2, <2>3, <3>2, <3>4 DEF NothingFresh
      <4>2. QED
        BY <4>1 DEF DocumentInv
    <3>6. UpdateInv(m)'
      <4>1. \A i \in 1..Len(stream)' : i \in Nat
        BY <1>1
      <4>2. \A i \in 1..Len(stream)' : ~IsFresh(Published(m, i)') /\ ~IsFresh(Events(m, i)')
        BY <1>2, <3>3, <4>1
      <4>3. \A e \in Events(m, 0)' : ~e.fresh
        BY <1>2, <3>1
      <4>4. QED
        BY <4>2, <4>3 DEF UpdateInv, Retracts
    <3>7. ASSUME NEW n \in Nodes PROVE FreshReadInv(n, m)'
      <4>1. \A S : \A i \in Nat : FreshTo(S, m, i)'
        BY <1>2, <3>3 DEF FreshTo, Covers
      <4>2. cursor'[n] \in Nat /\ (pull'[n] # IdlePull => pull'[n].upto \in Nat)
        BY <1>1, PullFields, Constants DEF TypeOK
      <4>3. (view'[n][m] # Nothing => ~view'[n][m].fresh) /\ \A t \in Tasks(n)' : ~t.fresh
        BY <1>1, <1>2, <2>3 DEF NothingFresh
      <4>4. Tasks(n)' # {} => pull'[n] # IdlePull
        BY DEF Tasks
      <4>5. QED
        BY <4>1, <4>2, <4>3, <4>4 DEF FreshReadInv
    <3>8. QED
      BY <3>5, <3>6, <3>7
  <2>5. QED
    BY <1>4, <1>6, <2>2, <2>4 DEF FreshInv
<1>7. CASE asked # Nothing
  <2>1. asked' = asked /\ AskedInv
    BY <1>7, EnvStepDoes DEF FreshInv
  <2>2. /\ AskedInv'
        /\ \A l \in ProbesById, m \in Nodes : FreshProbes(l, m) \subseteq FreshProbes(l, m)'
        /\ \A t \in Task : TaskProbes(t) \subseteq TaskProbes(t)'
    BY <1>7, <2>1, FreshGrows
  <2>3. \A l \in ProbesById, m \in Nodes : AllFresh(l, m) => AllFresh(l, m)'
    BY <2>2 DEF AllFresh
  <2>4. \A S, R, m, i : FreshTo(S, m, i) /\ S \subseteq R => FreshTo(R, m, i)'
    BY <1>2 DEF FreshTo, Covers
  <2>5. ASSUME lost' = "nothing", NEW m \in Nodes
        PROVE  DocumentInv(m)' /\ UpdateInv(m)' /\ \A n \in Nodes : FreshReadInv(n, m)'
    <3>1. DocumentInv(m) /\ UpdateInv(m) /\ WrittenInv(m) /\ \A n \in Nodes : FreshReadInv(n, m)
      BY <1>1, <1>7, <2>5 DEF FreshInv
    <3>2. UpdateInv(m)'
      BY <1>1, <1>2, <2>1, <3>1 DEF UpdateInv, Retracts
    <3>3. DocumentInv(m)'
      <4>1. document[m] # Nothing => document[m].probes \in ProbesById
        BY DEF TypeOK, Document
      <4>2. IsWriting(m) => push[m].data.probes \in ProbesById
        BY PushFields DEF IsWriting, IdlePush, Document
      <4>3. Announced(m) # {} => document[m] # Nothing
        BY <3>1 DEF WrittenInv
      <4>4. (\E n \in Nodes : \E t \in Tasks(n) : t.node = m) => document[m] # Nothing
        <5> SUFFICES ASSUME NEW n \in Nodes, NEW t \in Tasks(n), t.node = m PROVE document[m] # Nothing
          OBVIOUS
        <5>1. Published(m, 0) # {}
          BY DEF SyncInv, ReadInv
        <5>2. QED
          BY <4>3, <5>1 DEF Announced
      <4>5. QED
        BY <1>1, <1>2, <2>3, <3>1, <4>1, <4>2, <4>3, <4>4 DEF DocumentInv
    <3>4. ASSUME NEW n \in Nodes PROVE FreshReadInv(n, m)'
      <4>1. FreshReadInv(n, m)
        BY <3>1
      <4>2. view[n][m] # Nothing => view[n][m].probes \in ProbesById
        BY DEF TypeOK, Entry
      <4>3. view[n][m] # Nothing /\ view[n][m].fresh => AllFresh(view[n][m].probes, m)'
        BY <1>1, <2>3, <4>1, <4>2 DEF FreshReadInv
      <4>4. view[n][m] # Nothing => \A i : FreshTo(FreshProbes(view[n][m].probes, m), m, i) =>
                                           FreshTo(FreshProbes(view[n][m].probes, m), m, i)'
        BY <1>1, <2>2, <2>4, <4>2
      <4>5. \A t \in Tasks(n) : t \in Task
        BY PullFields DEF Tasks
      <4>6. \A t \in Tasks(n) : /\ \A i : FreshTo(TaskProbes(t), m, i) => FreshTo(TaskProbes(t), m, i)'
                                /\ \A p : p \in TaskProbes(t) => p \in TaskProbes(t)'
        BY <2>2, <2>4, <4>5
      <4>7. QED
        BY <1>1, <1>2, <4>1, <4>3, <4>4, <4>6 DEF FreshReadInv
    <3>5. QED
      BY <3>2, <3>3, <3>4
  <2>6. QED
    BY <1>4, <1>7, <2>1, <2>2, <2>5 DEF FreshInv
<1>8. QED
  BY <1>5, <1>6, <1>7

\* At first nobody has asked, and nothing is listed.
LEMMA InitFresh == Init => FreshInv
<1> SUFFICES ASSUME Init PROVE FreshInv
  OBVIOUS
<1>1. \A m \in Nodes : /\ push[m] = IdlePush /\ ~IsWriting(m) /\ push[m].state = "idle" /\ Pending(m) = {} /\ Tasks(m) = {}
                       /\ document[m] = Nothing /\ \A n \in Nodes : view[n][m] = Nothing
  BY DEF Init, IdlePush, IsWriting, Pending, Tasks
<1>2. \A m \in Nodes : Events(m, 0) = {} /\ Announced(m) = {}
  <2>1. \A m \in Nodes : Published(m, 0) = {}
    BY DEF Init, Published
  <2>2. QED
    BY <1>1, <2>1 DEF Events, Announced
<1>3. NothingFresh
  BY <1>1, <1>2 DEF NothingFresh
<1>4. ASSUME NEW m \in Nodes PROVE WrittenInv(m)
  BY <1>1, <1>2 DEF WrittenInv, UpdatedBy
<1>5. asked = Nothing
  BY DEF Init
<1>6. QED
  BY <1>3, <1>4, <1>5 DEF FreshInv, AskedInv

\* Every step keeps fresh what is taken for fresh.
LEMMA FreshStep == TypeOK /\ SyncInv /\ FreshInv /\ [Next]_vars => FreshInv'
<1> SUFFICES ASSUME TypeOK, SyncInv, FreshInv, [Next]_vars PROVE FreshInv'
  OBVIOUS
<1>1. CASE UNCHANGED vars
  <2>1. /\ stage' = stage /\ home' = home /\ asked' = asked /\ view' = view /\ document' = document /\ stream' = stream
        /\ cursor' = cursor /\ push' = push /\ pull' = pull /\ lost' = lost
    BY <1>1 DEF vars, env, caches
  <2>2. \A m : /\ IsWriting(m)' <=> IsWriting(m)
               /\ Pending(m)' = Pending(m) /\ Announced(m)' = Announced(m) /\ Tasks(m)' = Tasks(m)
               /\ \A i : Published(m, i)' = Published(m, i) /\ Events(m, i)' = Events(m, i)
    BY <2>1 DEF IsWriting, Pending, Announced, Published, Events, Tasks
  <2>3. /\ \A l, m : FreshProbes(l, m)' = FreshProbes(l, m) /\ (AllFresh(l, m)' <=> AllFresh(l, m))
        /\ \A t : TaskProbes(t)' = TaskProbes(t)
        /\ \A p, m : Known(p, m)' <=> Known(p, m)
        /\ \A E, p : Retracts(E, p)' <=> Retracts(E, p)
        /\ \A S, m, i : FreshTo(S, m, i)' <=> FreshTo(S, m, i)
    BY <2>1, <2>2, FreshFrame DEF FreshTo, Covers
  <2>4. NothingFresh' <=> NothingFresh
    BY <2>1, <2>2 DEF NothingFresh
  <2>5. \A m : WrittenInv(m)' <=> WrittenInv(m)
    BY <2>1, <2>2, <2>3 DEF WrittenInv
  <2>6. \A m : DocumentInv(m)' <=> DocumentInv(m)
    BY <2>1, <2>2, <2>3 DEF DocumentInv
  <2>7. \A m : UpdateInv(m)' <=> UpdateInv(m)
    BY <2>1, <2>2, <2>3 DEF UpdateInv
  <2>8. \A n, m : FreshReadInv(n, m)' <=> FreshReadInv(n, m)
    BY <2>1, <2>2, <2>3 DEF FreshReadInv
  <2>9. QED
    BY <2>1, <2>4, <2>5, <2>6, <2>7, <2>8 DEF FreshInv, AskedInv
<1>2. CASE EnvStep
  BY <1>2, EnvFresh
<1>3. ASSUME NEW w \in Hosts, PushStep(w) PROVE FreshInv'
  BY <1>3, PushBeginsFresh, WriteDocumentFresh, PublishFresh DEF PushStep
<1>4. ASSUME NEW w \in Hosts, PushFails(w) \/ LoseEvent(w) PROVE FreshInv'
  BY <1>4, PushEndsFresh
<1>5. ASSUME NEW w \in Hosts, Evict(w) PROVE FreshInv'
  BY <1>5, LossFresh, Constants
<1>6. ASSUME NEW n \in Readers, PullStep(n) PROVE FreshInv'
  BY <1>6, StartPullFresh, FetchFresh, FinishPullFresh DEF PullStep
<1>7. ASSUME NEW n \in Nodes, NEW m \in Nodes, Expire(n, m) PROVE FreshInv'
  <2>1. CASE n = m
    BY <1>7, <2>1, LossFresh
  <2>2. CASE n # m
    BY <1>7, <2>2, ExpireFresh
  <2>3. QED
    BY <2>1, <2>2
<1>8. QED
  BY <1>1, <1>2, <1>3, <1>4, <1>5, <1>6, <1>7 DEF Next

\* What keeps fresh the lists that are taken for fresh always holds.
THEOREM FreshInvariant == Spec => [](TypeOK /\ SyncInv /\ FreshInv)
<1>1. Init => FreshInv
  BY InitFresh
<1>2. TypeOK /\ SyncInv /\ FreshInv /\ [Next]_vars => FreshInv'
  BY FreshStep
<1>3. QED
  BY <1>1, <1>2, SyncInvariant, PTL DEF Spec

\* The lists that a call of fetchProbes waits for miss no probe that was connected at the call, name none that
\* had disconnected before, and no data that had been replaced, as long as no document and no event is lost.
THEOREM FetchedListsAlwaysFresh == Spec => []FetchedListsAreFresh
<1>1. TypeOK /\ SyncInv /\ FreshInv => FetchedListsAreFresh
  <2> SUFFICES ASSUME FreshInv, lost = "nothing", asked # Nothing, NEW n \in Nodes, NEW m \in Nodes,
                      view[n][m] # Nothing, view[n][m].fresh, NEW p \in Probes, home[p] = m
               PROVE  FreshEnough(view[n][m].probes[p], p)
    BY DEF FetchedListsAreFresh, NewEntriesAreFresh
  <2>1. FreshReadInv(n, m)
    BY DEF FreshInv
  <2>2. QED
    BY <2>1 DEF FreshReadInv, AllFresh, FreshProbes
<1>2. QED
  BY <1>1, FreshInvariant, PTL
===============================================================================
