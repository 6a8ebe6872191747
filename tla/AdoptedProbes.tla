----------------------------- MODULE AdoptedProbes -----------------------------
(***************************************************************************)
(* The table gp_probes, which the dashboard and the API share: one row per *)
(* device, and its adoption by a user.                                     *)
(*   src/src/lib/override/adopted-probes.ts                                *)
(*   src/src/adoption/adoption-token.ts                                    *)
(*                                                                         *)
(* One worker of each API host reads the table once a minute, matches the  *)
(* rows with the probes that are online, and writes back what differs, row *)
(* by row; it knows the probes from its list, which may be late.           *)
(* Meanwhile users adopt probes.  The other workers only read.             *)
(*                                                                         *)
(* A probe is one socket: Probes are naturals, in the order of the socket  *)
(* ids.  Of its data, its identity (uuid, IP, alternative IPs), its place  *)
(* (ASN and city) and its adoption token are kept, a token being the user  *)
(* it belongs to; the other fields travel like the place does.  Ids of     *)
(* rows are naturals, and an id may be used again when nobody refers to    *)
(* it.  All syncs happen on one day.                                       *)
(***************************************************************************)
EXTENDS Naturals, FiniteSets, Sequences, SequencesExt

CONSTANTS Hosts,
          Probes,    \* sockets, naturals
          Data,      \* uuid, ip, alts, place and token of each
          Users,
          MaxRows,   \* bound on the rows of the table
          OnlineTimes, \* onlineTimesToday of each row, which other programs count: at most the minutes of a day
          MaxEvents, \* bound on adoptions in the dashboard and faults, taken together
          Nothing    \* no row, no user, no IP, no token, no plan

Ids == 1..MaxRows
Uuids == {Data[p].uuid : p \in Probes}
Ips == {Data[p].ip : p \in Probes} \cup UNION {Data[p].alts : p \in Probes}
Places == {Data[p].place : p \in Probes}

Identity == [uuid : Uuids, ip : Ips \cup {Nothing}, alts : SUBSET Ips, place : Places,
             status : {"ready", "offline"}]
Row == [identity : Identity, user : Users \cup {Nothing}]

ASSUME DataAssumption ==
  /\ Probes \subseteq Nat /\ IsFiniteSet(Probes)
  /\ \A p \in Probes : /\ DOMAIN Data[p] = {"uuid", "ip", "alts", "place", "token"}
                       /\ Data[p].token \in Users \cup {Nothing}
                       /\ Data[p].ip \notin Data[p].alts
ASSUME NothingAssumption ==
  /\ Nothing \notin Probes /\ Nothing \notin Ids /\ Nothing \notin Users
  /\ Nothing \notin Ips /\ Nothing \notin Row
ASSUME BoundsAssumption == MaxRows \in Nat /\ MaxEvents \in Nat
ASSUME TimesAssumption == \A i \in Ids : OnlineTimes[i] \in Nat /\ OnlineTimes[i] <= 1440

VARIABLES
  rows,    \* the table: a row, or Nothing, for each id
  stage,   \* "new", "online" or "gone" of each probe
  seen,    \* the probes each host believes to be online
  cache,   \* the rows each host has read last
  sync,    \* "matching" when the rows are read, "writing" when the plan is made
  plan,    \* what is left of the sync of each host
  token,   \* progress of AdoptionToken.validate of each probe
  events   \* adoptions in the dashboard and faults so far

vars == <<rows, stage, seen, cache, sync, plan, token, events>>

Existing(table) == {i \in Ids : table[i] # Nothing}
Online == {p \in Probes : stage[p] = "online"}

-------------------------------------------------------------------------------
(* fetchDProbes: the order of the rows *)

\* Adopted rows come first, then those that have been online more often today (lastSyncDate is
\* the same for all), then those that are online, then the larger ids.
Precedes(table, i, j) ==
  LET rank(k) == (IF table[k].user # Nothing THEN 4000 ELSE 0) + 2 * OnlineTimes[k]
                 + (IF table[k].identity.status = "ready" THEN 1 ELSE 0)
  IN rank(i) > rank(j) \/ (rank(i) = rank(j) /\ i > j)

DProbes(table) ==
  CHOOSE ids \in [1..Cardinality(Existing(table)) -> Existing(table)] :
    \A k, l \in DOMAIN ids : k < l => Precedes(table, ids[k], ids[l])

\* getByIp: a later entry of the map replaces an earlier one, and the alternative IPs come
\* after the others.
ByIp(table, ip) ==
  LET last(ids) == CHOOSE i \in ids : \A j \in ids : ~Precedes(table, i, j)
      byAlt == {i \in Existing(table) : ip \in table[i].identity.alts}
      byIp == {i \in Existing(table) : table[i].identity.ip = ip}
  IN IF byAlt # {} THEN last(byAlt) ELSE IF byIp # {} THEN last(byIp) ELSE Nothing

ByUuid(table, uuid) ==
  LET byUuid == {i \in Existing(table) : table[i].identity.uuid = uuid}
  IN IF byUuid = {} THEN Nothing
     ELSE CHOOSE i \in byUuid : \A j \in byUuid : ~Precedes(table, i, j)

-------------------------------------------------------------------------------
(* matchDProbesAndProbes *)

\* Of the probes with the same IP only the first is matched.
Unique(probes) == {p \in probes : \A q \in probes : Data[q].ip = Data[p].ip => p <= q}

\* A map from these keys of the probes to the probes: of two probes with the same key the
\* last one stays in the map.
KeyMap(keys) ==
  [k \in UNION {keys[p] : p \in DOMAIN keys} |->
     LET ps == {p \in DOMAIN keys : k \in keys[p]} IN CHOOSE p \in ps : \A q \in ps : q <= p]

\* The maps from uuids, IPs and alternative IPs to probes.
Maps(probes) ==
  [uuid |-> KeyMap([p \in probes |-> {Data[p].uuid}]),
   ip |-> KeyMap([p \in probes |-> {Data[p].ip}]),
   alt |-> KeyMap([p \in probes |-> Data[p].alts])]

Without(map, keys) == [k \in DOMAIN map \ keys |-> map[k]]

\* The map with one value at all these keys.
Put(map, keys, v) == [k \in DOMAIN map \cup keys |-> IF k \in keys THEN v ELSE map[k]]

\* mutant: the alternative IPs stay
TakeMain(maps, p) == [maps EXCEPT !.uuid = Without(@, {Data[p].uuid}), !.ip = Without(@, {Data[p].ip})]

\* The keys of a probe that is matched leave the maps.
Take(maps, p) == [uuid |-> Without(maps.uuid, {Data[p].uuid}),
                  ip |-> Without(maps.ip, {Data[p].ip}),
                  alt |-> Without(maps.alt, Data[p].alts)]

Lookup(map, k) == IF k \in DOMAIN map THEN map[k] ELSE Nothing

\* The ways to find the probe of a row.
FindByUuid(maps, row) == Lookup(maps.uuid, row.identity.uuid)
FindByIp(maps, row) == Lookup(maps.ip, row.identity.ip)
FindByAlt(maps, row) == Lookup(maps.alt, row.identity.ip)
FindByRowAlts(maps, row) ==
  LET found(ip) == IF ip \in DOMAIN maps.ip THEN maps.ip[ip] ELSE Lookup(maps.alt, ip)
      hits == {ip \in row.identity.alts : found(ip) # Nothing}
  IN IF hits = {} THEN Nothing ELSE found(CHOOSE ip \in hits : TRUE)

\* An offline row whose user, ASN and city fit the token of the probe.
FindByToken(maps, row) ==
  LET fits == {p \in {maps.uuid[u] : u \in DOMAIN maps.uuid} :
                 /\ row.user # Nothing /\ Data[p].token = row.user
                 /\ row.identity.status = "offline" /\ Data[p].place = row.identity.place}
  IN IF fits = {} THEN Nothing ELSE CHOOSE p \in fits : \A q \in fits : p <= q

Find(way, maps, row) ==
  CASE way = "uuid" -> FindByUuid(maps, row)
    [] way = "ip" -> FindByIp(maps, row)
    [] way = "alt" -> FindByAlt(maps, row)
    [] way = "rowAlts" -> FindByRowAlts(maps, row)
    [] way = "token" -> FindByToken(maps, row)

Eligible(pass, row) == row.user # Nothing \/ ~pass.adoptedOnly

\* A row is matched, or is left for the next pass.
MatchRow(table, pass, s, i) ==
  LET p == IF Eligible(pass, table[i]) THEN Find(pass.way, s.maps, table[i]) ELSE Nothing IN
  IF p = Nothing THEN [s EXCEPT !.left = Append(@, i)]
  ELSE [s EXCEPT !.pairs = Append(@, <<i, p>>), !.maps = Take(@, p)]

\* One pass over the rows that are left, or those of them that are adopted.
Pass(table, state, pass) ==
  FoldLeft(LAMBDA s, i : MatchRow(table, pass, s, i), [state EXCEPT !.left = <<>>], state.left)

\* Adopted rows first, in four ways, then all of them in the same ways, and by tokens.
Passes ==
  LET ways == <<"uuid", "ip", "alt", "rowAlts">>
      passes(adoptedOnly) == [k \in 1..4 |-> [way |-> ways[k], adoptedOnly |-> adoptedOnly]]
  IN passes(TRUE) \o passes(FALSE) \o <<[way |-> "token", adoptedOnly |-> FALSE]>>

Unmatched(table, probes) ==
  [pairs |-> <<>>, left |-> DProbes(table), maps |-> Maps(Unique(probes))]

Matched(table, probes) ==
  FoldLeft(LAMBDA s, pass : Pass(table, s, pass), Unmatched(table, probes), Passes)

\* The rows with their probes, those that are left, and the probes that are left.
Match(table, probes) ==
  LET s9 == Matched(table, probes)
  IN [pairs |-> s9.pairs, left |-> s9.left,
      new |-> {s9.maps.uuid[u] : u \in DOMAIN s9.maps.uuid}]

-------------------------------------------------------------------------------
(* generateUpdatedDProbes, findDProbeDuplicates and mergeUpdates *)

IdentityOf(p) == [uuid |-> Data[p].uuid, ip |-> Data[p].ip, alts |-> Data[p].alts,
                  place |-> Data[p].place, status |-> "ready"]

\* formatProbeAsDProbe: the row of a new probe, which nobody owns.
FormatProbeAsDProbe(p) == [identity |-> IdentityOf(p), user |-> Nothing]

\* mutant: rows that have lost their probe stay as they are
UpdatedOnline(table, match) ==
  [i \in Existing(table) |->
     LET mine == {k \in DOMAIN match.pairs : match.pairs[k][1] = i} IN
     IF mine = {} THEN table[i].identity
     ELSE IdentityOf(match.pairs[CHOOSE k \in mine : TRUE][2])]

\* The rows as they shall be: with the data of their probe, or offline.
Updated(table, match) ==
  [i \in Existing(table) |->
     LET mine == {k \in DOMAIN match.pairs : match.pairs[k][1] = i} IN
     IF mine = {} THEN [table[i].identity EXCEPT !.status = "offline"]
     ELSE IdentityOf(match.pairs[CHOOSE k \in mine : TRUE][2])]

AlwaysRedundant(table, i, existing) == TRUE  \* mutant: whoever owns the two

\* A duplicate goes if it has the same user as the row found before it, or none.
Redundant(table, i, existing) == table[i].user \in {table[existing].user, Nothing}

\* One row after the other is compared with those before it.  A duplicate of a row of the
\* same user, or one without a user, is deleted; an offline one loses its IP.
Compare(table, updated, s, i) ==
  LET row == updated[i]
      existing == IF row.uuid \in DOMAIN s.uuid THEN s.uuid[row.uuid] ELSE Lookup(s.ip, row.ip)
      newAlts == row.alts \ DOMAIN s.ip
      owned == newAlts \cup ({row.ip} \ {Nothing})
  IN IF existing # Nothing /\ Redundant(table, i, existing)
     THEN [s EXCEPT !.deletes = Put(@, {i}, existing)]
     ELSE [deletes |-> s.deletes,
           nullify |-> IF row.ip \in DOMAIN s.ip /\ row.status = "offline"
                       THEN s.nullify \cup {i} ELSE s.nullify,
           alts |-> Put(s.alts, {i}, newAlts),
           uuid |-> Put(s.uuid, {row.uuid}, i),
           ip |-> Put(s.ip, owned, i)]

NoDuplicates == [deletes |-> <<>>, nullify |-> {}, alts |-> <<>>, uuid |-> <<>>, ip |-> <<>>]

Duplicates(table, updated, order) ==
  FoldLeft(LAMBDA s, i : Compare(table, updated, s, i), NoDuplicates, order)

\* The fields that differ.
Difference(old, new) == [f \in {g \in DOMAIN old : old[g] # new[g]} |-> new[f]]

\* What a row is updated with; alternative IPs that another row has are left out.
UpdateOf(old, new, alts) ==
  IF alts # new.alts THEN Put(Difference(old, new), {"alts"}, alts) ELSE Difference(old, new)

PlanOf(table, probes) ==
  LET match == Match(table, probes)
      updated == Updated(table, match)
      order == [k \in DOMAIN match.pairs |-> match.pairs[k][1]] \o match.left
      found == Duplicates(table, updated, order)
      update == [i \in Existing(table) \ DOMAIN found.deletes |->
                   UpdateOf(table[i].identity, updated[i], found.alts[i])]
  IN [deletes |-> found.deletes,
      nullify |-> found.nullify,
      updates |-> [i \in {j \in DOMAIN update : update[j] # <<>>} |-> update[i]],
      creates |-> match.new]

NoPlan == [deletes |-> <<>>, nullify |-> {}, updates |-> <<>>, creates |-> {}]

-------------------------------------------------------------------------------
(* The state *)

TypeOK ==
  /\ rows \in [Ids -> Row \cup {Nothing}]
  /\ stage \in [Probes -> {"new", "online", "gone"}]
  /\ seen \in [Hosts -> SUBSET Probes]
  /\ cache \in [Hosts -> [Ids -> Row \cup {Nothing}]]
  /\ sync \in [Hosts -> {"matching", "writing"}]
  /\ \A h \in Hosts :
       /\ DOMAIN plan[h].deletes \subseteq Ids /\ plan[h].nullify \subseteq Ids
       /\ \A i \in DOMAIN plan[h].updates :
            i \in Ids /\ DOMAIN plan[h].updates[i] \subseteq {"uuid", "ip", "alts", "place", "status"}
       /\ plan[h].creates \subseteq Probes
  /\ token \in [Probes -> {"new", "looking", "adopting", "done"}]
  /\ events \in 0..MaxEvents

Init ==
  /\ rows = [i \in Ids |-> Nothing]
  /\ stage = [p \in Probes |-> "new"]
  /\ seen = [h \in Hosts |-> {}]
  /\ cache = [h \in Hosts |-> rows]
  /\ sync = [h \in Hosts |-> "writing"]
  /\ plan = [h \in Hosts |-> NoPlan]
  /\ token = [p \in Probes |-> "new"]
  /\ events = 0

Event == events < MaxEvents /\ events' = events + 1

\* Ids nobody refers to.
FreshIds == {i \in Ids : /\ rows[i] = Nothing
                         /\ \A h \in Hosts : /\ cache[h][i] = Nothing
                                             /\ i \notin DOMAIN plan[h].deletes
                                             /\ i \notin plan[h].nullify
                                             /\ i \notin DOMAIN plan[h].updates}

-------------------------------------------------------------------------------
(* Probes *)

Connect(p) ==
  /\ stage[p] = "new"
  /\ stage' = [stage EXCEPT ![p] = "online"]
  /\ UNCHANGED <<rows, seen, cache, sync, plan, token, events>>

Disconnect(p) ==
  /\ stage[p] = "online"
  /\ stage' = [stage EXCEPT ![p] = "gone"]
  /\ UNCHANGED <<rows, seen, cache, sync, plan, token, events>>

\* The list of the host catches up.
See(h) ==
  /\ seen' = [seen EXCEPT ![h] = Online]
  /\ UNCHANGED <<rows, stage, cache, sync, plan, token, events>>

-------------------------------------------------------------------------------
(* syncDashboardData *)

FetchDProbes(h) ==
  /\ sync[h] = "writing" /\ plan[h] = NoPlan
  /\ sync' = [sync EXCEPT ![h] = "matching"]
  /\ cache' = [cache EXCEPT ![h] = rows]
  /\ UNCHANGED <<rows, stage, seen, plan, token, events>>

MakePlan(h) ==
  /\ sync[h] = "matching"
  /\ sync' = [sync EXCEPT ![h] = "writing"]
  /\ plan' = [plan EXCEPT ![h] = PlanOf(cache[h], seen[h])]
  /\ UNCHANGED <<rows, stage, seen, cache, token, events>>

\* A command is executed, or fails and is logged; the sync goes on in either case.
Execute(table) ==
  \/ rows' = table /\ UNCHANGED events
  \/ UNCHANGED rows /\ Event

DeleteDProbes(h) ==
  /\ plan[h].deletes # <<>>
  /\ Execute([i \in Ids |-> IF i \in DOMAIN plan[h].deletes THEN Nothing ELSE rows[i]])
  /\ plan' = [plan EXCEPT ![h].deletes = <<>>]
  /\ UNCHANGED <<stage, seen, cache, sync, token>>

\* An update of a row that does not exist any more changes nothing.
Update(i, fields) ==
  IF rows[i] = Nothing THEN rows
  ELSE [rows EXCEPT ![i].identity = [f \in DOMAIN @ |-> IF f \in DOMAIN fields THEN fields[f] ELSE @[f]]]

NullifyIp(h, i) ==
  /\ plan[h].deletes = <<>> /\ i \in plan[h].nullify
  /\ Execute(Update(i, [ip |-> Nothing, status |-> "offline"]))
  /\ plan' = [plan EXCEPT ![h].nullify = @ \ {i}]
  /\ UNCHANGED <<stage, seen, cache, sync, token>>

UpdateDProbe(h, i) ==
  /\ plan[h].deletes = <<>> /\ plan[h].nullify = {} /\ i \in DOMAIN plan[h].updates
  /\ Execute(Update(i, plan[h].updates[i]))
  /\ plan' = [plan EXCEPT ![h].updates = Without(@, {i})]
  /\ UNCHANGED <<stage, seen, cache, sync, token>>

CreateDProbe(h, p, i) ==
  /\ plan[h].deletes = <<>> /\ plan[h].nullify = {} /\ plan[h].updates = <<>>
  /\ p \in plan[h].creates /\ i \in FreshIds
  /\ Execute([rows EXCEPT ![i] = FormatProbeAsDProbe(p)])
  /\ plan' = [plan EXCEPT ![h].creates = @ \ {p}]
  /\ UNCHANGED <<stage, seen, cache, sync, token>>

-------------------------------------------------------------------------------
(* AdoptionToken.validate, when a probe connects *)

\* The owner of a row, if there is one.
Owner(table, i) == IF i = Nothing THEN Nothing ELSE table[i].user

ValidateToken(h, p) ==
  LET known == IF ByIp(cache[h], Data[p].ip) # Nothing THEN ByIp(cache[h], Data[p].ip)
               ELSE ByUuid(cache[h], Data[p].uuid)
  IN /\ stage[p] = "online" /\ token[p] = "new" /\ Data[p].token # Nothing
     /\ token' = [token EXCEPT ![p] =
          IF Owner(cache[h], known) = Data[p].token THEN "done" ELSE "looking"]
     /\ UNCHANGED <<rows, stage, seen, cache, sync, plan, events>>

\* The rows of the table that may be the probe's; the first one counts, in no order.
RowsOf(p) == {i \in Existing(rows) : \/ rows[i].identity.uuid = Data[p].uuid
                                     \/ rows[i].identity.ip = Data[p].ip
                                     \/ Data[p].ip \in rows[i].identity.alts}

FetchDProbe(p) ==
  /\ token[p] = "looking"
  /\ \E i \in IF RowsOf(p) = {} THEN {Nothing} ELSE RowsOf(p) :
       token' = [token EXCEPT ![p] =
         IF Owner(rows, i) = Data[p].token THEN "done" ELSE "adopting"]
  /\ UNCHANGED <<rows, stage, seen, cache, sync, plan, events>>

\* The dashboard gives one of these rows to the user, or makes one.
AdoptByToken(p) ==
  /\ token[p] = "adopting"
  /\ \E i \in IF RowsOf(p) = {} THEN FreshIds ELSE RowsOf(p) :
       Execute([rows EXCEPT ![i] =
         [(IF @ = Nothing THEN FormatProbeAsDProbe(p) ELSE @) EXCEPT !.user = Data[p].token]])
  /\ token' = [token EXCEPT ![p] = "done"]
  /\ UNCHANGED <<stage, seen, cache, sync, plan>>

\* A user adopts a probe in the dashboard.
Adopt(i, u) ==
  /\ Event
  /\ rows[i] # Nothing
  /\ Owner(rows, i) = Nothing
  /\ rows' = [rows EXCEPT ![i].user = u]
  /\ UNCHANGED <<stage, seen, cache, sync, plan, token>>

-------------------------------------------------------------------------------

WriteStep(h) ==
  \/ FetchDProbes(h) \/ DeleteDProbes(h)
  \/ \E i \in Ids : NullifyIp(h, i) \/ UpdateDProbe(h, i) \/ \E p \in Probes : CreateDProbe(h, p, i)

ProbeStep(p) ==
  \/ Connect(p) \/ Disconnect(p)
  \/ FetchDProbe(p) \/ AdoptByToken(p) \/ \E h \in Hosts : ValidateToken(h, p)

Next ==
  \/ \E h \in Hosts : See(h) \/ WriteStep(h) \/ MakePlan(h)
  \/ \E p \in Probes : ProbeStep(p)
  \/ \E i \in Ids, u \in Users : Adopt(i, u)

Spec == Init /\ [][Next]_vars

\* The syncs are repeated whatever fails, and the lists of the hosts are kept up.  (The
\* last condition is the fairness of MakePlan, the one action that writes sync this way.)
FairSpec ==
  /\ Spec
  /\ \A h \in Hosts :
       /\ WF_vars(See(h)) /\ WF_vars(WriteStep(h))
       /\ WF_sync(sync[h] = "matching" /\ sync' = [sync EXCEPT ![h] = "writing"])

-------------------------------------------------------------------------------
(* Properties *)

\* Whatever the table and the probes: no row and no probe is matched twice, every probe is
\* matched or gets a row, and a row without a user is only matched when no adopted row that
\* was left over has the uuid or the IP of the probe.  (Probes that share a uuid excepted.)
MatchesAreSound ==
  TypeOK /\ \A h \in Hosts :
    LET m == Match(rows, seen[h])
        Paired == {m.pairs[k][2] : k \in DOMAIN m.pairs}
        alone(p) == \A q \in seen[h] : q # p => Data[q].uuid # Data[p].uuid
    IN /\ \A k, l \in DOMAIN m.pairs : k # l =>
            m.pairs[k][1] # m.pairs[l][1] /\ m.pairs[k][2] # m.pairs[l][2]
       /\ \A p \in Unique(seen[h]) : alone(p) => p \in Paired \cup m.new
       /\ m.new \cap Paired = {}
       /\ \A k \in DOMAIN m.pairs, j \in ToSet(m.left) :
            LET i == m.pairs[k][1]
                p == m.pairs[k][2]
            IN rows[i].user = Nothing /\ rows[j].user # Nothing /\ alone(p)
                 => rows[j].identity.uuid # Data[p].uuid /\ rows[j].identity.ip # Data[p].ip

\* No two hosts synchronise the table.
OneHost == \A g, h \in Hosts : g = h

\* A row that a sync deletes is a duplicate of another one, which belongs to the same user if
\* the row had one when the sync read the table.  "First item will be preserved", says the comment
\* above the query of fetchDProbes: if there is one API host, the other row is there afterwards.
AdoptionsAreKept ==
  [][\A i \in Ids, h \in Hosts :
       rows[i] # Nothing /\ rows'[i] = Nothing /\ i \in DOMAIN plan[h].deletes =>
         LET stays == plan[h].deletes[i] IN
           /\ Owner(cache[h], i) # Nothing => Owner(cache[h], stays) = Owner(cache[h], i)
           /\ OneHost => rows'[stays] # Nothing]_vars

\* In the end every probe that is online, and shares its uuid and IPs with no other one,
\* has exactly one row that is not offline, and that row has its data.
HasItsRow(p) ==
  \E i \in Existing(rows) :
    /\ rows[i].identity = IdentityOf(p)
    /\ \A j \in Existing(rows) \ {i} :
         rows[j].identity.uuid = Data[p].uuid => rows[j].identity.status = "offline"

Unshared(p) == \A q \in Online \ {p} :
  /\ Data[q].uuid # Data[p].uuid
  /\ ({Data[q].ip} \cup Data[q].alts) \cap ({Data[p].ip} \cup Data[p].alts) = {}

EveryProbeGetsItsRow == <>[](\A p \in Online : Unshared(p) => HasItsRow(p))
===============================================================================
