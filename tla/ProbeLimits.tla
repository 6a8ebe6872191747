------------------------------ MODULE ProbeLimits ------------------------------
(***************************************************************************)
(* Which probes may be connected at the same time:                         *)
(* src/src/lib/ws/helper/probe-ip-limit.ts, with what adds probes          *)
(* (probe-metadata.ts, src/src/probe/builder.ts) and what adds alternative *)
(* IPs to them (src/src/lib/alt-ips-client.ts).                            *)
(*                                                                         *)
(* An IP address is a probe's own or an alternative one, and stands for    *)
(* its key: itself, or its /64 range.  A group is a user with an ASN and a *)
(* city.  A probe is one socket; its id is its place in the order of the   *)
(* socket ids.                                                             *)
(*                                                                         *)
(* A probe is checked when it connects, against the list of its node, and  *)
(* many are checked at once on many nodes; so each node looks for surplus  *)
(* probes in its list now and then and disconnects them.  The list is      *)
(* SyncedProbeList's: it holds the probes of each node as they were at     *)
(* some time, and fetchProbes waits until it has seen all nodes anew.      *)
(***************************************************************************)
EXTENDS Naturals, FiniteSets, FiniteSetsExt

CONSTANTS Nodes,
          Probes,     \* sockets, naturals
          Home,       \* the node each probe connects to
          Ip,         \* its IP
          Group,      \* its user, ASN and city, or Nothing
          AltIps,     \* the IPs it may prove to hold, too
          Key,        \* ip key of every IP
          IpRanges,     \* the keys that are /64 ranges
          GroupLimit, \* asnCityPerUser
          MaxUpdates, \* bound on the lists of alternative IPs that probes send
          Nothing     \* no group, or nothing in progress

ASSUME ProbesAssumption ==
  /\ Probes \subseteq Nat /\ IsFiniteSet(Probes)
  /\ Home \in [Probes -> Nodes]
  /\ DOMAIN Ip = Probes /\ DOMAIN Group = Probes /\ DOMAIN AltIps = Probes
ASSUME KeyAssumption ==
  /\ IsFiniteSet(IpRanges)
  /\ \A p \in Probes : Ip[p] \in DOMAIN Key /\ AltIps[p] \subseteq DOMAIN Key
  /\ \A ip \in DOMAIN Key : Key[ip] \in IpRanges \/ Key[ip] = ip
ASSUME BoundsAssumption == GroupLimit \in Nat \ {0} /\ MaxUpdates \in Nat
ASSUME NothingAssumption ==
  /\ \A nodes \in SUBSET Nodes : nodes # Nothing
  /\ \A p \in Probes : \A ips \in SUBSET AltIps[p] : ips # Nothing

VARIABLES
  stage,   \* progress of each probe
  alts,    \* altIpAddresses of each probe
  list,    \* list[n][p]: what the list of n has: p's alternative IPs, or Nothing
  index,   \* the fetch of ipKeyIndexPromise: the nodes not seen yet, or Nothing
  update,  \* of each probe: the lists of alternative IPs it has sent, which are handled at the same time
  closing, \* probes that are told to disconnect
  updates, \* lists sent so far
  \* bookkeeping
  earlier   \* the probes that are connected, and were so when p was about to be checked;
            \* until p is connected itself

limitsVars == <<stage, alts, list, index, update, closing, updates, earlier>>

AllIps(p) == {Ip[p]} \cup AltIps[p]

\* A list that waits for getProbeByIp, and one that has been validated.
Call(p) == [call : 1..MaxUpdates, ips : SUBSET AltIps[p], unseen : SUBSET Nodes]
           \cup [call : 1..MaxUpdates, valid : SUBSET AltIps[p]]

LimitsTypeOK ==
  /\ stage \in [Probes -> {"new", "checking", "waiting", "locating", "connected", "gone"}]
  /\ \A p \in Probes : alts[p] \subseteq AltIps[p]
  /\ \A n \in Nodes, p \in Probes : list[n][p] \in (SUBSET AltIps[p]) \cup {Nothing}
  /\ index \in [Nodes -> (SUBSET Nodes) \cup {Nothing}]
  /\ \A p \in Probes : update[p] \subseteq Call(p)
  /\ closing \subseteq Probes
  /\ updates \in 0..MaxUpdates
  /\ earlier \in [Probes -> SUBSET Probes]

LimitsInit ==
  /\ stage = [p \in Probes |-> "new"]
  /\ alts = [p \in Probes |-> {}]
  /\ list = [n \in Nodes |-> [p \in Probes |-> Nothing]]
  /\ index = [n \in Nodes |-> Nothing]
  /\ update = [p \in Probes |-> {}]
  /\ closing = {}
  /\ updates = 0
  /\ earlier = [p \in Probes |-> {}]

Enter(p, s) == stage' = [stage EXCEPT ![p] = s]
Connected == {p \in Probes : stage[p] = "connected"}

\* disconnectBySocketId: a message to the node of the socket.
Close(probes) == closing' = closing \cup (probes \cap Connected)

\* getProbeByIp is being waited for.
Validating(c) == "unseen" \in DOMAIN c

\* The probes of a list.
Listed(n) == {p \in Probes : list[n][p] # Nothing}

-------------------------------------------------------------------------------
(* verifyIpLimit *)

\* mutant: the index that is being built is used
JoinIndex(p) ==
  LET n == Home[p] IN
  /\ stage[p] = "new"
  /\ Enter(p, "checking")
  /\ index' = [index EXCEPT ![n] = IF @ = Nothing THEN Nodes ELSE @]
  /\ earlier' = [earlier EXCEPT ![p] = Connected]
  /\ UNCHANGED <<alts, list, update, closing, updates>>

\* The probe waits for an index that is built from now on.
ConnectSocket(p) ==
  LET n == Home[p] IN
  /\ stage[p] = "new"
  /\ IF index[n] = Nothing
     THEN /\ Enter(p, "checking")
          /\ index' = [index EXCEPT ![n] = Nodes]
     ELSE Enter(p, "waiting") /\ UNCHANGED index
  /\ earlier' = [earlier EXCEPT ![p] = Connected]
  /\ UNCHANGED <<alts, list, update, closing, updates>>

\* The keys of the IPs of the probes the node lists.
IpKeys(n) == UNION {{Key[ip] : ip \in {Ip[q]} \cup list[n][q]} : q \in Listed(n)}

\* The index is built: it decides on the probes that wait for it, and those that came
\* in the meantime begin to wait for the next one.
BuildIndex(n) ==
  LET waiting == {p \in Probes : Home[p] = n /\ stage[p] = "waiting"} IN
  /\ index[n] = {}
  /\ stage' = [p \in Probes |->
       IF p \in waiting THEN "checking"
       ELSE IF Home[p] = n /\ stage[p] = "checking"
       THEN IF Key[Ip[p]] \in IpKeys(n) THEN "gone" ELSE "locating"
       ELSE stage[p]]
  /\ index' = [index EXCEPT ![n] = IF waiting = {} THEN Nothing ELSE Nodes]
  /\ earlier' = [p \in Probes |-> IF stage'[p] = "gone" THEN {} ELSE earlier[p]]
  /\ UNCHANGED <<alts, list, update, closing, updates>>

(* verifyAsnLimit, after the IP has been located *)

GroupKeys(n, g) == {Key[Ip[q]] : q \in {r \in Listed(n) : Group[r] = g}}

Locate(p) ==
  /\ stage[p] = "locating"
  /\ Enter(p, IF Group[p] # Nothing /\ Cardinality(GroupKeys(Home[p], Group[p])) >= GroupLimit
              THEN "gone" ELSE "connected")
  /\ earlier' = [earlier EXCEPT ![p] = {}]
  /\ UNCHANGED <<alts, list, index, update, closing, updates>>

\* The location of the IP cannot be found.
LocateFails(p) ==
  /\ stage[p] = "locating"
  /\ Enter(p, "gone")
  /\ earlier' = [earlier EXCEPT ![p] = {}]
  /\ UNCHANGED <<alts, list, index, update, closing, updates>>

\* The data of the probe go with the socket.
DisconnectSocket(p) ==
  /\ stage[p] = "connected"
  /\ Enter(p, "gone")
  /\ closing' = closing \ {p}
  /\ alts' = [alts EXCEPT ![p] = {}]
  /\ earlier' = [q \in Probes |-> earlier[q] \ {p}]
  /\ UNCHANGED <<list, index, update, updates>>

-------------------------------------------------------------------------------
(* SyncedProbeList *)

\* Node n reads what node m has published of its probes.
Pull(n, m) ==
  /\ UNCHANGED <<stage, alts, closing, updates, earlier>>
  /\ list' = [list EXCEPT ![n] = [p \in Probes |->
       IF Home[p] # m THEN @[p] ELSE IF stage[p] = "connected" THEN alts[p] ELSE Nothing]]
  /\ index' = [index EXCEPT ![n] = IF @ = Nothing THEN Nothing ELSE @ \ {m}]
  /\ update' = [p \in Probes |->
       IF Home[p] # n THEN update[p]
       ELSE {IF Validating(c) THEN [c EXCEPT !.unseen = @ \ {m}] ELSE c : c \in update[p]}]

-------------------------------------------------------------------------------
(* addAltIps *)

\* The probe proves with tokens that it holds these IPs.
SendAltIps(p, ips) ==
  /\ updates < MaxUpdates /\ updates' = updates + 1
  /\ stage[p] = "connected"
  /\ update' = [update EXCEPT ![p] = @ \cup {[call |-> updates + 1, ips |-> ips, unseen |-> Nodes]}]
  /\ UNCHANGED <<stage, alts, list, index, closing, earlier>>

Holders(n, ip) == {q \in Listed(n) : Ip[q] = ip \/ ip \in list[n][q]}

\* getProbeByIp looks for every IP.  Another probe whose own IP it is gives way; one that
\* has it as an alternative IP keeps it.  Where nobody is found, or the probe itself, the
\* location of the IP must fit.
ValidateAltIps(p, c) ==
  /\ Validating(c) /\ c.unseen = {}
  /\ \E found \in [c.ips -> Probes \cup {Nothing}], located \in SUBSET c.ips :
       LET n == Home[p]
           others == {ip \in c.ips : found[ip] \notin {p, Nothing}}
           own == {ip \in others : Ip[found[ip]] = ip}
           answer == [call |-> c.call, valid |-> own \cup (located \ others)]
       IN /\ \A ip \in c.ips :
               IF found[ip] = Nothing THEN Holders(n, ip) = {} ELSE found[ip] \in Holders(n, ip)
          /\ Close({found[ip] : ip \in own})
          /\ update' = [update EXCEPT ![p] = (@ \ {c}) \cup {answer}]
  /\ UNCHANGED <<stage, alts, list, index, updates, earlier>>

\* Of the lists of a probe the one that is answered last stays.
UpdateAltIps(p, c) ==
  /\ ~Validating(c)
  /\ alts' = [alts EXCEPT ![p] = IF stage[p] = "connected" THEN c.valid ELSE @]
  /\ update' = [update EXCEPT ![p] = @ \ {c}]
  /\ UNCHANGED <<stage, list, index, closing, updates, earlier>>

-------------------------------------------------------------------------------
(* syncProbeLimits *)

Lowest(probes) == {Min(probes)}

\* All but one of the probes with the same IP: those that hold it as an alternative IP
\* come first.
SurplusOfIps(n) ==
  LET surplus(holders, alternative) ==
        holders \ Lowest(IF alternative # {} THEN alternative ELSE holders)
  IN UNION {surplus(Holders(n, ip), {p \in Holders(n, ip) : Ip[p] # ip}) :
              ip \in {i \in DOMAIN Key : Cardinality(Holders(n, i)) > 1}}

SurplusOfNoRange(n, closed) == closed  \* mutant: ranges are not looked at

\* Of the probes that live in a range, those that have their own IP there: all if one
\* has an alternative IP there, all but one otherwise.
SurplusOfRanges(n, closed) ==
  LET lives(p, range) == \E ip \in {Ip[p]} \cup list[n][p] : Key[ip] = range
      surplus(living, own) ==
        IF Cardinality(living) <= 1 \/ own = {} THEN {}
        ELSE IF own # living THEN own ELSE own \ Lowest(own)
      close(range, surplusSoFar) == surplusSoFar \cup UNION
        {surplus(living, {p \in living : Key[Ip[p]] = range}) :
           living \in {{p \in Listed(n) \ surplusSoFar : lives(p, range)}}}
  IN FoldSet(close, closed, IpRanges)

\* The probes of a group by their keys.
IndexAsnCity(probes, g) ==
  LET members == {p \in probes : Group[p] = g}
  IN [k \in {Key[Ip[p]] : p \in members} |-> {p \in members : Key[Ip[p]] = k}]

\* The keys of a group are sorted by their lowest probes, and the first ones stay.
SurplusOfGroups(n, closed) ==
  LET first(keys) == [k \in DOMAIN keys |-> Min(keys[k])]
      late(f) == {k \in DOMAIN f : Cardinality({l \in DOMAIN f : f[l] < f[k]}) >= GroupLimit}
      surplus(keys) == UNION {keys[k] : k \in late(first(keys))}
  IN closed \cup UNION {surplus(IndexAsnCity(Listed(n) \ closed, g)) :
                          g \in {Group[p] : p \in Listed(n)} \ {Nothing}}

\* The three passes; each takes note of what the one before it has found.
Surplus(n) ==
  UNION {SurplusOfGroups(n, closed) :
           closed \in {SurplusOfRanges(n, ofIps) : ofIps \in {SurplusOfIps(n)}}}

SyncProbeLimits(n) ==
  /\ UNCHANGED <<stage, alts, list, index, update, updates, earlier>>
  /\ Close(Surplus(n))

-------------------------------------------------------------------------------

ProbeStep(p) ==
  \/ ConnectSocket(p) \/ Locate(p) \/ LocateFails(p) \/ DisconnectSocket(p)
  \/ \E ips \in SUBSET AltIps[p] : SendAltIps(p, ips)
  \/ \E c \in update[p] : ValidateAltIps(p, c) \/ UpdateAltIps(p, c)

NodeStep(n) == BuildIndex(n) \/ SyncProbeLimits(n) \/ \E m \in Nodes : Pull(n, m)

LimitsNext == (\E p \in Probes : ProbeStep(p)) \/ (\E n \in Nodes : NodeStep(n))

LimitsSpec == LimitsInit /\ [][LimitsNext]_limitsVars

\* The lists are synchronised again and again, and looked through for surplus probes; a
\* socket that is told to disconnect does.
LimitsFairSpec ==
  /\ LimitsSpec
  /\ WF_limitsVars(\E n, m \in Nodes : Pull(n, m))
  /\ WF_limitsVars(\E n \in Nodes : SyncProbeLimits(n))
  /\ WF_limitsVars(\E p \in closing : DisconnectSocket(p))

-------------------------------------------------------------------------------
(* Properties *)

\* The limits on a set of probes with these alternative IPs: nobody shares an IP, an own
\* IP is alone in its range, and no group has more keys than it may.
LimitsHold(probes, altsOf) ==
  LET keys(p) == {Key[ip] : ip \in {Ip[p]} \cup altsOf[p]} IN
  /\ \A p, q \in probes : p # q =>
       /\ ({Ip[p]} \cup altsOf[p]) \cap ({Ip[q]} \cup altsOf[q]) = {}
       /\ Key[Ip[p]] \notin keys(q)
  /\ \A p \in probes : Group[p] # Nothing =>
       Cardinality({Key[Ip[q]] : q \in {r \in probes : Group[r] = Group[p]}}) <= GroupLimit

\* Whatever the list, those that are not disconnected keep the limits.  And as long as the
\* list has no alternative IPs, a probe is only disconnected for one that stays, or for one
\* of its range that itself leaves for one of its group that stays.
SurplusIsRight ==
  /\ LimitsTypeOK
  /\ \A n \in Nodes :
       LET surplus == Surplus(n)
           stay == Listed(n) \ surplus
           near(p, q) == Key[Ip[q]] = Key[Ip[p]]
           mates(p, q) == Group[q] = Group[p] /\ Group[p] # Nothing
       IN /\ LimitsHold(stay, list[n])
          /\ (\A q \in Listed(n) : list[n][q] = {}) =>
               \A p \in surplus : \E q \in stay :
                 near(p, q) \/ mates(p, q) \/ \E r \in surplus : near(p, r) /\ mates(r, q)

\* A probe that was connected, to whatever node, before another one began to connect with
\* an IP of the same key is known to the index that decides on it.
EarlierProbesAreSeen ==
  \A p \in Probes : stage[p] = "locating" => \A q \in earlier[p] : Key[Ip[q]] # Key[Ip[p]]

\* Probes that got in together are found out: in the end the connected probes keep the
\* limits, whatever lists they were judged by.
LimitsHoldInTheEnd == <>[]LimitsHold(Connected, alts)
===============================================================================
