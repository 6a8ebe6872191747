------------------------------ MODULE Selection ------------------------------
(***************************************************************************)
(* Which probes run a measurement: the probes of some locations under one  *)
(* limit, of each location under a limit of its own, of the whole world,   *)
(* or those of an earlier measurement.                                     *)
(*   src/src/probe/router.ts                                               *)
(*   src/src/probe/probes-location-filter.ts                               *)
(*   src/src/measurement/schema/location-schema.ts                         *)
(*                                                                         *)
(* A location is an element of Places, with the probes that have its plain *)
(* attributes and the keywords of its magic string.  The order of a random *)
(* shuffle is any of those the code can produce.  The loop that takes      *)
(* probes from locations goes on step by step.                             *)
(***************************************************************************)
EXTENDS Integers, Sequences, FiniteSets, SequencesExt, FiniteSetsExt

CONSTANTS
  Selectable,     \* the probes
  NetworkOf,      \* of each probe its location.groupingKey: a city and a network
  CityOf,         \* the city of each groupingKey
  WithIPv6,       \* the probes that support IPv6; all of them support IPv4
  IndexOf,        \* of each probe: the words of each category
  UserTagsOf,     \* of each probe: its user tags
  AddressesOf,    \* of each probe: its IP and its alternative IPs
  FixedWords,     \* of each category: the words known beforehand
  GatheredFrom,   \* the categories whose words are those of the probes
  Containing,     \* of each word: the words it is a part of
  Places,         \* the locations of requests
  PlainMatch,     \* of each place: the probes with its plain attributes
  Magic,          \* of each place: its keywords, none without a magic string
  AsIndexed,      \* the places whose magic string is written as the index has it
  Continents,     \* those of the places that make up the world
  WeightOf,       \* globalDistribution
  EarlierIPs,     \* the IPs of the tests of an earlier measurement, in their order
  MaxTests,       \* authenticatedTestsPerMeasurement
  MaxPlaces,      \* bound on the locations of a request
  Limits,         \* the limits asked for
  ReadyLists,     \* the lists of ready probes looked at
  Unready         \* the probes that are listed with them and not ready

ASSUME SelectionAssumption ==
  /\ IsFiniteSet(Selectable) /\ ReadyLists \subseteq SUBSET Selectable /\ Unready \subseteq Selectable
  /\ IsFiniteSet(Places) /\ Magic \in [Places -> Seq(DOMAIN Containing)]
  /\ IsFiniteSet(DOMAIN FixedWords) /\ DOMAIN FixedWords \subseteq Nat
  /\ Continents \subseteq Places /\ \A c \in Continents : WeightOf[c] \in Nat \ {0}
  /\ MaxTests \in Nat \ {0} /\ Limits \subseteq 1..MaxTests /\ MaxPlaces \in Nat

VARIABLES
  ready,      \* readyProbes
  request,    \* the request: its kind, locations and limits
  connected,  \* the probes it is served from
  phase,      \* "idle", "searching", "taking", "earlier", "recorded", "done"
  search,     \* the locations whose probes have not been looked for
  left,       \* groupedByLocation: what is left of the probes of each location
  weighed,    \* the locations that are left in the distribution
  round,      \* locations still to visit in this round, probes picked before it, total weight
  picked,     \* pickedProbes
  available   \* onlineProbesMap of a repeated measurement: probes by the number of their tests

selectionVars == <<ready, request, connected, phase, search, left, weighed, round, picked, available>>

\* The locations of a request in their order.
Orders(S) == {s \in [1..Cardinality(S) -> S] : IsInjective(s)}
NoRound == [visit |-> {}, selected |-> 0, weight |-> 0]

SelectionTypeOK ==
  /\ ready \subseteq Selectable /\ connected \subseteq Selectable
  /\ phase \in {"idle", "searching", "taking", "earlier", "recorded", "done"}
  /\ \A p \in Places : ToSet(left[p]) \subseteq Selectable
  /\ weighed \subseteq Places /\ round.visit \subseteq weighed

SelectionInit ==
  /\ ready = {} /\ connected = {} /\ phase = "idle"
  /\ request = [kind |-> "none", places |-> <<>>, limit |-> 0, limits |-> <<>>]
  /\ search = <<>> /\ left = [p \in Places |-> <<>>]
  /\ weighed = {} /\ round = NoRound /\ picked = {} /\ available = {}

-------------------------------------------------------------------------------
(* magicFilter: the keywords of a magic string *)

Categories == DOMAIN FixedWords
NoPosition == Cardinality(Categories) + 1

GlobalIndex(all, c) == IF c \in GatheredFrom THEN UNION {IndexOf[p][c] : p \in all} ELSE FixedWords[c]

\* getExactGlobalIndexPosition: the first category that has the word.
ExactPosition(all, w) == Min({c \in Categories : w \in GlobalIndex(all, c)} \cup {NoPosition})

\* getIndexPosition: the first category of the probe that has the word in one of its own.
IndexPosition(p, w) == Min({c \in Categories : IndexOf[p][c] \cap Containing[w] # {}} \cup {NoPosition})

\* A keyword that is known exactly is looked up in that category only.  Tags of users are the
\* last resort.
Narrow(all, S, w) ==
  LET position == ExactPosition(all, w)
      found == IF position = NoPosition
               THEN {p \in S : IndexPosition(p, w) # NoPosition}
               ELSE {p \in S : w \in IndexOf[p][position]}
  IN IF found = {} THEN {p \in S : w \in UserTagsOf[p]} ELSE found

\* The keywords in the order of their positions, those of the same one as they are written.
MagicFilter(all, S, words) ==
  LET earlier(i, j) == \/ ExactPosition(all, words[i]) < ExactPosition(all, words[j])
                       \/ ExactPosition(all, words[i]) = ExactPosition(all, words[j]) /\ i < j
      kth(k) == CHOOSE i \in DOMAIN words : Cardinality({j \in DOMAIN words : earlier(j, i)}) = k - 1
      resultProbes[k \in 0..Len(words)] ==
        IF k = 0 THEN S ELSE Narrow(all, resultProbes[k - 1], words[kth(k)])
  IN resultProbes[Len(words)]

\* The global index is that of all probes, ready or not.
AllListed == ready \cup Unready

\* Whoever asks for the world gets all probes of the continents, in whatever order
\* filterGloballyDistributed finds them.
World == <<"world">>
OfTheWorld == connected \cap UNION {PlainMatch[c] : c \in Continents}

Found(l) ==
  IF Magic[l] = World THEN OfTheWorld
  ELSE MagicFilter(AllListed, connected \cap PlainMatch[l], Magic[l])

-------------------------------------------------------------------------------
(* diversifiedShuffle, magicSort and filterByLocation *)

Rank(n) == IF n < 8 THEN n \div 2 ELSE CHOOSE k \in 3..n : 2^k >= n /\ 2^(k - 1) < n

\* mutant: group after group
DealtByGroup(turn, place, i, j) == place[i] < place[j] \/ (place[i] = place[j] /\ turn[i] < turn[j])

\* One probe of each group in turn.
Dealt(turn, place, i, j) == turn[i] < turn[j] \/ (turn[i] = turn[j] /\ place[i] < place[j])

\* Groups of a network and a city, the larger ones first, those of rarer cities before others of
\* their rank, otherwise at random.
DiversifiedShuffles(S) ==
  LET groups == {NetworkOf[p] : p \in S}
      rank == [g \in groups |-> Rank(Cardinality({p \in S : NetworkOf[p] = g}))]
      before(g, h, random) == rank[g] > rank[h] \/ (rank[g] = rank[h] /\ random[g] < random[h])
      sameCity(g, random) == Cardinality({h \in groups : CityOf[h] = CityOf[g] /\ before(h, g, random)})
      placed(random) ==
        [g \in groups |-> Cardinality({h \in groups :
           \/ rank[h] > rank[g]
           \/ rank[h] = rank[g] /\ sameCity(h, random) < sameCity(g, random)
           \/ rank[h] = rank[g] /\ sameCity(h, random) = sameCity(g, random) /\ random[h] < random[g]})]
      turn(s) == [i \in DOMAIN s |-> Cardinality({j \in 1..i : NetworkOf[s[j]] = NetworkOf[s[i]]})]
      place(s, random) == [i \in DOMAIN s |-> placed(random)[NetworkOf[s[i]]]]
  IN {s \in Orders(S) : \E random \in Bijection(groups, 1..Cardinality(groups)) :
        \A i, j \in DOMAIN s : i < j => Dealt(turn(s), place(s, random), i, j)}

\* getClosestIndexPosition: the words as they have been typed; what is found nowhere comes last.
Closeness(p, l) ==
  IF l \notin AsIndexed THEN NoPosition
  ELSE IF \E w \in ToSet(Magic[l]) : IndexPosition(p, w) = NoPosition THEN NoPosition
  ELSE Min({IndexPosition(p, w) : w \in ToSet(Magic[l])})

\* The closest probes, as many classes as may be needed.
Closest(S, l) ==
  {p \in S : Cardinality({q \in S : Closeness(q, l) < Closeness(p, l)}) < MaxTests}

\* Class after class, each shuffled.
MagicSorts(S, l) ==
  {s \in Orders(Closest(S, l)) :
     /\ \A i, j \in DOMAIN s : i < j => Closeness(s[i], l) <= Closeness(s[j], l)
     /\ \A c \in 1..NoPosition :
          SelectSeq(s, LAMBDA p : Closeness(p, l) = c) \in
            DiversifiedShuffles({p \in Closest(S, l) : Closeness(p, l) = c})}

IsMagicSorting(l) == Magic[l] \notin {<<>>, World}

FilterByLocation(l) ==
  IF IsMagicSorting(l) THEN MagicSorts(Found(l), l) ELSE DiversifiedShuffles(Found(l))

-------------------------------------------------------------------------------
(* findMatchingProbes *)

\* A list of probes has been computed.
ProbesUpdate(S) ==
  /\ phase = "idle" /\ ready = {}
  /\ ready' = S
  /\ UNCHANGED <<request, connected, phase, search, left, weighed, round, picked, available>>

FilterByIpVersion(probes, version) == IF version = 6 THEN probes \cap WithIPv6 ELSE probes

Ask(kind, places, limit, limits, version) ==
  /\ phase = "idle"
  /\ request' = [kind |-> kind, places |-> places, limit |-> limit, limits |-> limits]
  /\ connected' = FilterByIpVersion(ready, version)
  /\ search' = places /\ weighed' = ToSet(places)
  /\ phase' = IF kind = "again" THEN "earlier" ELSE "searching"
  /\ UNCHANGED <<ready, left, round, picked, available>>

\* The schema: one limit for all, or one for each location, whose sum is limited, too.
AskEach(places, limits, version) ==
  /\ FoldFunction(+, 0, limits) <= MaxTests
  /\ Ask("each", places, 0, limits, version)

\* filterByLocation of each location, findWithLocationLimit and the first loop of
\* filterByLocationAndWeight.
Search ==
  /\ phase = "searching" /\ search # <<>>
  /\ \E s \in FilterByLocation(Head(search)) : left' = [left EXCEPT ![Head(search)] = s]
  /\ search' = Tail(search)
  /\ UNCHANGED <<ready, request, connected, phase, weighed, round, picked, available>>

\* Without probes a single magic string may still be the id of a measurement.
End(found) ==
  IF found = {} /\ request.kind # "world" /\ Len(request.places) = 1 /\ Magic[request.places[1]] # <<>>
  THEN phase' = "earlier" ELSE phase' = "done"

FirstProbes(s, n) == {s[i] : i \in DOMAIN s \cap 1..n}
OtherProbes(s, n) == SubSeq(s, n + 1, Len(s))

\* findWithLocationLimit: the first probes of each location.
TakeEach ==
  /\ phase = "searching" /\ search = <<>> /\ request.kind = "each"
  /\ picked' = UNION {FirstProbes(left[l], request.limits[l]) : l \in ToSet(request.places)}
  /\ End(picked')
  /\ UNCHANGED <<ready, request, connected, search, left, weighed, round, available>>

StartTaking ==
  /\ phase = "searching" /\ search = <<>> /\ request.kind # "each"
  /\ phase' = "taking"
  /\ UNCHANGED <<ready, request, connected, search, left, weighed, round, picked, available>>

-------------------------------------------------------------------------------
(* The loop of filterByLocationAndWeight *)

Weight(kind, l) == IF kind = "world" THEN WeightOf[l] ELSE 1
RemainingWeight(kind, S) == FoldSet(LAMBDA l, n : Weight(kind, l) + n, 0, S)
Grouped == {l \in Places : left[l] # <<>>}

StartRound ==
  /\ phase = "taking" /\ round.visit = {}
  /\ Grouped # {} /\ Cardinality(picked) < request.limit
  /\ round' = [visit |-> Grouped, selected |-> Cardinality(picked),
               weight |-> RemainingWeight(request.kind, weighed)]
  /\ UNCHANGED <<ready, request, connected, phase, search, left, weighed, picked, available>>

\* The weights of locations are fractions of 100, of which a quotient may fall short; those of
\* continents are integers.
Counts(l) ==
  LET share == (request.limit - round.selected) * Weight(request.kind, l)
      exact == share % round.weight = 0
  IN {Max({1, n}) : n \in {share \div round.weight} \cup
        IF exact /\ request.kind = "places" THEN {share \div round.weight - 1} ELSE {}}

\* mutant: the limit is looked at only between rounds
EnoughLater == FALSE

Enough == Cardinality(picked) = request.limit

\* The locations of a round are visited in the order of the request.
IsNext(l) ==
  \E i \in DOMAIN request.places :
    /\ request.places[i] = l /\ l \in round.visit
    /\ \A j \in 1..i - 1 : request.places[j] \notin round.visit

Visit ==
  /\ phase = "taking"
  /\ \E l \in round.visit :
       /\ IsNext(l)
       /\ IF Enough
          THEN round' = [round EXCEPT !.visit = {}] /\ UNCHANGED <<left, weighed, picked>>
          ELSE \E count \in Counts(l) :
                 /\ picked' = picked \cup FirstProbes(left[l], count)
                 /\ left' = [left EXCEPT ![l] = OtherProbes(@, count)]
                 /\ weighed' = IF left'[l] = <<>> THEN weighed \ {l} ELSE weighed
                 /\ round' = [round EXCEPT !.visit = @ \ {l}]
  /\ UNCHANGED <<ready, request, connected, phase, search, available>>

EndTaking ==
  /\ phase = "taking" /\ round.visit = {}
  /\ Grouped = {} \/ Cardinality(picked) >= request.limit
  /\ End(picked)
  /\ UNCHANGED <<ready, request, connected, search, left, weighed, round, picked, available>>

-------------------------------------------------------------------------------
(* findWithMeasurementId *)

\* The IPs are read, then the record; either may have expired.
ReadEarlierIps ==
  /\ phase = "earlier"
  /\ phase' \in {"recorded", "done"}
  /\ UNCHANGED <<ready, request, connected, search, left, weighed, round, picked, available>>

\* Each IP is that of a probe that was ready at the beginning, or the test is shown as that of
\* an offline one; an IP that two probes have is that of either.
ReadEarlierRecord ==
  /\ phase = "recorded" /\ phase' = "done"
  /\ \/ UNCHANGED available
     \/ LET found == {i \in DOMAIN EarlierIPs : \E p \in ready : EarlierIPs[i] \in AddressesOf[p]}
        IN \E f \in [found -> ready] :
             /\ \A i \in found : EarlierIPs[i] \in AddressesOf[f[i]]
             /\ available' = {<<i, f[i]>> : i \in found}
  /\ UNCHANGED <<ready, request, connected, search, left, weighed, round, picked>>

-------------------------------------------------------------------------------

Lists == UNION {Orders(S) : S \in UNION {kSubset(k, Places) : k \in 1..MaxPlaces}}

SelectionNext ==
  \/ \E S \in ReadyLists : ProbesUpdate(S)
  \/ Ask("again", <<>>, 0, <<>>, 4)
  \/ \E version \in {4, 6}, limit \in Limits :
       \/ \E places \in Orders(Continents) : Ask("world", places, limit, <<>>, version)
       \/ \E places \in Lists : Ask("places", places, limit, <<>>, version)
  \/ \E version \in {4, 6}, places \in Lists :
       \E limits \in [ToSet(places) -> Limits] : AskEach(places, limits, version)
  \/ Search \/ TakeEach \/ StartTaking
  \/ StartRound \/ Visit \/ EndTaking
  \/ ReadEarlierIps \/ ReadEarlierRecord

SelectionSpec == SelectionInit /\ [][SelectionNext]_selectionVars

-------------------------------------------------------------------------------
(* Properties *)

Networks(S) == {NetworkOf[p] : p \in S}

\* A request for some locations gets as many probes as it asked for, or all there are, however
\* the locations overlap; and if the limit allows it, some from each location.
LimitIsMet ==
  /\ SelectionTypeOK
  /\ phase = "done" /\ request.kind = "places" =>
    /\ Cardinality(picked) =
         Min({request.limit, Cardinality(UNION {Found(l) : l \in ToSet(request.places)})})
    /\ request.limit >= Len(request.places) =>
         \A l \in ToSet(request.places) : Found(l) # {} => Found(l) \cap picked # {}

\* The probes of a location, when it is the only one and its probes are equally close, come from
\* as many networks as there can be.
ProbesAreSpread ==
  phase = "done" /\ request.kind \in {"places", "each"} /\ Len(request.places) = 1 =>
    LET l == request.places[1] IN
      ~IsMagicSorting(l) =>
        Cardinality(Networks(picked)) = Min({Cardinality(picked), Cardinality(Networks(Found(l)))})

\* A request without locations gets at most as many probes as it asked for.  (The code takes one
\* probe of a continent whose share is none, and goes on with the shares of the others.)
LimitIsKept ==
  phase = "done" /\ request.kind = "world" => Cardinality(picked) <= request.limit
===============================================================================
