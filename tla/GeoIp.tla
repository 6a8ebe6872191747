--------------------------------- MODULE GeoIp ---------------------------------
(***************************************************************************)
(* Where an IP address is: a vote among what five services say of it.      *)
(*   src/src/lib/geoip/client.ts                                           *)
(*   src/src/lib/geoip/city-approximation.ts                               *)
(*   src/src/lib/cache/redis-cache.ts                                      *)
(*                                                                         *)
(* A service is asked if its last answer has expired, and may fail.  The   *)
(* city it names is replaced by the largest of those nearby, in a list     *)
(* that every node puts into Redis, city by city, when it starts, and      *)
(* again when it finds none there.                                         *)
(*                                                                         *)
(* One address is looked up, time and again, by one of the nodes or        *)
(* another.  Of a report the country, the city, the cities nearby, the ASN *)
(* and the network are kept.  Cities of the list are naturals, the larger  *)
(* ones have more inhabitants.                                             *)
(***************************************************************************)
EXTENDS Naturals, FiniteSets, FiniteSetsExt

CONSTANTS Providers,    \* in the order of their priority
          Fastly,       \* the one of them that decides nothing alone
          Reports,      \* what they may say
          Cities,       \* the list, naturals
          NameOf,       \* the names of its cities
          CountryOf,    \* their countries
          Normal,       \* the networks by their normalized names
          BlockedAsns,  \* BLOCKED_ASNS
          GeoNodes,     \* API nodes
          MaxMishaps,   \* bound on the faults
          Unknown       \* what is not known, or not done

\* A service is known by its place among them.
Services == DOMAIN Providers

ASSUME GeoAssumption ==
  /\ Cities \subseteq Nat /\ MaxMishaps \in Nat
  /\ \A r \in Reports : /\ DOMAIN r = {"country", "city", "near", "asn", "network"}
                        /\ r.near \subseteq Cities
\* Fastly comes last.
ASSUME ProvidersAssumption ==
  /\ Services \subseteq Nat /\ IsFiniteSet(Services)
  /\ \A i, j \in Services : Providers[i] = Fastly => j <= i

ASSUME UnknownAssumption == \A cities \in SUBSET Cities : cities # Unknown

VARIABLES
  listed,     \* gp:cities
  filling,    \* what each node still has to put there; Unknown when it does not
  listening,  \* the nodes that have started
  calling,    \* the call of each service that is under way: its node and the report
  said,       \* the cached answer of each service
  whereabouts, \* what the last lookup has found, Unknown if the probe was refused
  cleared,    \* bookkeeping: has Redis lost the list?
  mishaps     \* faults so far

geoVars == <<listed, filling, listening, calling, said, whereabouts, cleared, mishaps>>

Calling == [node : GeoNodes, report : Reports, waits : BOOLEAN]

GeoTypeOK ==
  /\ listed \subseteq Cities /\ listening \subseteq GeoNodes
  /\ filling \in [GeoNodes -> (SUBSET Cities) \cup {Unknown}]
  /\ calling \in [Services -> Calling \cup {Unknown}] /\ DOMAIN said = Services
  /\ \A i \in Services : calling[i] = Unknown \/ said[i] = Unknown
  /\ cleared \in BOOLEAN /\ mishaps \in 0..MaxMishaps

GeoInit ==
  /\ listed = {} /\ listening = {}
  /\ filling = [n \in GeoNodes |-> Cities]
  /\ calling = [i \in Services |-> Unknown]
  /\ said = [i \in Services |-> Unknown]
  /\ whereabouts = Unknown
  /\ cleared = FALSE /\ mishaps = 0

Mishap == mishaps < MaxMishaps /\ mishaps' = mishaps + 1

-------------------------------------------------------------------------------
(* populateCitiesList *)

AddCity(n, city) ==
  /\ filling[n] # Unknown /\ city \in filling[n]
  /\ listed' = listed \cup {city}
  /\ filling' = [filling EXCEPT ![n] = @ \ {city}]
  /\ UNCHANGED <<listening, calling, said, whereabouts, cleared, mishaps>>

FinishFilling(n) ==
  /\ filling[n] = {}
  /\ filling' = [filling EXCEPT ![n] = Unknown]
  /\ UNCHANGED <<listed, listening, calling, said, whereabouts, cleared, mishaps>>

\* createServer waits for all lists.
IsReady(n) == n \notin listening /\ filling[n] = Unknown

ListenForProbes(n) ==
  /\ IsReady(n)
  /\ listening' = listening \cup {n}
  /\ UNCHANGED <<listed, filling, calling, said, whereabouts, cleared, mishaps>>

\* Redis refuses a city: those after it are not added.  A node that was starting does so
\* again; the calls of a running one fail, and what is there is taken for the list.
FillingFails(n) ==
  /\ Mishap
  /\ filling[n] # Unknown
  /\ filling' = [filling EXCEPT ![n] = IF n \in listening THEN Unknown ELSE Cities]
  /\ calling' = [i \in Services |->
       IF calling[i] = Unknown THEN Unknown
       ELSE IF calling[i].node = n /\ calling[i].waits THEN Unknown ELSE calling[i]]
  /\ UNCHANGED <<listed, listening, said, whereabouts, cleared>>

\* The database is cleared, the cached answers with it.
ClearRedis ==
  /\ Mishap
  /\ listed' = {} /\ said' = [i \in Services |-> Unknown] /\ cleared' = TRUE
  /\ UNCHANGED <<filling, listening, calling, whereabouts>>

-------------------------------------------------------------------------------
(* A service is asked *)

\* getCity: does the city a report names have to be looked up in the list?
Approximated(r) == r.city # Unknown /\ r.near # {}

\* Nothing is cached.  The service reports, and a node that finds no list at all fills it,
\* and waits; so do the calls that come to the same conclusion meanwhile.
AskService(n, i, r) ==
  /\ n \in listening /\ calling[i] = Unknown /\ said[i] = Unknown
  /\ LET waits == Approximated(r) /\ listed = {} IN
       /\ calling' = [calling EXCEPT ![i] = [node |-> n, report |-> r, waits |-> waits]]
       /\ filling' = [filling EXCEPT ![n] = IF waits /\ @ = Unknown THEN Cities ELSE @]
  /\ UNCHANGED <<listed, listening, said, whereabouts, cleared, mishaps>>

\* getApproximatedCity: the largest city nearby that is in the same country, if there is one.
CityOfReport(r) ==
  LET nearby == {c \in r.near \cap listed : CountryOf[c] = r.country}
  IN IF Approximated(r) /\ nearby # {} THEN NameOf[Max(nearby)] ELSE r.city

\* The answer is cached.  (A lookup that cannot cache it uses it all the same, as if it were
\* forgotten right after.)
ServiceAnswers(i) ==
  /\ calling[i] # Unknown
  /\ calling[i].waits => filling[calling[i].node] = Unknown
  /\ said' = [said EXCEPT ![i] = [calling[i].report EXCEPT !.city = CityOfReport(calling[i].report)]]
  /\ calling' = [calling EXCEPT ![i] = Unknown]
  /\ UNCHANGED <<listed, filling, listening, whereabouts, cleared, mishaps>>

\* The service fails, or Redis does: nothing is cached.
ServiceFails(i) ==
  /\ calling[i] # Unknown
  /\ calling' = [calling EXCEPT ![i] = Unknown]
  /\ UNCHANGED <<listed, filling, listening, said, whereabouts, cleared, mishaps>>

ForgetAnswer(i) ==
  /\ said[i] # Unknown
  /\ said' = [said EXCEPT ![i] = Unknown]
  /\ UNCHANGED <<listed, filling, listening, calling, whereabouts, cleared, mishaps>>

-------------------------------------------------------------------------------
(* lookup *)

\* S are the services whose answers a lookup has.
Located(S) == {i \in S : said[i].city # Unknown}

\* How many of them have the same country or city as this one.
Often(S, i, field) == Cardinality({k \in S : said[k][field] = said[i][field]})

\* The largest group of those that agree, and of two of the same size the one of the service
\* that comes first.
Top(S, field) ==
  LET largest == {i \in S : \A k \in S : Often(S, k, field) <= Often(S, i, field)}
  IN {i \in S : said[i][field] = said[Min(largest)][field]}

\* mutant: countries are not counted
BestMatchByCity(S) == Min(Top(Located(S), "city"))

\* The first one of those with the city most of them name in the country most of them name.
BestMatch(S) == Min(Top(Top(Located(S), "country"), "city"))

\* The service whose network it is: the first one that knows it and names the city decides, but
\* the first one that has it on the spelling.
MatchNetwork(best, S) ==
  LET known == {k \in S : said[k].city = said[best].city /\ said[k].asn # Unknown}
      match == said[Min(known)]
      same == {k \in S : said[k].asn = match.asn /\ Normal[said[k].network] = Normal[match.network]}
  IN IF known = {} THEN Unknown ELSE said[Min(same)]

\* Is there a city, and from another service than fastly?
IsResolvable(S) ==
  Located(S) # {} /\ \A i \in Located(S) : Located(S) = {i} => Providers[i] # Fastly

PlaceOf(S) ==
  IF ~IsResolvable(S) THEN Unknown
  ELSE LET best == BestMatch(S)
           network == MatchNetwork(best, S)
       IN IF \/ Providers[best] = Fastly \/ network = Unknown
          THEN Unknown
          ELSE IF network.asn \in BlockedAsns THEN Unknown
          ELSE [country |-> said[best].country, city |-> said[best].city,
                asn |-> network.asn, network |-> network.network,
                allowed |-> {said[i].country : i \in S}]

\* A lookup gets these answers, from the cache or from the services; the others have failed.
LookupAddress(S) ==
  /\ \A i \in S : said[i] # Unknown
  /\ whereabouts' = PlaceOf(S)
  /\ UNCHANGED <<listed, filling, listening, calling, said, cleared, mishaps>>

-------------------------------------------------------------------------------

GeoNext ==
  \/ \E n \in GeoNodes : \/ FinishFilling(n) \/ ListenForProbes(n) \/ FillingFails(n)
                         \/ \E c \in Cities : AddCity(n, c)
                         \/ \E i \in Services, r \in Reports : AskService(n, i, r)
  \/ \E i \in Services : ServiceAnswers(i) \/ ServiceFails(i) \/ ForgetAnswer(i)
  \/ \E S \in SUBSET Services : LookupAddress(S)
  \/ ClearRedis

GeoSpec == GeoInit /\ [][GeoNext]_geoVars

-------------------------------------------------------------------------------
(* Properties *)

\* Whoever answers: services that name another country than the one that is found could as
\* well have failed, no country has more of them, fastly is never the one that is followed,
\* and the ASN is that of a service that names the city.
VoteIsSound(S) ==
  LET best == BestMatch(S)
      spot == PlaceOf(S)
  IN IsResolvable(S) =>
       /\ Providers[best] # Fastly
       /\ \A i \in Located(S) : Often(Located(S), i, "country") <= Often(Located(S), best, "country")
       /\ \A F \in SUBSET {i \in S : said[i].country # said[best].country} : BestMatch(S \ F) = best
       /\ spot # Unknown => \E i \in S : said[i].city = spot.city /\ said[i].asn = spot.asn

\* The vote is sound, whatever answers are there.  And unless Redis was cleared, each of them
\* names the largest city there is nearby, whatever was listed when it was given.
PlacesAreRight ==
  /\ GeoTypeOK
  /\ VoteIsSound({i \in Services : said[i] # Unknown})
  /\ whereabouts # Unknown => whereabouts.country \in whereabouts.allowed
  /\ ~cleared => \A i \in Services :
       LET nearby == {c \in said[i].near : CountryOf[c] = said[i].country}
       IN said[i] # Unknown => said[i].city = Unknown \/ nearby = {}
                                 \/ said[i].city = NameOf[Max(nearby)]
================================================================================
