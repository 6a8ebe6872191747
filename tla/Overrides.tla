------------------------------- MODULE Overrides -------------------------------
(***************************************************************************)
(* Where a probe is said to be: its own data, overridden by the            *)
(* administrators for ranges of IPs, overridden by its owner.  Each        *)
(* process reads both tables once a minute and computes the list of probes *)
(* from them; what the ranges say of an IP is cached.                      *)
(*   src/src/lib/override/admin-data.ts                                    *)
(*   src/src/lib/override/probe-override.ts                                *)
(*   src/src/lib/override/adopted-probes.ts (its reading side)             *)
(*                                                                         *)
(* Of a location its country is kept.  The ranges are naturals, in the     *)
(* order of the table; timestamps are seconds.                             *)
(***************************************************************************)
EXTENDS Naturals, FiniteSets, FiniteSetsExt

CONSTANTS Ranges, RangeIps,   \* the IPs of each range
          Devices, DeviceIps, \* the IP of each device
          Homes,              \* the countries a device may be in, by what GeoIP knows
          Countries,
          MaxEdits,           \* bound on the changes of tables and devices
          MaxClock,           \* bound on the clock
          NoOverride          \* no row, no entry, no fields, no adoption

ASSUME OverridesAssumption ==
  /\ Ranges \subseteq Nat /\ IsFiniteSet(Ranges)
  /\ MaxEdits \in Nat /\ MaxClock \in Nat \ {0}
  /\ \A d \in Devices : Homes[d] \subseteq Countries /\ Homes[d] # {}

Addresses == {DeviceIps[d] : d \in Devices}

VARIABLES
  overrides,  \* gp_location_overrides: country and timestamp of each range
  customs,    \* gp_probes: the country the owner of a device has chosen
  altIps,     \* the alternative IPs of each device
  clock,
  edits,
  ranges,     \* rangesToUpdatedFields
  adoptions,  \* the rows fetchDProbes has read
  ipCache,    \* ipsToUpdatedFieldsCache: fields, and the IPs they were looked up for
  lastUpdate,
  lastLength,
  unnoticed   \* a row set since cannot be told, by its timestamp, from those that were loaded

overridesVars == <<overrides, customs, altIps, clock, edits, ranges, adoptions, ipCache,
                   lastUpdate, lastLength, unnoticed>>

Row == [country : Countries, updated : 1..MaxClock]
Entry == [fields : Countries \cup {NoOverride}, for : SUBSET Addresses]

OverridesTypeOK ==
  /\ overrides \in [Ranges -> Row \cup {NoOverride}] /\ ranges \in [Ranges -> Row \cup {NoOverride}]
  /\ customs \in [Devices -> Countries \cup {NoOverride}]
  /\ adoptions \in [Devices -> Countries \cup {NoOverride}]
  /\ altIps \in [Devices -> SUBSET Addresses]
  /\ ipCache \in [Addresses -> Entry \cup {NoOverride}]
  /\ clock \in 1..MaxClock /\ edits \in 0..MaxEdits /\ unnoticed \in BOOLEAN
  /\ lastUpdate \in 0..MaxClock /\ lastLength \in 0..Cardinality(Ranges)

OverridesInit ==
  /\ overrides = [r \in Ranges |-> NoOverride]
  /\ customs = [d \in Devices |-> NoOverride]
  /\ altIps = [d \in Devices |-> {}]
  /\ clock = 1 /\ edits = 0
  /\ ranges = overrides /\ adoptions = customs
  /\ ipCache = [i \in Addresses |-> NoOverride]
  /\ lastUpdate = 0 /\ lastLength = 0
  /\ unnoticed = FALSE

-------------------------------------------------------------------------------
(* The tables, the devices and the clock *)

Edit == edits < MaxEdits /\ edits' = edits + 1

\* A row is created or updated.
SetOverride(r, c) ==
  /\ Edit
  /\ overrides' = [overrides EXCEPT ![r] = [country |-> c, updated |-> clock]]
  /\ unnoticed' = (unnoticed \/ lastUpdate = clock)
  /\ UNCHANGED <<customs, altIps, clock, ranges, adoptions, ipCache, lastUpdate, lastLength>>

RemoveOverride(r) ==
  /\ Edit /\ overrides[r] # NoOverride
  /\ overrides' = [overrides EXCEPT ![r] = NoOverride]
  /\ UNCHANGED <<customs, altIps, clock, ranges, adoptions, ipCache, lastUpdate, lastLength, unnoticed>>

ChooseCountry(d, c) ==
  /\ Edit
  /\ customs' = [customs EXCEPT ![d] = c]
  /\ UNCHANGED <<overrides, altIps, clock, ranges, adoptions, ipCache, lastUpdate, lastLength, unnoticed>>

SetAltIps(d, ips) ==
  /\ Edit
  /\ altIps' = [altIps EXCEPT ![d] = ips \ {DeviceIps[d]}]
  /\ UNCHANGED <<overrides, customs, clock, ranges, adoptions, ipCache, lastUpdate, lastLength, unnoticed>>

PassSecond ==
  /\ clock < MaxClock /\ clock' = clock + 1
  /\ UNCHANGED <<overrides, customs, altIps, edits, ranges, adoptions, ipCache, lastUpdate, lastLength, unnoticed>>

-------------------------------------------------------------------------------
(* AdminData *)

Rows(t) == {r \in Ranges : t[r] # NoOverride}
Newest(t) == Max({0} \cup {t[r].updated : r \in Rows(t)})

\* findUpdatedFields: the first range one of the IPs is in.
Find(t, ips) ==
  LET hits == {r \in Rows(t) : RangeIps[r] \cap ips # {}}
  IN IF hits = {} THEN NoOverride ELSE t[Min(hits)].country

\* mutant: a table that has lost a row is not looked at
IsNewByTime(t) == Newest(t) > lastUpdate

IsNew(t) == Newest(t) > lastUpdate \/ Cardinality(Rows(t)) # lastLength

SyncAdminData ==
  /\ ranges' = overrides
  /\ IF IsNew(overrides)
       THEN /\ ipCache' = [i \in Addresses |-> NoOverride]
            /\ lastUpdate' = Newest(overrides)
            /\ lastLength' = Cardinality(Rows(overrides))
            /\ unnoticed' = FALSE
       ELSE UNCHANGED <<ipCache, lastUpdate, lastLength, unnoticed>>
  /\ UNCHANGED <<overrides, customs, altIps, clock, edits, adoptions>>

IpsOf(d) == {DeviceIps[d]} \cup altIps[d]

\* getUpdatedFields: one lookup fills the entries of all IPs of the probe.
Filled(d) ==
  IF \E i \in IpsOf(d) : ipCache[i] = NoOverride
  THEN [i \in Addresses |-> IF i \in IpsOf(d) THEN [fields |-> Find(ranges, IpsOf(d)), for |-> IpsOf(d)]
                            ELSE ipCache[i]]
  ELSE ipCache

UpdateProbe(d) ==
  /\ ipCache' = Filled(d)
  /\ UNCHANGED <<overrides, customs, altIps, clock, edits, ranges, adoptions, lastUpdate, lastLength, unnoticed>>

-------------------------------------------------------------------------------
(* AdoptedProbes and ProbeOverride *)

SyncAdoptions ==
  /\ adoptions' = customs
  /\ UNCHANGED <<overrides, customs, altIps, clock, edits, ranges, ipCache, lastUpdate, lastLength, unnoticed>>

\* addAdminData: a range leaves one country to choose from.
AdminFields(d) == Filled(d)[DeviceIps[d]].fields
Allowed(d) == IF AdminFields(d) = NoOverride THEN Homes[d] ELSE {AdminFields(d)}

\* addAdoptedData: the owner's choice counts if it is allowed.  (One of these countries; without
\* overrides, any of those GeoIP knows.)
AdoptedCountries(d) == IF adoptions[d] \in Allowed(d) THEN {adoptions[d]} ELSE Allowed(d)

-------------------------------------------------------------------------------

OverridesNext ==
  \/ \E r \in Ranges : RemoveOverride(r) \/ \E c \in Countries : SetOverride(r, c)
  \/ \E d \in Devices :
       \/ \E c \in Countries \cup {NoOverride} : ChooseCountry(d, c)
       \/ \E ips \in SUBSET Addresses : SetAltIps(d, ips)
       \/ UpdateProbe(d)
  \/ PassSecond \/ SyncAdminData \/ SyncAdoptions

OverridesSpec == OverridesInit /\ [][OverridesNext]_overridesVars

-------------------------------------------------------------------------------
(* Properties *)

\* What the cache says of an IP is what the ranges that are loaded say of the IPs it was looked
\* up for, unless an edit fell into the second of the newest row known by then.  So a probe
\* whose IPs are those of the lookup is shown where its range is, or else where its owner wants
\* it among the countries GeoIP knows, as if there were no cache.
CacheFollowsTheTable ==
  /\ OverridesTypeOK
  /\ ~unnoticed =>
       /\ \A i \in Addresses : ipCache[i] # NoOverride => ipCache[i].fields = Find(ranges, ipCache[i].for)
       /\ \A d \in Devices :
            LET entry == ipCache[DeviceIps[d]]
                ofRange == Find(ranges, IpsOf(d))
                chosen == {adoptions[d]} \cap Homes[d]
            IN entry = NoOverride \/ entry.for = IpsOf(d) =>
                 AdoptedCountries(d) = IF ofRange # NoOverride THEN {ofRange}
                                       ELSE IF chosen # {} THEN chosen ELSE Homes[d]
===============================================================================
