--------------------------- MODULE ApiProcessProofs ----------------------------
(***************************************************************************)
(* Proofs about the smaller components of an API process: the overrides,   *)
(* the limits on probes, the answers that clients keep, the access tokens, *)
(* the schedules, the lists of addresses, the places, and the processes of *)
(* a host; and that what holds of each component holds of the process.     *)
(***************************************************************************)
EXTENDS ApiProcess, SelectionProofs, FiniteSetTheorems, FunctionTheorems, WellFoundedInduction

-------------------------------------------------------------------------------
(* Overrides: the cache follows the table *)

\* The clock is at or past every timestamp, those of the rows and of those loaded.
ClockInv ==
  /\ lastUpdate <= clock
  /\ \A r \in Rows(overrides) : overrides[r].updated <= clock

\* What the process compares with is what it loaded; a row set since is newer than that.
LoadedInv ==
  /\ lastLength = Cardinality(Rows(ranges))
  /\ ~unnoticed => \A r \in Rows(overrides) :
                     overrides[r] = ranges[r] \/ overrides[r].updated > lastUpdate

\* The cache follows the ranges that are loaded.
CacheInv ==
  ~unnoticed => \A i \in Addresses : ipCache[i] # NoOverride =>
                  ipCache[i].fields = Find(ranges, ipCache[i].for)

OverridesInv == OverridesTypeOK /\ ClockInv /\ LoadedInv /\ CacheInv

-------------------------------------------------------------------------------
(* The greatest of some numbers *)

\* Of some naturals that are bounded there is a greatest.
LEMMA GreatestBounded ==
  ASSUME NEW S, S \subseteq Nat, S # {}, NEW b \in Nat, \A n \in S : n <= b
  PROVE  \E m \in S : \A n \in S : m >= n
<1> DEFINE T == {b - n : n \in S}
<1>1. T \subseteq Nat /\ T # {}
  <2>1. \A n \in S : b - n \in Nat
    OBVIOUS
  <2>2. QED
    BY <2>1
<1>2. PICK t \in T : \A u \in T : t <= u
  <2> HIDE DEF T
  <2>1. QED
    BY <1>1, LeastExists
<1>3. PICK m \in S : t = b - m
  OBVIOUS
<1>4. \A n \in S : b - m <= b - n
  BY <1>2, <1>3
<1>5. QED
  BY <1>4

-------------------------------------------------------------------------------
(* Overrides: the tables *)

\* What the first range of an IP says is a country.
LEMMA FindType ==
  ASSUME NEW t \in [Ranges -> Row \cup {NoOverride}], NEW ips
  PROVE  Find(t, ips) \in Countries \cup {NoOverride}
<1> DEFINE hits == {r \in Rows(t) : RangeIps[r] \cap ips # {}}
<1>1. CASE hits = {}
  BY <1>1 DEF Find
<1>2. CASE hits # {}
  <2>1. hits \subseteq Nat
    BY OverridesAssumption DEF Rows
  <2>2. \E m \in hits : \A n \in hits : m <= n
    <3> HIDE DEF hits
    <3>1. QED
      BY <1>2, <2>1, LeastExists
  <2>3. Min(hits) \in hits
    <3> HIDE DEF hits
    <3>1. QED
      BY <2>2 DEF Min
  <2>4. t[Min(hits)] \in Row
    BY <2>3 DEF Rows
  <2>5. t[Min(hits)].country \in Countries
    BY <2>4 DEF Row
  <2>6. QED
    BY <2>5 DEF Find
<1>3. QED
  BY <1>1, <1>2

\* The newest timestamp of a table is that of a row, or none, and no row is newer.
LEMMA NewestBounds ==
  ASSUME NEW t \in [Ranges -> Row \cup {NoOverride}], NEW b \in Nat,
         \A r \in Rows(t) : t[r].updated <= b
  PROVE  /\ Newest(t) \in 0..b
         /\ \A r \in Rows(t) : t[r].updated <= Newest(t)
<1> DEFINE S == {0} \cup {t[r].updated : r \in Rows(t)}
<1>1. \A r \in Rows(t) : t[r].updated \in Nat
  <2> SUFFICES ASSUME NEW r \in Rows(t) PROVE t[r].updated \in Nat
    OBVIOUS
  <2>1. t[r] \in Row
    BY DEF Rows
  <2>2. QED
    BY <2>1, OverridesAssumption DEF Row
<1>2. S \subseteq Nat /\ S # {} /\ \A n \in S : n <= b
  BY <1>1
<1>3. \E m \in S : \A n \in S : m >= n
  <2> HIDE DEF S
  <2>1. QED
    BY <1>2, GreatestBounded
<1>4. Max(S) \in S /\ \A n \in S : Max(S) >= n
  <2> HIDE DEF S
  <2>1. QED
    BY <1>3 DEF Max
<1>5. Newest(t) = Max(S)
  BY DEF Newest
<1>6. QED
  BY <1>1, <1>2, <1>4, <1>5

\* Of a table that is not new, as far as can be told, nothing has changed.
LEMMA NothingNew ==
  ASSUME OverridesTypeOK, ClockInv, LoadedInv, ~IsNew(overrides), ~unnoticed
  PROVE  overrides = ranges
<1>1. clock \in Nat /\ lastUpdate \in Nat /\ IsFiniteSet(Ranges)
  BY OverridesAssumption DEF OverridesTypeOK
<1>2. Newest(overrides) \in Nat /\ \A r \in Rows(overrides) : overrides[r].updated <= Newest(overrides)
  BY <1>1, NewestBounds DEF OverridesTypeOK, ClockInv
<1>3. ~(Newest(overrides) > lastUpdate)
  BY DEF IsNew
<1>4. \A r \in Rows(overrides) : overrides[r] = ranges[r]
  <2> SUFFICES ASSUME NEW r \in Rows(overrides), overrides[r].updated > lastUpdate PROVE FALSE
    BY DEF LoadedInv
  <2>1. overrides[r] \in Row
    BY DEF Rows, OverridesTypeOK
  <2>2. overrides[r].updated \in Nat
    BY <2>1, OverridesAssumption DEF Row
  <2>3. QED
    BY <1>1, <1>2, <1>3, <2>2
<1>5. Rows(overrides) \subseteq Rows(ranges) /\ Rows(ranges) \subseteq Ranges
  BY <1>4 DEF Rows
<1>6. Cardinality(Rows(overrides)) = Cardinality(Rows(ranges))
  BY DEF IsNew, LoadedInv
<1>7. Rows(overrides) = Rows(ranges)
  <2>1. IsFiniteSet(Rows(ranges))
    BY <1>1, <1>5, FS_Subset
  <2>2. QED
    BY <1>5, <1>6, <2>1, FS_Subset
<1>8. \A r \in Ranges : overrides[r] = ranges[r]
  BY <1>4, <1>7 DEF Rows
<1>9. QED
  BY <1>8 DEF OverridesTypeOK

-------------------------------------------------------------------------------
(* Overrides: the steps *)

\* The cache is filled from the ranges that are loaded.
LEMMA FilledRight ==
  ASSUME OverridesTypeOK, CacheInv, NEW d \in Devices
  PROVE  /\ Filled(d) \in [Addresses -> Entry \cup {NoOverride}]
         /\ ~unnoticed => \A i \in Addresses : Filled(d)[i] # NoOverride =>
                            Filled(d)[i].fields = Find(ranges, Filled(d)[i].for)
<1>1. IpsOf(d) \subseteq Addresses
  BY DEF IpsOf, Addresses, OverridesTypeOK
<1> DEFINE entry == [fields |-> Find(ranges, IpsOf(d)), for |-> IpsOf(d)]
<1>2. entry \in Entry /\ entry.fields = Find(ranges, entry.for)
  BY <1>1, FindType DEF Entry, OverridesTypeOK
<1>3. CASE \E i \in IpsOf(d) : ipCache[i] = NoOverride
  <2>1. Filled(d) = [i \in Addresses |-> IF i \in IpsOf(d) THEN entry ELSE ipCache[i]]
    BY <1>3 DEF Filled
  <2> HIDE DEF entry
  <2>2. QED
    BY <1>2, <2>1 DEF OverridesTypeOK, CacheInv
<1>4. CASE ~\E i \in IpsOf(d) : ipCache[i] = NoOverride
  BY <1>4 DEF Filled, OverridesTypeOK, CacheInv
<1>5. QED
  BY <1>3, <1>4

\* A row that is set is newer than what is loaded, or is known not to be.
LEMMA SetStep ==
  ASSUME OverridesInv, NEW r \in Ranges, NEW c \in Countries, SetOverride(r, c)
  PROVE  OverridesInv'
<1> USE DEF OverridesInv
<1> DEFINE row == [country |-> c, updated |-> clock]
<1>1. row \in Row /\ row.updated = clock
  BY DEF Row, OverridesTypeOK
<1>2. /\ overrides' = [overrides EXCEPT ![r] = row]
      /\ UNCHANGED <<customs, altIps, clock, ranges, adoptions, ipCache, lastUpdate, lastLength>>
      /\ edits < MaxEdits /\ edits' = edits + 1
      /\ unnoticed' = (unnoticed \/ lastUpdate = clock)
  BY DEF SetOverride, Edit
<1> HIDE DEF row
<1>3. OverridesTypeOK'
  <2>1. overrides' \in [Ranges -> Row \cup {NoOverride}]
    BY <1>1, <1>2 DEF OverridesTypeOK
  <2>2. edits' \in 0..MaxEdits
    BY <1>2, OverridesAssumption DEF OverridesTypeOK
  <2>3. unnoticed' \in BOOLEAN
    BY <1>2
  <2>4. QED
    BY <1>2, <2>1, <2>2, <2>3 DEF OverridesTypeOK
<1>4. \A q \in Ranges : overrides'[q] = IF q = r THEN row ELSE overrides[q]
  BY <1>2 DEF OverridesTypeOK
<1>5. clock \in Nat /\ lastUpdate \in Nat /\ lastUpdate <= clock
  BY OverridesAssumption DEF OverridesTypeOK, ClockInv
<1>6. ClockInv'
  BY <1>1, <1>2, <1>4, <1>5 DEF ClockInv, Rows
<1>7. LoadedInv'
  <2>1. lastLength' = Cardinality(Rows(ranges))'
    BY <1>2 DEF LoadedInv, Rows
  <2>2. ASSUME ~unnoticed', NEW q \in Rows(overrides)'
        PROVE  overrides'[q] = ranges'[q] \/ overrides'[q].updated > lastUpdate'
    <3>1. ~unnoticed /\ lastUpdate # clock
      BY <1>2, <2>2
    <3>2. CASE q = r
      BY <1>1, <1>2, <1>4, <1>5, <2>2, <3>1, <3>2 DEF Rows
    <3>3. CASE q # r
      BY <1>2, <1>4, <2>2, <3>1, <3>3 DEF Rows, LoadedInv
    <3>4. QED
      BY <3>2, <3>3
  <2>3. QED
    BY <2>1, <2>2 DEF LoadedInv
<1>8. CacheInv'
  BY <1>2 DEF CacheInv, Find, Rows
<1>9. QED
  BY <1>3, <1>6, <1>7, <1>8

\* A row that is removed is one less.
LEMMA RemoveStep ==
  ASSUME OverridesInv, NEW r \in Ranges, RemoveOverride(r)
  PROVE  OverridesInv'
<1> USE DEF OverridesInv
<1>1. /\ overrides' = [overrides EXCEPT ![r] = NoOverride]
      /\ UNCHANGED <<customs, altIps, clock, ranges, adoptions, ipCache, lastUpdate, lastLength, unnoticed>>
      /\ edits < MaxEdits /\ edits' = edits + 1
  BY DEF RemoveOverride, Edit
<1>2. OverridesTypeOK'
  <2>1. overrides' \in [Ranges -> Row \cup {NoOverride}]
    BY <1>1 DEF OverridesTypeOK
  <2>2. edits' \in 0..MaxEdits
    BY <1>1, OverridesAssumption DEF OverridesTypeOK
  <2>3. QED
    BY <1>1, <2>1, <2>2 DEF OverridesTypeOK
<1>3. \A q \in Rows(overrides)' : q \in Rows(overrides) /\ overrides'[q] = overrides[q]
  BY <1>1 DEF OverridesTypeOK, Rows
<1>4. ClockInv'
  BY <1>1, <1>3 DEF ClockInv
<1>5. LoadedInv'
  <2>1. lastLength' = Cardinality(Rows(ranges))'
    BY <1>1 DEF LoadedInv, Rows
  <2>2. QED
    BY <1>1, <1>3, <2>1 DEF LoadedInv
<1>6. CacheInv'
  BY <1>1 DEF CacheInv, Find, Rows
<1>7. QED
  BY <1>2, <1>4, <1>5, <1>6

\* What is loaded is the table, and the cache is cleared unless it has not changed.
LEMMA SyncAdminStep ==
  ASSUME OverridesInv, SyncAdminData
  PROVE  OverridesInv'
<1> USE DEF OverridesInv
<1>1. ranges' = overrides /\ UNCHANGED <<overrides, customs, altIps, clock, edits, adoptions>>
  BY DEF SyncAdminData
<1>2. clock \in Nat /\ lastUpdate \in Nat /\ IsFiniteSet(Ranges) /\ Rows(overrides) \subseteq Ranges
  BY OverridesAssumption DEF OverridesTypeOK, Rows
<1>3. Newest(overrides) \in 0..clock
  BY <1>2, NewestBounds DEF OverridesTypeOK, ClockInv
<1>4. Rows(ranges)' = Rows(overrides)
  BY <1>1 DEF Rows
<1>5. CASE IsNew(overrides)
  <2>1. /\ ipCache' = [i \in Addresses |-> NoOverride] /\ lastUpdate' = Newest(overrides)
        /\ lastLength' = Cardinality(Rows(overrides)) /\ unnoticed' = FALSE
    BY <1>5 DEF SyncAdminData
  <2>2. lastUpdate' \in 0..MaxClock /\ lastUpdate' <= clock
    BY <1>2, <1>3, <2>1, OverridesAssumption DEF OverridesTypeOK
  <2>3. lastLength' \in 0..Cardinality(Ranges)
    <3>1. Cardinality(Rows(overrides)) <= Cardinality(Ranges) /\ IsFiniteSet(Rows(overrides))
      BY <1>2, FS_Subset
    <3>2. Cardinality(Rows(overrides)) \in Nat /\ Cardinality(Ranges) \in Nat
      BY <1>2, <3>1, FS_CardinalityType
    <3>3. QED
      BY <2>1, <3>1, <3>2
  <2>4. OverridesTypeOK'
    BY <1>1, <2>1, <2>2, <2>3 DEF OverridesTypeOK
  <2>5. ClockInv'
    BY <1>1, <2>2 DEF ClockInv, Rows
  <2>6. LoadedInv'
    BY <1>1, <1>4, <2>1 DEF LoadedInv
  <2>7. CacheInv'
    BY <2>1 DEF CacheInv
  <2>8. QED
    BY <2>4, <2>5, <2>6, <2>7
<1>6. CASE ~IsNew(overrides)
  <2>1. UNCHANGED <<ipCache, lastUpdate, lastLength, unnoticed>>
    BY <1>6 DEF SyncAdminData
  <2>2. lastLength = Cardinality(Rows(overrides))
    BY <1>6 DEF IsNew
  <2>3. ~unnoticed => ranges' = ranges
    BY <1>1, <1>6, NothingNew
  <2>4. OverridesTypeOK'
    BY <1>1, <2>1 DEF OverridesTypeOK
  <2>5. ClockInv'
    BY <1>1, <2>1 DEF ClockInv, Rows
  <2>6. LoadedInv'
    BY <1>1, <1>4, <2>1, <2>2 DEF LoadedInv
  <2>7. CacheInv'
    BY <2>1, <2>3 DEF CacheInv, Find, Rows
  <2>8. QED
    BY <2>4, <2>5, <2>6, <2>7
<1>7. QED
  BY <1>5, <1>6

\* Every step keeps the cache right.
LEMMA CacheStep ==
  ASSUME OverridesInv, [OverridesNext]_overridesVars
  PROVE  OverridesInv'
<1>f. ASSUME OverridesTypeOK', clock' >= clock, clock' \in Nat,
             UNCHANGED <<overrides, ranges, ipCache, lastUpdate, lastLength, unnoticed>>
      PROVE  OverridesInv'
  <2>1. LoadedInv' /\ CacheInv'
    BY <1>f DEF OverridesInv, LoadedInv, CacheInv, Rows, Find
  <2>2. ASSUME NEW r \in Rows(overrides) PROVE overrides[r].updated <= clock'
    <3>1. overrides[r] \in Row
      BY DEF Rows, OverridesInv, OverridesTypeOK
    <3>2. overrides[r].updated \in Nat /\ overrides[r].updated <= clock /\ clock \in Nat
      BY <3>1, OverridesAssumption DEF Row, OverridesInv, ClockInv, OverridesTypeOK
    <3>3. QED
      BY <1>f, <3>2
  <2>3. lastUpdate <= clock'
    <3>1. lastUpdate \in Nat /\ clock \in Nat /\ lastUpdate <= clock
      BY OverridesAssumption DEF OverridesInv, ClockInv, OverridesTypeOK
    <3>2. QED
      BY <1>f, <3>1
  <2>4. QED
    BY <1>f, <2>1, <2>2, <2>3 DEF OverridesInv, ClockInv, Rows
<1>c. clock \in Nat /\ OverridesTypeOK
  BY OverridesAssumption DEF OverridesInv, OverridesTypeOK
<1>1. ASSUME NEW d \in Devices, NEW c \in Countries \cup {NoOverride}, ChooseCountry(d, c) PROVE OverridesInv'
  <2>1. OverridesTypeOK'
    BY <1>1, <1>c, OverridesAssumption DEF ChooseCountry, Edit, OverridesTypeOK
  <2>2. QED
    BY <1>1, <1>c, <1>f, <2>1 DEF ChooseCountry
<1>2. ASSUME NEW d \in Devices, NEW ips \in SUBSET Addresses, SetAltIps(d, ips) PROVE OverridesInv'
  <2>1. OverridesTypeOK'
    BY <1>2, <1>c, OverridesAssumption DEF SetAltIps, Edit, OverridesTypeOK
  <2>2. QED
    BY <1>2, <1>c, <1>f, <2>1 DEF SetAltIps
<1>3. ASSUME PassSecond PROVE OverridesInv'
  <2>1. OverridesTypeOK'
    BY <1>3, <1>c, OverridesAssumption DEF PassSecond, OverridesTypeOK
  <2>2. QED
    BY <1>3, <1>c, <1>f, <2>1 DEF PassSecond
<1>4. ASSUME SyncAdoptions PROVE OverridesInv'
  <2>1. OverridesTypeOK'
    BY <1>4, <1>c DEF SyncAdoptions, OverridesTypeOK
  <2>2. QED
    BY <1>4, <1>c, <1>f, <2>1 DEF SyncAdoptions
<1>5. ASSUME UNCHANGED overridesVars PROVE OverridesInv'
  <2>1. OverridesTypeOK'
    BY <1>5, <1>c DEF overridesVars, OverridesTypeOK
  <2>2. QED
    BY <1>5, <1>c, <1>f, <2>1 DEF overridesVars
<1>6. ASSUME NEW d \in Devices, UpdateProbe(d) PROVE OverridesInv'
  <2>1. /\ ipCache' = Filled(d)
        /\ UNCHANGED <<overrides, customs, altIps, clock, edits, ranges, adoptions, lastUpdate, lastLength, unnoticed>>
    BY <1>6 DEF UpdateProbe
  <2>2. /\ ipCache' \in [Addresses -> Entry \cup {NoOverride}]
        /\ ~unnoticed => \A i \in Addresses : ipCache'[i] # NoOverride =>
                           ipCache'[i].fields = Find(ranges, ipCache'[i].for)
    BY <2>1, FilledRight DEF OverridesInv
  <2>3. OverridesTypeOK'
    BY <1>c, <2>1, <2>2 DEF OverridesTypeOK
  <2>4. CacheInv'
    BY <2>1, <2>2 DEF CacheInv, Find, Rows
  <2>5. ClockInv' /\ LoadedInv'
    BY <2>1 DEF OverridesInv, ClockInv, LoadedInv, Rows
  <2>6. QED
    BY <2>3, <2>4, <2>5 DEF OverridesInv
<1>7. QED
  BY <1>1, <1>2, <1>3, <1>4, <1>5, <1>6, SetStep, RemoveStep, SyncAdminStep DEF OverridesNext

-------------------------------------------------------------------------------
(* Overrides: the theorems *)

\* The cache, the ranges that are loaded and the table fit together, whatever is edited.
THEOREM OverridesInvariant == OverridesSpec => []OverridesInv
<1>1. OverridesInit => OverridesInv
  <2> SUFFICES ASSUME OverridesInit PROVE OverridesInv
    OBVIOUS
  <2>1. Rows(overrides) = {} /\ Rows(ranges) = {}
    BY DEF OverridesInit, Rows
  <2>2. Cardinality({}) = 0 /\ Cardinality(Ranges) \in Nat
    BY FS_EmptySet, FS_CardinalityType, OverridesAssumption
  <2>3. OverridesTypeOK
    <3>1. 0 \in 0..Cardinality(Ranges) /\ 1 \in 1..MaxClock /\ 0 \in 0..MaxClock /\ 0 \in 0..MaxEdits
      BY <2>2, OverridesAssumption
    <3>2. QED
      BY <3>1 DEF OverridesInit, OverridesTypeOK
  <2>4. ClockInv /\ LoadedInv /\ CacheInv
    BY <2>1, <2>2 DEF OverridesInit, ClockInv, LoadedInv, CacheInv
  <2>5. QED
    BY <2>3, <2>4 DEF OverridesInv
<1>2. OverridesInv /\ [OverridesNext]_overridesVars => OverridesInv'
  BY CacheStep
<1>3. QED
  BY <1>1, <1>2, PTL DEF OverridesSpec

\* What is cached of an IP is what the loaded ranges say of the IPs it was looked up for, unless
\* a row was set in the second of the newest one known by then; and a probe with these IPs is
\* shown where its range, or else its owner, puts it.
THEOREM CacheAlwaysFollows == OverridesSpec => []CacheFollowsTheTable
<1>1. OverridesInv => CacheFollowsTheTable
  <2> SUFFICES ASSUME OverridesInv PROVE CacheFollowsTheTable
    OBVIOUS
  <2>1. OverridesTypeOK /\ CacheInv
    BY DEF OverridesInv
  <2>2. ASSUME ~unnoticed, NEW d \in Devices,
               ipCache[DeviceIps[d]] = NoOverride \/ ipCache[DeviceIps[d]].for = IpsOf(d)
        PROVE  AdminFields(d) = Find(ranges, IpsOf(d))
    <3>1. DeviceIps[d] \in Addresses /\ DeviceIps[d] \in IpsOf(d)
      BY DEF Addresses, IpsOf
    <3>2. CASE \E i \in IpsOf(d) : ipCache[i] = NoOverride
      BY <3>1, <3>2 DEF AdminFields, Filled
    <3>3. CASE ~\E i \in IpsOf(d) : ipCache[i] = NoOverride
      <4>1. ipCache[DeviceIps[d]] # NoOverride /\ Filled(d) = ipCache
        BY <3>1, <3>3 DEF Filled
      <4>2. ipCache[DeviceIps[d]].fields = Find(ranges, IpsOf(d))
        BY <2>1, <2>2, <3>1, <4>1 DEF CacheInv
      <4>3. QED
        BY <4>1, <4>2 DEF AdminFields
    <3>4. QED
      BY <3>2, <3>3
  <2>3. ASSUME NEW d \in Devices, NEW ofRange, AdminFields(d) = ofRange
        PROVE  AdoptedCountries(d) = IF ofRange # NoOverride THEN {ofRange}
                                     ELSE IF {adoptions[d]} \cap Homes[d] # {}
                                          THEN {adoptions[d]} \cap Homes[d] ELSE Homes[d]
    BY <2>3 DEF AdoptedCountries, Allowed
  <2>4. QED
    BY <2>1, <2>2, <2>3 DEF CacheInv, CacheFollowsTheTable
<1>2. QED
  BY <1>1, OverridesInvariant, PTL

-------------------------------------------------------------------------------
(* ProbeLimits: earlier probes are seen *)

\* A probe that is checked waits for an index, and of the probes that were connected before
\* those on nodes seen by now are in the list; afterwards no such probe has its key.
Seen(p) ==
  /\ \A q \in earlier[p] : stage[q] = "connected"
  /\ stage[p] = "checking" =>
       /\ index[Home[p]] # Nothing
       /\ \A q \in earlier[p] : Home[q] \notin index[Home[p]] => list[Home[p]][q] # Nothing
  /\ stage[p] = "locating" => \A q \in earlier[p] : Key[Ip[q]] # Key[Ip[p]]

SeenInv == \A p \in Probes : Seen(p)

LimitsDomains ==
  /\ DOMAIN alts = Probes /\ DOMAIN update = Probes
  /\ DOMAIN list = Nodes /\ \A n \in Nodes : DOMAIN list[n] = Probes

LimitsInv == LimitsTypeOK /\ LimitsDomains /\ SeenInv

\* A list of alternative IPs is being validated, or has been.
LEMMA CallFields ==
  ASSUME NEW p \in Probes, NEW c \in Call(p)
  PROVE  /\ c.call \in 1..MaxUpdates
         /\ Validating(c) => c \in [call : 1..MaxUpdates, ips : SUBSET AltIps[p], unseen : SUBSET Nodes]
         /\ ~Validating(c) => c.valid \subseteq AltIps[p]
BY DEF Call, Validating

\* Every step keeps the types.
LEMMA LimitsTypeStep ==
  ASSUME LimitsTypeOK, LimitsDomains, [LimitsNext]_limitsVars
  PROVE  LimitsTypeOK' /\ LimitsDomains'
<1> USE DEF LimitsTypeOK, LimitsDomains
<1>h. Home \in [Probes -> Nodes] /\ MaxUpdates \in Nat
  BY ProbesAssumption, BoundsAssumption
<1>1. ASSUME NEW p \in Probes, ConnectSocket(p) PROVE LimitsTypeOK' /\ LimitsDomains'
  BY <1>1, <1>h DEF ConnectSocket, Enter, Connected
<1>2. ASSUME NEW p \in Probes, Locate(p) \/ LocateFails(p) PROVE LimitsTypeOK' /\ LimitsDomains'
  BY <1>2 DEF Locate, LocateFails, Enter
<1>3. ASSUME NEW p \in Probes, DisconnectSocket(p) PROVE LimitsTypeOK' /\ LimitsDomains'
  BY <1>3 DEF DisconnectSocket, Enter
<1>4. ASSUME NEW p \in Probes, NEW ips \in SUBSET AltIps[p], SendAltIps(p, ips)
      PROVE  LimitsTypeOK' /\ LimitsDomains'
  <2>1. updates' \in 0..MaxUpdates
    BY <1>4, <1>h DEF SendAltIps
  <2>2. updates + 1 \in 1..MaxUpdates
    BY <1>4, <1>h DEF SendAltIps
  <2>3. [call |-> updates + 1, ips |-> ips, unseen |-> Nodes] \in Call(p)
    BY <2>2 DEF Call
  <2>4. QED
    BY <1>4, <2>1, <2>3 DEF SendAltIps
<1>5. ASSUME NEW p \in Probes, NEW c \in update[p], ValidateAltIps(p, c)
      PROVE  LimitsTypeOK' /\ LimitsDomains'
  <2>1. c \in Call(p)
    OBVIOUS
  <2>2. /\ c.call \in 1..MaxUpdates
        /\ c \in [call : 1..MaxUpdates, ips : SUBSET AltIps[p], unseen : SUBSET Nodes]
    BY <1>5, <2>1, CallFields DEF ValidateAltIps
  <2>3. /\ closing' \subseteq Probes
        /\ \E proven \in SUBSET c.ips :
             update' = [update EXCEPT ![p] = (@ \ {c}) \cup {[call |-> c.call, valid |-> proven]}]
    BY <1>5 DEF ValidateAltIps, Close, Connected
  <2>4. PICK proven \in SUBSET c.ips :
          update' = [update EXCEPT ![p] = (@ \ {c}) \cup {[call |-> c.call, valid |-> proven]}]
    BY <2>3
  <2>5. [call |-> c.call, valid |-> proven] \in Call(p)
    BY <2>2 DEF Call
  <2>6. QED
    BY <1>5, <2>3, <2>4, <2>5 DEF ValidateAltIps
<1>6. ASSUME NEW p \in Probes, NEW c \in update[p], UpdateAltIps(p, c)
      PROVE  LimitsTypeOK' /\ LimitsDomains'
  <2>1. c.valid \subseteq AltIps[p]
    BY <1>6, CallFields DEF UpdateAltIps
  <2>2. QED
    BY <1>6, <2>1 DEF UpdateAltIps
<1>7. ASSUME NEW n \in Nodes, BuildIndex(n) PROVE LimitsTypeOK' /\ LimitsDomains'
  <2>1. stage' \in [Probes -> {"new", "checking", "waiting", "locating", "connected", "gone"}]
    BY <1>7 DEF BuildIndex
  <2>2. index' \in [Nodes -> (SUBSET Nodes) \cup {Nothing}]
    BY <1>7 DEF BuildIndex
  <2>3. earlier' \in [Probes -> SUBSET Probes]
    BY <1>7 DEF BuildIndex
  <2>4. UNCHANGED <<alts, list, update, closing, updates>>
    BY <1>7 DEF BuildIndex
  <2>5. QED
    BY <2>1, <2>2, <2>3, <2>4
<1>8. ASSUME NEW n \in Nodes, SyncProbeLimits(n) PROVE LimitsTypeOK' /\ LimitsDomains'
  BY <1>8 DEF SyncProbeLimits, Close, Connected
<1>9. ASSUME NEW n \in Nodes, NEW m \in Nodes, Pull(n, m) PROVE LimitsTypeOK' /\ LimitsDomains'
  <2> DEFINE row == [p \in Probes |-> IF Home[p] # m THEN list[n][p]
                                      ELSE IF stage[p] = "connected" THEN alts[p] ELSE Nothing]
  <2>1. list' = [list EXCEPT ![n] = row]
    BY <1>9 DEF Pull
  <2>2. DOMAIN row = Probes /\ \A p \in Probes : row[p] \in (SUBSET AltIps[p]) \cup {Nothing}
    <3> SUFFICES ASSUME NEW p \in Probes PROVE row[p] \in (SUBSET AltIps[p]) \cup {Nothing}
      OBVIOUS
    <3>1. list[n][p] \in (SUBSET AltIps[p]) \cup {Nothing} /\ alts[p] \in SUBSET AltIps[p]
      OBVIOUS
    <3>2. row[p] \in {list[n][p], alts[p], Nothing}
      OBVIOUS
    <3> HIDE DEF row
    <3>3. QED
      BY <3>1, <3>2
  <2> HIDE DEF row
  <2>3. /\ DOMAIN list' = Nodes
        /\ \A k \in Nodes : DOMAIN list'[k] = Probes
        /\ \A k \in Nodes, p \in Probes : list'[k][p] \in (SUBSET AltIps[p]) \cup {Nothing}
    BY <2>1, <2>2
  <2>4. index' \in [Nodes -> (SUBSET Nodes) \cup {Nothing}]
    BY <1>9 DEF Pull
  <2>5. ASSUME NEW p \in Probes
        PROVE  update'[p] \subseteq Call(p)
    <3>1. ASSUME NEW c \in update[p], Validating(c)
          PROVE  [c EXCEPT !.unseen = @ \ {m}] \in Call(p)
      <4>1. c \in [call : 1..MaxUpdates, ips : SUBSET AltIps[p], unseen : SUBSET Nodes]
        BY <3>1, CallFields
      <4>2. QED
        BY <4>1 DEF Call
    <3>2. update'[p] = update[p]
          \/ update'[p] = {IF Validating(c) THEN [c EXCEPT !.unseen = @ \ {m}] ELSE c : c \in update[p]}
      BY <1>9 DEF Pull
    <3>3. QED
      BY <3>1, <3>2
  <2>6. DOMAIN update' = Probes /\ UNCHANGED <<stage, alts, closing, updates, earlier>>
    BY <1>9 DEF Pull
  <2>7. QED
    BY <2>3, <2>4, <2>5, <2>6
<1>10. ASSUME UNCHANGED limitsVars PROVE LimitsTypeOK' /\ LimitsDomains'
  BY <1>10 DEF limitsVars
<1>11. QED
  BY <1>1, <1>2, <1>3, <1>4, <1>5, <1>6, <1>7, <1>8, <1>9, <1>10 DEF LimitsNext, ProbeStep, NodeStep

\* Every step keeps what the check of a probe relies on.
LEMMA SeenStep ==
  ASSUME LimitsTypeOK, LimitsDomains, SeenInv, [LimitsNext]_limitsVars
  PROVE  SeenInv'
<1> SUFFICES ASSUME NEW p \in Probes PROVE Seen(p)'
  BY DEF SeenInv
<1>a. Seen(p)
  BY DEF SeenInv
<1>b. /\ stage \in [Probes -> {"new", "checking", "waiting", "locating", "connected", "gone"}]
      /\ index \in [Nodes -> (SUBSET Nodes) \cup {Nothing}] /\ earlier \in [Probes -> SUBSET Probes]
      /\ Home \in [Probes -> Nodes] /\ Nothing \notin SUBSET Nodes
  BY ProbesAssumption, NothingAssumption DEF LimitsTypeOK
<1>f. ASSUME UNCHANGED <<stage, list, index, earlier>> PROVE Seen(p)'
  BY <1>a, <1>f DEF Seen
<1>1. ASSUME NEW c \in Probes, ConnectSocket(c) PROVE Seen(p)'
  <2>1. /\ stage[c] = "new" /\ stage'[c] \in {"checking", "waiting"} /\ list' = list
        /\ \A q \in Probes : q # c => stage'[q] = stage[q] /\ earlier'[q] = earlier[q]
        /\ earlier'[c] = Connected
    BY <1>1, <1>b DEF ConnectSocket, Enter
  <2>2. stage'[c] = "checking" => index[Home[c]] = Nothing /\ index' = [index EXCEPT ![Home[c]] = Nodes]
    BY <1>1, <1>b DEF ConnectSocket, Enter
  <2>3. stage'[c] = "waiting" => index' = index
    BY <1>1, <1>b DEF ConnectSocket, Enter
  <2>4. \A q \in earlier'[p] : stage'[q] = "connected"
    BY <1>a, <1>b, <2>1 DEF Seen, Connected
  <2>5. CASE p = c
    <3>1. stage'[p] = "checking" => index'[Home[p]] = Nodes /\ Nodes # Nothing
      BY <1>b, <2>1, <2>2, <2>5
    <3>2. stage'[p] # "locating" /\ \A q \in earlier'[p] : Home[q] \in Nodes
      BY <1>b, <2>1, <2>5 DEF Connected
    <3>3. QED
      BY <2>4, <3>1, <3>2 DEF Seen
  <2>6. CASE p # c
    BY <1>a, <1>b, <2>1, <2>2, <2>3, <2>4, <2>6 DEF Seen
  <2>7. QED
    BY <2>5, <2>6
<1>2. ASSUME NEW c \in Probes, Locate(c) \/ LocateFails(c) PROVE Seen(p)'
  <2>1. /\ stage[c] = "locating" /\ stage'[c] \in {"connected", "gone"} /\ UNCHANGED <<list, index>>
        /\ \A q \in Probes : q # c => stage'[q] = stage[q] /\ earlier'[q] = earlier[q]
        /\ earlier'[c] = {}
    BY <1>2, <1>b DEF Locate, LocateFails, Enter
  <2>2. QED
    BY <1>a, <1>b, <2>1 DEF Seen
<1>3. ASSUME NEW c \in Probes, DisconnectSocket(c) PROVE Seen(p)'
  <2>1. /\ stage[c] = "connected" /\ stage'[c] = "gone" /\ UNCHANGED <<list, index>>
        /\ \A q \in Probes : q # c => stage'[q] = stage[q]
        /\ earlier'[p] = earlier[p] \ {c}
    BY <1>3, <1>b DEF DisconnectSocket, Enter
  <2>2. QED
    BY <1>a, <1>b, <2>1 DEF Seen
<1>4. ASSUME NEW c \in Probes,
             \/ \E ips \in SUBSET AltIps[c] : SendAltIps(c, ips)
             \/ \E s \in update[c] : ValidateAltIps(c, s) \/ UpdateAltIps(c, s)
      PROVE  Seen(p)'
  BY <1>4, <1>f DEF SendAltIps, ValidateAltIps, UpdateAltIps
\* The index has all nodes, and so the keys of the probes that were connected before.
<1>5. ASSUME NEW n \in Nodes, BuildIndex(n) PROVE Seen(p)'
  <2> DEFINE waiting == {q \in Probes : Home[q] = n /\ stage[q] = "waiting"}
  <2>1. /\ index[n] = {} /\ list' = list
        /\ index' = [index EXCEPT ![n] = IF waiting = {} THEN Nothing ELSE Nodes]
        /\ stage' = [q \in Probes |->
             IF q \in waiting THEN "checking"
             ELSE IF Home[q] = n /\ stage[q] = "checking"
             THEN IF Key[Ip[q]] \in IpKeys(n) THEN "gone" ELSE "locating"
             ELSE stage[q]]
        /\ earlier' = [q \in Probes |-> IF stage'[q] = "gone" THEN {} ELSE earlier[q]]
    BY <1>5 DEF BuildIndex
  <2>2. earlier'[p] \subseteq earlier[p] /\ earlier[p] \subseteq Probes
    BY <1>b, <2>1
  <2>3. \A q \in earlier'[p] : stage'[q] = "connected"
    <3>1. \A q \in earlier'[p] : q \in Probes /\ stage[q] = "connected"
      BY <1>a, <2>2 DEF Seen
    <3>2. QED
      BY <2>1, <3>1
  <2>4. CASE p \in waiting
    <3>1. stage'[p] = "checking" /\ index'[Home[p]] = Nodes /\ Nodes # Nothing
      BY <1>b, <2>1, <2>4
    <3>2. QED
      BY <1>b, <2>2, <2>3, <3>1 DEF Seen
  <2>5. CASE p \notin waiting /\ Home[p] = n /\ stage[p] = "checking"
    <3>1. stage'[p] \in {"gone", "locating"}
      BY <2>1, <2>5
    <3>2. ASSUME stage'[p] = "locating", NEW q \in earlier'[p] PROVE Key[Ip[q]] # Key[Ip[p]]
      <4>1. Key[Ip[p]] \notin IpKeys(n)
        BY <2>1, <2>5, <3>2
      <4>2. list[n][q] # Nothing /\ q \in Probes
        BY <1>a, <2>1, <2>2, <2>5, <3>2 DEF Seen
      <4>3. Key[Ip[q]] \in IpKeys(n)
        BY <4>2 DEF IpKeys, Listed
      <4>4. QED
        BY <4>1, <4>3
    <3>3. QED
      BY <2>3, <3>1, <3>2 DEF Seen
  <2>6. CASE p \notin waiting /\ ~(Home[p] = n /\ stage[p] = "checking")
    <3>1. stage'[p] = stage[p] /\ (stage[p] = "checking" => index'[Home[p]] = index[Home[p]])
      BY <1>b, <2>1, <2>6
    <3>2. QED
      BY <1>a, <2>1, <2>2, <2>3, <3>1 DEF Seen
  <2>7. QED
    BY <2>4, <2>5, <2>6
<1>6. ASSUME NEW n \in Nodes, SyncProbeLimits(n) PROVE Seen(p)'
  BY <1>6, <1>f DEF SyncProbeLimits
<1>7. ASSUME NEW n \in Nodes, NEW m \in Nodes, Pull(n, m) PROVE Seen(p)'
  <2>1. UNCHANGED <<stage, earlier>>
    BY <1>7 DEF Pull
  <2>2. \A k \in Nodes : index'[k] = IF k = n /\ index[k] # Nothing THEN index[k] \ {m} ELSE index[k]
    <3>1. index' = [index EXCEPT ![n] = IF index[n] = Nothing THEN Nothing ELSE index[n] \ {m}]
      BY <1>7 DEF Pull
    <3>2. QED
      BY <1>b, <3>1
  <2>3. \A k \in Nodes, q \in Probes :
          list'[k][q] = IF k # n \/ Home[q] # m THEN list[k][q]
                        ELSE IF stage[q] = "connected" THEN alts[q] ELSE Nothing
    BY <1>7 DEF Pull, LimitsDomains
  <2>4. \A q \in Probes : alts[q] # Nothing
    BY NothingAssumption DEF LimitsTypeOK
  <2>5. ASSUME stage[p] = "checking" PROVE index'[Home[p]] # Nothing
    <3>1. index[Home[p]] # Nothing /\ Home[p] \in Nodes
      BY <1>a, <1>b, <2>5 DEF Seen
    <3>2. index[Home[p]] \in SUBSET Nodes
      BY <1>b, <3>1
    <3>3. index[Home[p]] \ {m} \in SUBSET Nodes
      BY <3>2
    <3>4. index'[Home[p]] \in SUBSET Nodes
      BY <2>2, <3>1, <3>2, <3>3
    <3>5. QED
      BY <1>b, <3>4
  <2>6. ASSUME stage[p] = "checking", NEW q \in earlier[p], Home[q] \notin index'[Home[p]]
        PROVE  list'[Home[p]][q] # Nothing
    <3>1. q \in Probes /\ stage[q] = "connected" /\ Home[p] \in Nodes
      BY <1>a, <1>b DEF Seen
    <3>2. CASE Home[p] = n /\ Home[q] = m
      BY <2>3, <2>4, <3>1, <3>2
    <3>3. CASE ~(Home[p] = n /\ Home[q] = m)
      <4>1. Home[q] \notin index[Home[p]]
        BY <1>a, <2>2, <2>6, <3>1, <3>3 DEF Seen
      <4>2. list[Home[p]][q] # Nothing
        BY <1>a, <2>6, <4>1 DEF Seen
      <4>3. QED
        BY <2>3, <3>1, <3>3, <4>2
    <3>4. QED
      BY <3>2, <3>3
  <2>7. QED
    BY <1>a, <2>1, <2>5, <2>6 DEF Seen
<1>8. ASSUME UNCHANGED limitsVars PROVE Seen(p)'
  BY <1>8, <1>f DEF limitsVars
<1>9. QED
  BY <1>1, <1>2, <1>3, <1>4, <1>5, <1>6, <1>7, <1>8 DEF LimitsNext, ProbeStep, NodeStep

\* The types, the lists and the indexes fit together, however many probes and nodes there are.
THEOREM LimitsInvariant == LimitsSpec => []LimitsInv
<1>1. LimitsInit => LimitsInv
  <2> SUFFICES ASSUME LimitsInit PROVE LimitsInv
    OBVIOUS
  <2>1. LimitsDomains
    BY DEF LimitsInit, LimitsDomains
  <2>2. \A n \in Nodes, p \in Probes : list[n][p] \in (SUBSET AltIps[p]) \cup {Nothing}
    BY DEF LimitsInit
  <2>3. LimitsTypeOK
    BY <2>2, BoundsAssumption DEF LimitsInit, LimitsTypeOK
  <2>4. SeenInv
    BY DEF LimitsInit, SeenInv, Seen
  <2>5. QED
    BY <2>1, <2>3, <2>4 DEF LimitsInv
<1>2. LimitsInv /\ [LimitsNext]_limitsVars => LimitsInv'
  BY LimitsTypeStep, SeenStep DEF LimitsInv
<1>3. QED
  BY <1>1, <1>2, PTL DEF LimitsSpec

\* A probe that was connected before another one came, to whatever node, is known to the index
\* that decides on the other.
THEOREM EarlierProbesAlwaysSeen == LimitsSpec => []EarlierProbesAreSeen
<1>1. LimitsInv => EarlierProbesAreSeen
  BY DEF LimitsInv, SeenInv, Seen, EarlierProbesAreSeen
<1>2. QED
  BY <1>1, LimitsInvariant, PTL

-------------------------------------------------------------------------------
(* ProbeLimits: the pass over the ranges, range by range *)

\* What the pass over the ranges disconnects for one range, beside those that are disconnected.
CloseRange(n, range, soFar) ==
  LET living == {p \in Listed(n) \ soFar :
                   \E ip \in {Ip[p]} \cup list[n][p] : Key[ip] = range}
      own == {p \in living : Key[Ip[p]] = range}
  IN soFar \cup (IF Cardinality(living) <= 1 \/ own = {} THEN {}
                 ELSE IF own # living THEN own ELSE own \ Lowest(own))

\* The pass is a fold: it does one of some ranges after it has done the others.
LEMMA RangesFold ==
  ASSUME NEW n, NEW closed
  PROVE  \E fold : /\ fold[{}] = closed
                   /\ \A q \in SUBSET IpRanges : q # {} =>
                        \E r \in q : fold[q] = CloseRange(n, r, fold[q \ {r}])
                   /\ fold[IpRanges] = SurplusOfRanges(n, closed)
<1> DEFINE pick(q) == CHOOSE r \in q : TRUE
           Next1(it, q) == IF q = {} THEN closed ELSE CloseRange(n, pick(q), it[q \ {pick(q)}])
           Small(k) == {q \in SUBSET IpRanges : Cardinality(q) <= k}
           Solves(it, D) == it = [q \in D |-> Next1(it, q)]
           last == Cardinality(IpRanges)
           Good == {k \in 0..last : \E it : Solves(it, Small(k))}
<1>0. last \in Nat
  BY KeyAssumption, FS_CardinalityType
<1>1. \A q \in SUBSET IpRanges : IsFiniteSet(q) /\ Cardinality(q) \in Nat /\ Cardinality(q) <= last
  BY KeyAssumption, FS_Subset, FS_CardinalityType
<1>2. \A q \in SUBSET IpRanges : q # {} =>
        /\ pick(q) \in q
        /\ Cardinality(q \ {pick(q)}) = Cardinality(q) - 1
        /\ Cardinality(q) >= 1
  <2>1. ASSUME NEW q \in SUBSET IpRanges, q # {}
        PROVE  /\ pick(q) \in q
               /\ Cardinality(q \ {pick(q)}) = Cardinality(q) - 1
               /\ Cardinality(q) >= 1
    <3>1. pick(q) \in q
      BY <2>1
    <3>2. Cardinality(q \ {pick(q)}) = Cardinality(q) - 1
      <4> HIDE DEF pick
      <4>1. QED
        BY <1>1, <3>1, FS_RemoveElement
    <3>3. q \ {pick(q)} \in SUBSET IpRanges
      OBVIOUS
    <3>4. Cardinality(q \ {pick(q)}) \in Nat /\ Cardinality(q) \in Nat
      BY <1>1, <3>3
    <3> HIDE DEF pick
    <3>5. QED
      BY <3>1, <3>2, <3>4
  <2> HIDE DEF pick
  <2>2. QED
    BY <2>1
<1>3. 0 \in Good
  <2>1. \A q \in Small(0) : q = {}
    <3>1. ASSUME NEW q \in Small(0), q # {}
          PROVE  FALSE
      <4>1. Cardinality(q) <= 0 /\ Cardinality(q) >= 1 /\ Cardinality(q) \in Nat
        BY <1>1, <1>2, <3>1
      <4>2. QED
        BY <4>1
    <3>2. QED
      BY <3>1
  <2>2. Solves([q \in Small(0) |-> closed], Small(0))
    <3> HIDE DEF Small
    <3>1. QED
      BY <2>1
  <2>3. 0 \in 0..last
    BY <1>0
  <2> HIDE DEF Solves, Small, last
  <2>4. QED
    BY <2>2, <2>3
<1>4. ASSUME NEW m \in 1..last, m - 1 \in Good
      PROVE  m \in Good
  <2>1. PICK it : Solves(it, Small(m - 1))
    BY <1>4
  <2> DEFINE jt == [q \in Small(m) |-> Next1(it, q)]
  <2>2. ASSUME NEW q \in Small(m), q # {}
        PROVE  jt[q \ {pick(q)}] = it[q \ {pick(q)}]
    <3> DEFINE r == q \ {pick(q)}
    <3>1. r \in Small(m - 1) /\ r \in Small(m)
      <4>1. r \in SUBSET IpRanges /\ Cardinality(r) = Cardinality(q) - 1
        BY <1>2, <2>2
      <4>2. Cardinality(q) <= m /\ Cardinality(q) \in Nat
        BY <1>1
      <4> HIDE DEF r
      <4>3. QED
        BY <1>4, <4>1, <4>2
    <3> HIDE DEF r, Small
    <3>2. it[r] = Next1(it, r)
      BY <2>1, <3>1
    <3>3. jt[r] = Next1(it, r)
      BY <3>1
    <3>4. jt[r] = it[r]
      <4> HIDE DEF jt, Next1
      <4>1. QED
        BY <3>2, <3>3
    <3>5. QED
      BY <3>4 DEF r
  <2>3. \A q \in Small(m) : Next1(it, q) = Next1(jt, q)
    <3> HIDE DEF jt, Small
    <3>1. QED
      BY <2>2
  <2>4. Solves(jt, Small(m))
    <3> HIDE DEF Small, Next1
    <3>1. QED
      BY <2>3
  <2> HIDE DEF Solves, Small, jt, last
  <2>5. QED
    BY <2>4
<1>5. last \in Good
  <2> HIDE DEF Good, last
  <2>1. \A k \in 0..last : k \in Good
    BY <1>0, <1>3, <1>4, Induction
  <2>2. QED
    BY <1>0, <2>1
<1> DEFINE fold == CHOOSE it : it = [q \in SUBSET IpRanges |->
                     IF q = {} THEN closed ELSE CloseRange(n, pick(q), it[q \ {pick(q)}])]
<1>6. \A q \in SUBSET IpRanges : fold[q] = Next1(fold, q)
  <2>1. Small(last) = SUBSET IpRanges
    <3> HIDE DEF last
    <3>1. QED
      BY <1>1
  <2>2. PICK it : Solves(it, SUBSET IpRanges)
    <3> HIDE DEF Solves, Small
    <3>1. QED
      BY <1>5, <2>1
  <2>3. it = [q \in SUBSET IpRanges |->
                IF q = {} THEN closed ELSE CloseRange(n, pick(q), it[q \ {pick(q)}])]
    BY <2>2
  <2>4. fold = [q \in SUBSET IpRanges |->
                IF q = {} THEN closed ELSE CloseRange(n, pick(q), fold[q \ {pick(q)}])]
    <3> HIDE DEF pick
    <3>1. QED
      BY <2>3
  <2> HIDE DEF pick, fold
  <2>5. QED
    BY <2>4
<1>7. SurplusOfRanges(n, closed) = fold[IpRanges]
  BY DEF SurplusOfRanges, FoldSet, MapThenFoldSet, CloseRange
<1>8. QED
  <2>1. fold[{}] = closed
    BY <1>6
  <2>2. ASSUME NEW q \in SUBSET IpRanges, q # {}
        PROVE  \E r \in q : fold[q] = CloseRange(n, r, fold[q \ {r}])
    <3>1. pick(q) \in q
      BY <2>2
    <3>2. fold[q] = CloseRange(n, pick(q), fold[q \ {pick(q)}])
      <4> HIDE DEF fold, pick
      <4>1. QED
        BY <1>6, <2>2
    <3> HIDE DEF fold, pick
    <3>3. QED
      BY <3>1, <3>2
  <2> HIDE DEF fold
  <2>3. QED
    BY <1>7, <2>1, <2>2

-------------------------------------------------------------------------------
(* ProbeLimits: those that stay keep the limits *)

\* The IPs a listed probe has, and what they are.
LEMMA ListedProbes ==
  ASSUME LimitsTypeOK, NEW n \in Nodes
  PROVE  /\ Listed(n) \subseteq Nat /\ IsFiniteSet(Listed(n))
         /\ \A p \in Listed(n) : {Ip[p]} \cup list[n][p] \subseteq DOMAIN Key
         /\ \A S \in SUBSET Listed(n) : IsFiniteSet(S) /\ Cardinality(S) \in Nat
<1>1. Listed(n) \subseteq Probes
  BY DEF Listed
<1>2. Listed(n) \subseteq Nat /\ IsFiniteSet(Listed(n))
  BY <1>1, ProbesAssumption, FS_Subset
<1>3. ASSUME NEW p \in Listed(n)
      PROVE  {Ip[p]} \cup list[n][p] \subseteq DOMAIN Key
  <2>1. list[n][p] \subseteq AltIps[p]
    BY <1>1 DEF Listed, LimitsTypeOK
  <2>2. QED
    BY <1>1, <2>1, KeyAssumption
<1>4. \A S \in SUBSET Listed(n) : IsFiniteSet(S) /\ Cardinality(S) \in Nat
  BY <1>2, FS_Subset, FS_CardinalityType
<1>5. QED
  BY <1>2, <1>3, <1>4

\* A set with two members has more than one.
LEMMA MoreThanOne ==
  ASSUME NEW S, IsFiniteSet(S), NEW p \in S, NEW q \in S, p # q
  PROVE  Cardinality(S) > 1
<1>1. Cardinality(S) \in Nat
  BY FS_CardinalityType
<1>2. Cardinality(S) # 0
  BY FS_EmptySet
<1>3. Cardinality(S) # 1
  BY FS_Singleton
<1>4. QED
  BY <1>1, <1>2, <1>3

\* After the pass over the IPs no two probes share one.
LEMMA IpsApart ==
  ASSUME LimitsTypeOK, NEW n \in Nodes,
         NEW p \in Listed(n) \ SurplusOfIps(n), NEW q \in Listed(n) \ SurplusOfIps(n),
         NEW ip, ip \in {Ip[p]} \cup list[n][p], ip \in {Ip[q]} \cup list[n][q]
  PROVE  p = q
<1> SUFFICES ASSUME p # q
             PROVE  FALSE
  OBVIOUS
<1> DEFINE H == Holders(n, ip)
           alternative == {r \in H : Ip[r] # ip}
           first == IF alternative # {} THEN alternative ELSE H
<1>1. p \in H /\ q \in H /\ H \subseteq Listed(n)
  BY DEF Holders
<1>2. Cardinality(H) > 1
  <2>1. IsFiniteSet(H)
    BY <1>1, ListedProbes
  <2> HIDE DEF H
  <2>2. QED
    BY <1>1, <2>1, MoreThanOne
<1>3. ip \in DOMAIN Key
  BY ListedProbes
<1>4. H \ {Min(first)} \subseteq SurplusOfIps(n)
  <2> DEFINE shared == {i \in DOMAIN Key : Cardinality(Holders(n, i)) > 1}
             with(i) == {r \in Holders(n, i) : Ip[r] # i}
             surplus(i) == Holders(n, i) \ {Min(IF with(i) # {} THEN with(i) ELSE Holders(n, i))}
  <2>1. SurplusOfIps(n) = UNION {surplus(i) : i \in shared}
    BY DEF SurplusOfIps, Lowest
  <2>2. ip \in shared
    BY <1>2, <1>3
  <2>3. surplus(ip) = H \ {Min(first)}
    OBVIOUS
  <2>4. surplus(ip) \subseteq UNION {surplus(i) : i \in shared}
    <3> HIDE DEF surplus, shared
    <3>1. QED
      BY <2>2
  <2> HIDE DEF surplus, shared, H, first
  <2>5. QED
    BY <2>1, <2>3, <2>4
<1>5. p = Min(first) /\ q = Min(first)
  <2> HIDE DEF H, first
  <2>1. QED
    BY <1>1, <1>4
<1>6. QED
  BY <1>5

\* After the pass over the ranges an own IP is alone in its range.
LEMMA RangesApart ==
  ASSUME LimitsTypeOK, NEW n \in Nodes, NEW closed,
         NEW p \in Listed(n) \ SurplusOfRanges(n, closed),
         NEW q \in Listed(n) \ SurplusOfRanges(n, closed), p # q,
         Key[Ip[p]] \in IpRanges,
         NEW ip \in {Ip[q]} \cup list[n][q], Key[ip] = Key[Ip[p]]
  PROVE  FALSE
<1> DEFINE Lives(u, r) == \E i \in {Ip[u]} \cup list[n][u] : Key[i] = r
           Apart(soFar, r) == \A u, v \in Listed(n) \ soFar : u # v /\ Key[Ip[u]] = r => ~Lives(v, r)
<1>1. PICK fold : /\ fold[{}] = closed
                  /\ \A d \in SUBSET IpRanges : d # {} =>
                       \E r \in d : fold[d] = CloseRange(n, r, fold[d \ {r}])
                  /\ fold[IpRanges] = SurplusOfRanges(n, closed)
  BY RangesFold
<1>2. ASSUME NEW r, NEW soFar
      PROVE  soFar \subseteq CloseRange(n, r, soFar) /\ Apart(CloseRange(n, r, soFar), r)
  <2> DEFINE living == {u \in Listed(n) \ soFar : Lives(u, r)}
             own == {u \in living : Key[Ip[u]] = r}
             closing1 == IF Cardinality(living) <= 1 \/ own = {} THEN {}
                         ELSE IF own # living THEN own ELSE own \ Lowest(own)
  <2>1. CloseRange(n, r, soFar) = soFar \cup closing1
    BY DEF CloseRange
  <2>2. ASSUME NEW u \in Listed(n) \ (soFar \cup closing1), NEW v \in Listed(n) \ (soFar \cup closing1),
               u # v, Key[Ip[u]] = r, Lives(v, r)
        PROVE  FALSE
    <3>1. u \in own /\ u \in living /\ v \in living /\ living \subseteq Listed(n)
      BY <2>2
    <3>2. Cardinality(living) > 1 /\ Cardinality(living) \in Nat
      <4>1. IsFiniteSet(living) /\ Cardinality(living) \in Nat
        BY <3>1, ListedProbes
      <4> HIDE DEF living
      <4>2. QED
        BY <2>2, <3>1, <4>1, MoreThanOne
    <3>3. closing1 = IF own # living THEN own ELSE own \ Lowest(own)
      <4> HIDE DEF own, living
      <4>1. QED
        BY <3>1, <3>2
    <3>4. u \notin closing1 /\ v \notin closing1
      BY <2>2
    <3> HIDE DEF own, living, closing1
    <3>5. own = living /\ closing1 = own \ {Min(own)}
      BY <3>1, <3>3, <3>4 DEF Lowest
    <3>6. QED
      BY <2>2, <3>1, <3>4, <3>5
  <2> HIDE DEF closing1
  <2>3. QED
    BY <2>1, <2>2
<1> HIDE DEF Lives
<1> DEFINE Good == {d \in SUBSET IpRanges : \A r \in d : Apart(fold[d], r)}
<1>3. ASSUME NEW d \in SUBSET IpRanges, d # {}, \A r \in d : d \ {r} \in Good
      PROVE  d \in Good
  <2>1. PICK r \in d : fold[d] = CloseRange(n, r, fold[d \ {r}])
    BY <1>1, <1>3
  <2>2. fold[d \ {r}] \subseteq fold[d] /\ Apart(fold[d], r)
    <3> HIDE DEF Apart
    <3>1. QED
      BY <1>2, <2>1
  <2>3. \A s \in d \ {r} : Apart(fold[d \ {r}], s)
    BY <1>3
  <2>4. \A s \in d \ {r} : Apart(fold[d], s)
    BY <2>2, <2>3
  <2> HIDE DEF Apart
  <2>5. QED
    BY <2>2, <2>4
<1>4. {} \in Good
  OBVIOUS
<1>5. IpRanges \in Good
  <2> HIDE DEF Good
  <2>1. QED
    BY <1>3, <1>4, KeyAssumption, SubsetInduction
<1>6. Apart(SurplusOfRanges(n, closed), Key[Ip[p]])
  <2> HIDE DEF Apart
  <2>1. QED
    BY <1>1, <1>5
<1>7. Lives(q, Key[Ip[p]])
  BY DEF Lives
<1>8. QED
  BY <1>6, <1>7

\* A finite set of numbers has a greatest one.
LEMMA GreatestExists ==
  ASSUME NEW S, S \subseteq Nat, IsFiniteSet(S), S # {}
  PROVE  \E m \in S : \A n \in S : n <= m
<1> DEFINE Good == {q \in SUBSET S : q # {} => \E m \in q : \A n \in q : n <= m}
<1>1. {} \in Good
  OBVIOUS
<1>2. ASSUME NEW q \in SUBSET S, q # {}, \A r \in q : q \ {r} \in Good
      PROVE  q \in Good
  <2>1. PICK r \in q : TRUE
    BY <1>2
  <2>2. q \ {r} \in Good /\ q \subseteq Nat
    BY <1>2
  <2>3. CASE q \ {r} = {}
    BY <2>1, <2>2, <2>3
  <2>4. CASE q \ {r} # {}
    <3>1. PICK m \in q \ {r} : \A n \in q \ {r} : n <= m
      BY <2>2, <2>4
    <3>2. CASE r <= m
      BY <2>2, <3>1, <3>2
    <3>3. CASE ~(r <= m)
      <4>1. \A n \in q : n <= r
        BY <2>2, <3>1, <3>3
      <4>2. QED
        BY <2>1, <4>1
    <3>4. QED
      BY <3>2, <3>3
  <2>5. QED
    BY <2>3, <2>4
<1>3. S \in Good
  <2> HIDE DEF Good
  <2>1. QED
    BY <1>1, <1>2, SubsetInduction
<1>4. QED
  BY <1>3

\* If fewer than a number of keys come before any of some keys, those are no more than that.
LEMMA FirstOnes ==
  ASSUME NEW D, IsFiniteSet(D), NEW f \in [D -> Nat], NEW limit \in Nat \ {0}, NEW K \in SUBSET D,
         \A k, l \in D : f[k] = f[l] => k = l,
         \A k \in K : Cardinality({l \in D : f[l] < f[k]}) < limit
  PROVE  Cardinality(K) <= limit
<1>1. IsFiniteSet(K) /\ Cardinality(K) \in Nat
  BY FS_Subset, FS_CardinalityType
<1>2. CASE K = {}
  BY <1>2, FS_EmptySet
<1>3. CASE K # {}
  <2> DEFINE F == {f[k] : k \in K}
  <2>1. IsFiniteSet(F)
    <3> DEFINE g == [k \in K |-> f[k]]
    <3>1. g \in Surjection(K, F)
      BY DEF Surjection
    <3> HIDE DEF g, F
    <3>2. QED
      BY <1>1, <3>1, FS_Surjection
  <2>2. F \subseteq Nat /\ F # {}
    BY <1>3
  <2>3. PICK m \in F : \A x \in F : x <= m
    <3> HIDE DEF F
    <3>1. QED
      BY <2>1, <2>2, GreatestExists
  <2>4. PICK k \in K : f[k] = m
    OBVIOUS
  <2> DEFINE ahead == {l \in D : f[l] < f[k]}
  <2>5. K \ {k} \subseteq ahead
    <3>1. ASSUME NEW l \in K \ {k}
          PROVE  f[l] < f[k]
      <4>1. f[l] \in Nat /\ f[k] \in Nat /\ f[l] # f[k] /\ f[l] <= f[k]
        BY <2>3, <2>4
      <4>2. QED
        BY <4>1
    <3>2. QED
      BY <3>1
  <2>6. IsFiniteSet(ahead) /\ Cardinality(ahead) \in Nat
    BY FS_Subset, FS_CardinalityType
  <2>7. Cardinality(ahead) < limit
    OBVIOUS
  <2> HIDE DEF ahead
  <2>8. Cardinality(K \ {k}) <= Cardinality(ahead)
    BY <2>5, <2>6, FS_Subset
  <2>9. Cardinality(K \ {k}) = Cardinality(K) - 1
    BY <1>1, FS_RemoveElement
  <2>10. QED
    BY <1>1, <2>6, <2>7, <2>8, <2>9
<1>4. QED
  BY <1>2, <1>3

\* The probes of a group and a key that the passes before have left, the keys of the group, their
\* lowest probes, and the keys that are one too many.
KeyMembers(n, closed, g, k) == {p \in Listed(n) \ closed : Group[p] = g /\ Key[Ip[p]] = k}
GroupKeysLeft(n, closed, g) == {Key[Ip[p]] : p \in {q \in Listed(n) \ closed : Group[q] = g}}
FirstOfKey(n, closed, g, k) == Min(KeyMembers(n, closed, g, k))
LateKeys(n, closed, g) ==
  {k \in GroupKeysLeft(n, closed, g) :
     Cardinality({l \in GroupKeysLeft(n, closed, g) :
                    FirstOfKey(n, closed, g, l) < FirstOfKey(n, closed, g, k)}) >= GroupLimit}

\* The pass over the groups disconnects the probes of those keys.
LEMMA GroupsPass ==
  ASSUME NEW n, NEW closed
  PROVE  SurplusOfGroups(n, closed) =
           closed \cup {p \in Listed(n) \ closed :
                          Group[p] # Nothing /\ Key[Ip[p]] \in LateKeys(n, closed, Group[p])}
<1> DEFINE keyed(g) == IndexAsnCity(Listed(n) \ closed, g)
           first(keys) == [k \in DOMAIN keys |-> Min(keys[k])]
           late(f) == {k \in DOMAIN f : Cardinality({l \in DOMAIN f : f[l] < f[k]}) >= GroupLimit}
           surplus(keys) == UNION {keys[k] : k \in late(first(keys))}
<1>1. SurplusOfGroups(n, closed) =
        closed \cup UNION {surplus(keyed(g)) : g \in {Group[p] : p \in Listed(n)} \ {Nothing}}
  BY DEF SurplusOfGroups
<1>2. ASSUME NEW g
      PROVE  surplus(keyed(g)) = UNION {KeyMembers(n, closed, g, k) : k \in LateKeys(n, closed, g)}
  <2>1. keyed(g) = [k \in GroupKeysLeft(n, closed, g) |-> KeyMembers(n, closed, g, k)]
    BY DEF IndexAsnCity, GroupKeysLeft, KeyMembers
  <2>2. first(keyed(g)) = [k \in GroupKeysLeft(n, closed, g) |-> FirstOfKey(n, closed, g, k)]
    <3> HIDE DEF keyed
    <3>1. QED
      BY <2>1 DEF FirstOfKey
  <2>3. late(first(keyed(g))) = LateKeys(n, closed, g)
    <3> HIDE DEF keyed, first
    <3>1. QED
      BY <2>2 DEF LateKeys
  <2>4. \A k \in LateKeys(n, closed, g) : keyed(g)[k] = KeyMembers(n, closed, g, k)
    <3> HIDE DEF keyed
    <3>1. QED
      BY <2>1 DEF LateKeys
  <2> HIDE DEF keyed, first, late
  <2>5. QED
    BY <2>3, <2>4
<1>3. UNION {surplus(keyed(g)) : g \in {Group[p] : p \in Listed(n)} \ {Nothing}} =
        {p \in Listed(n) \ closed : Group[p] # Nothing /\ Key[Ip[p]] \in LateKeys(n, closed, Group[p])}
  <2> HIDE DEF surplus, keyed
  <2>1. ASSUME NEW p
        PROVE  (p \in UNION {surplus(keyed(g)) : g \in {Group[q] : q \in Listed(n)} \ {Nothing}})
               <=> (/\ p \in Listed(n) \ closed /\ Group[p] # Nothing
                    /\ Key[Ip[p]] \in LateKeys(n, closed, Group[p]))
    <3>1. ASSUME NEW g, p \in surplus(keyed(g))
          PROVE  p \in Listed(n) \ closed /\ Group[p] = g /\ Key[Ip[p]] \in LateKeys(n, closed, g)
      BY <1>2, <3>1 DEF KeyMembers
    <3>2. ASSUME p \in Listed(n) \ closed, Key[Ip[p]] \in LateKeys(n, closed, Group[p])
          PROVE  p \in surplus(keyed(Group[p]))
      BY <1>2, <3>2 DEF KeyMembers
    <3>3. QED
      BY <3>1, <3>2
  <2>2. QED
    BY <2>1
<1> HIDE DEF surplus, keyed
<1>4. QED
  BY <1>1, <1>3

\* The keys of a group and their first probes.
LEMMA GroupFacts ==
  ASSUME LimitsTypeOK, NEW n \in Nodes, NEW closed, NEW g
  PROVE  /\ IsFiniteSet(GroupKeysLeft(n, closed, g))
         /\ \A k \in GroupKeysLeft(n, closed, g) :
              FirstOfKey(n, closed, g, k) \in KeyMembers(n, closed, g, k)
         /\ \A k : KeyMembers(n, closed, g, k) \subseteq Nat
<1>1. Listed(n) \subseteq Nat /\ IsFiniteSet(Listed(n))
  BY ListedProbes
<1>2. \A k : KeyMembers(n, closed, g, k) \subseteq Nat
  BY <1>1 DEF KeyMembers
<1>3. ASSUME NEW k \in GroupKeysLeft(n, closed, g)
      PROVE  FirstOfKey(n, closed, g, k) \in KeyMembers(n, closed, g, k)
  <2>1. KeyMembers(n, closed, g, k) # {}
    BY DEF KeyMembers, GroupKeysLeft
  <2>2. QED
    BY <1>2, <2>1, LowestIsThere DEF FirstOfKey
<1>4. IsFiniteSet(GroupKeysLeft(n, closed, g))
  <2> DEFINE members == {q \in Listed(n) \ closed : Group[q] = g}
             h == [p \in members |-> Key[Ip[p]]]
  <2>1. IsFiniteSet(members)
    BY <1>1, FS_Subset
  <2>2. h \in Surjection(members, GroupKeysLeft(n, closed, g))
    BY DEF Surjection, GroupKeysLeft
  <2> HIDE DEF members, h
  <2>3. QED
    BY <2>1, <2>2, FS_Surjection
<1>5. QED
  BY <1>2, <1>3, <1>4

\* After the pass over the groups none has more keys than it may.
LEMMA GroupsLimited ==
  ASSUME LimitsTypeOK, NEW n \in Nodes, NEW closed, NEW g, g # Nothing
  PROVE  Cardinality({Key[Ip[q]] :
                        q \in {r \in Listed(n) \ SurplusOfGroups(n, closed) : Group[r] = g}})
           <= GroupLimit
<1> DEFINE D == GroupKeysLeft(n, closed, g)
           f == [k \in D |-> FirstOfKey(n, closed, g, k)]
           K == {Key[Ip[q]] : q \in {r \in Listed(n) \ SurplusOfGroups(n, closed) : Group[r] = g}}
<1>1. IsFiniteSet(D)
  BY GroupFacts
<1>2. f \in [D -> Nat]
  BY GroupFacts
<1>3. ASSUME NEW k \in D, NEW l \in D, f[k] = f[l]
      PROVE  k = l
  <2>1. f[k] \in KeyMembers(n, closed, g, k) /\ f[l] \in KeyMembers(n, closed, g, l)
    BY GroupFacts
  <2> HIDE DEF f
  <2>2. QED
    BY <1>3, <2>1 DEF KeyMembers
<1>4. \A k \in K : k \in D /\ k \notin LateKeys(n, closed, g)
  BY GroupsPass DEF GroupKeysLeft
<1>5. ASSUME NEW k \in K
      PROVE  Cardinality({l \in D : f[l] < f[k]}) < GroupLimit
  <2>1. k \in D /\ k \notin LateKeys(n, closed, g)
    BY <1>4
  <2> DEFINE ahead == {l \in D : FirstOfKey(n, closed, g, l) < FirstOfKey(n, closed, g, k)}
  <2>2. ~(Cardinality(ahead) >= GroupLimit)
    BY <2>1 DEF LateKeys
  <2>3. {l \in D : f[l] < f[k]} = ahead
    <3> HIDE DEF D
    <3>1. QED
      BY <2>1
  <2>4. Cardinality(ahead) \in Nat
    BY <1>1, FS_Subset, FS_CardinalityType
  <2> HIDE DEF ahead, f, D
  <2>5. QED
    BY <2>2, <2>3, <2>4, BoundsAssumption
<1>6. K \in SUBSET D
  BY <1>4
<1> HIDE DEF f, D, K
<1>7. Cardinality(K) <= GroupLimit
  BY <1>1, <1>2, <1>3, <1>5, <1>6, BoundsAssumption, FirstOnes
<1>8. QED
  BY <1>7 DEF K

\* The pass over the ranges adds to what it is given, and only listed probes.
LEMMA RangesGrow ==
  ASSUME NEW n, NEW closed
  PROVE  closed \subseteq SurplusOfRanges(n, closed) /\ SurplusOfRanges(n, closed) \subseteq closed \cup Listed(n)
<1>1. PICK fold : /\ fold[{}] = closed
                  /\ \A d \in SUBSET IpRanges : d # {} =>
                       \E r \in d : fold[d] = CloseRange(n, r, fold[d \ {r}])
                  /\ fold[IpRanges] = SurplusOfRanges(n, closed)
  BY RangesFold
<1> DEFINE Good == {d \in SUBSET IpRanges : closed \subseteq fold[d] /\ fold[d] \subseteq closed \cup Listed(n)}
<1>2. \A r, soFar : /\ soFar \subseteq CloseRange(n, r, soFar)
                    /\ CloseRange(n, r, soFar) \subseteq soFar \cup Listed(n)
  BY DEF CloseRange
<1>3. {} \in Good
  BY <1>1
<1>4. ASSUME NEW d \in SUBSET IpRanges, d # {}, \A r \in d : d \ {r} \in Good
      PROVE  d \in Good
  <2>1. PICK r \in d : fold[d] = CloseRange(n, r, fold[d \ {r}])
    BY <1>1, <1>4
  <2>2. closed \subseteq fold[d \ {r}] /\ fold[d \ {r}] \subseteq closed \cup Listed(n)
    BY <1>4
  <2>3. fold[d \ {r}] \subseteq fold[d] /\ fold[d] \subseteq fold[d \ {r}] \cup Listed(n)
    BY <1>2, <2>1
  <2>4. QED
    BY <2>2, <2>3
<1>5. IpRanges \in Good
  <2> HIDE DEF Good
  <2>1. QED
    BY <1>3, <1>4, KeyAssumption, SubsetInduction
<1>6. QED
  BY <1>1, <1>5

\* Only listed probes are disconnected.
LEMMA SurplusListed ==
  ASSUME NEW n, NEW p \in SurplusOfGroups(n, SurplusOfRanges(n, SurplusOfIps(n)))
  PROVE  p \in Listed(n)
<1>1. SurplusOfIps(n) \subseteq Listed(n)
  BY DEF SurplusOfIps, Holders
<1>2. SurplusOfRanges(n, SurplusOfIps(n)) \subseteq Listed(n)
  BY <1>1, RangesGrow
<1>3. QED
  BY <1>2, GroupsPass

\* The listed probes whose own IP has the key of a probe's.
NearProbes(n, p) == {q \in Listed(n) : Key[Ip[q]] = Key[Ip[p]]}

\* Without alternative IPs the lowest of them outlives the first two passes.
LEMMA LowestNearStays ==
  ASSUME LimitsTypeOK, NEW n \in Nodes, \A q \in Listed(n) : list[n][q] = {}, NEW p \in Listed(n)
  PROVE  Min(NearProbes(n, p)) \in
           NearProbes(n, p) \ SurplusOfRanges(n, SurplusOfIps(n))
<1> DEFINE N == NearProbes(n, p)
           m == Min(N)
<1>1. N \subseteq Listed(n) /\ Listed(n) \subseteq Nat /\ p \in N
  BY ListedProbes DEF NearProbes
<1>2. m \in N /\ \A j \in N : m <= j
  <2> HIDE DEF N
  <2>1. QED
    BY <1>1, LowestIsThere
<1>3. \A q \in Listed(n) : Key[Ip[q]] = Key[Ip[m]] => q \in N
  <2> HIDE DEF m
  <2>1. QED
    BY <1>2 DEF NearProbes
\* Where it is one of several, it is the lowest.
<1>4. ASSUME NEW T, T \subseteq N, m \in T
      PROVE  Min(T) = m
  <2> HIDE DEF m, N
  <2>1. T \in SUBSET Nat /\ T # {}
    BY <1>1, <1>4
  <2>2. Min(T) \in T /\ Min(T) <= m
    BY <1>4, <2>1, LowestIsThere
  <2>3. m <= Min(T) /\ m \in Nat /\ Min(T) \in Nat
    BY <1>1, <1>2, <1>4, <2>2
  <2>4. QED
    BY <2>2, <2>3
<1>5. m \notin SurplusOfIps(n)
  <2> DEFINE shared == {i \in DOMAIN Key : Cardinality(Holders(n, i)) > 1}
             with(i) == {r \in Holders(n, i) : Ip[r] # i}
             surplus(i) == Holders(n, i) \ {Min(IF with(i) # {} THEN with(i) ELSE Holders(n, i))}
  <2>1. SurplusOfIps(n) = UNION {surplus(i) : i \in shared}
    BY DEF SurplusOfIps, Lowest
  <2>2. ASSUME NEW i
        PROVE  m \notin surplus(i)
    <3>1. Holders(n, i) = {q \in Listed(n) : Ip[q] = i}
      BY DEF Holders
    <3>2. with(i) = {}
      BY <3>1
    <3>3. CASE m \in Holders(n, i)
      <4>1. Holders(n, i) \subseteq N
        <5> HIDE DEF m, N
        <5>1. QED
          BY <1>3, <3>1, <3>3
      <4>2. Min(Holders(n, i)) = m
        <5> HIDE DEF m, N
        <5>1. QED
          BY <1>4, <3>3, <4>1
      <4> HIDE DEF m, with
      <4>3. QED
        BY <3>2, <4>2
    <3>4. CASE m \notin Holders(n, i)
      BY <3>4
    <3>5. QED
      BY <3>3, <3>4
  <2> HIDE DEF surplus, shared, m
  <2>3. QED
    BY <2>1, <2>2
<1>6. ASSUME NEW r, NEW soFar, m \notin soFar
      PROVE  m \notin CloseRange(n, r, soFar)
  <2> DEFINE living == {u \in Listed(n) \ soFar : \E i \in {Ip[u]} \cup list[n][u] : Key[i] = r}
             own == {u \in living : Key[Ip[u]] = r}
             more == IF Cardinality(living) <= 1 \/ own = {} THEN {}
                     ELSE IF own # living THEN own ELSE own \ Lowest(own)
  <2>1. CloseRange(n, r, soFar) = soFar \cup more
    BY DEF CloseRange
  <2>2. own = living
    OBVIOUS
  <2>3. CASE m \in own
    <3>1. own \subseteq N
      <4>1. Key[Ip[m]] = r /\ \A u \in own : u \in Listed(n) /\ Key[Ip[u]] = r
        BY <2>3
      <4> HIDE DEF m, N, own
      <4>2. QED
        BY <1>3, <4>1
    <3>2. Min(own) = m
      <4> HIDE DEF m, N, own
      <4>1. QED
        BY <1>4, <2>3, <3>1
    <3>3. m \notin more
      <4> HIDE DEF m, N, own, living
      <4>1. QED
        BY <2>2, <3>2 DEF Lowest
    <3> HIDE DEF more, m
    <3>4. QED
      BY <1>6, <2>1, <3>3
  <2>4. CASE m \notin own
    <3>1. m \notin more
      <4> HIDE DEF m, own, living
      <4>1. QED
        BY <2>4
    <3> HIDE DEF more, m
    <3>2. QED
      BY <1>6, <2>1, <3>1
  <2>5. QED
    BY <2>3, <2>4
<1>7. m \notin SurplusOfRanges(n, SurplusOfIps(n))
  <2>1. PICK fold : /\ fold[{}] = SurplusOfIps(n)
                    /\ \A d \in SUBSET IpRanges : d # {} =>
                         \E r \in d : fold[d] = CloseRange(n, r, fold[d \ {r}])
                    /\ fold[IpRanges] = SurplusOfRanges(n, SurplusOfIps(n))
    BY RangesFold
  <2> DEFINE Good == {d \in SUBSET IpRanges : m \notin fold[d]}
  <2> HIDE DEF m
  <2>2. {} \in Good
    BY <1>5, <2>1
  <2>3. ASSUME NEW d \in SUBSET IpRanges, d # {}, \A r \in d : d \ {r} \in Good
        PROVE  d \in Good
    <3>1. PICK r \in d : fold[d] = CloseRange(n, r, fold[d \ {r}])
      BY <2>1, <2>3
    <3>2. m \notin fold[d \ {r}]
      BY <2>3
    <3>3. m \notin CloseRange(n, r, fold[d \ {r}])
      BY <1>6, <3>2
    <3>4. QED
      BY <3>1, <3>3
  <2>4. IpRanges \in Good
    <3> HIDE DEF Good
    <3>1. QED
      BY <2>2, <2>3, KeyAssumption, SubsetInduction
  <2>5. QED
    BY <2>1, <2>4
<1>8. QED
  BY <1>2, <1>7

\* A group that loses a key keeps a probe of another.
LEMMA AMateStays ==
  ASSUME LimitsTypeOK, NEW n \in Nodes, NEW closed,
         NEW p \in SurplusOfGroups(n, closed) \ closed
  PROVE  /\ Group[p] # Nothing
         /\ \E q \in Listed(n) \ SurplusOfGroups(n, closed) : Group[q] = Group[p]
<1> DEFINE g == Group[p]
           D == GroupKeysLeft(n, closed, g)
           F == {FirstOfKey(n, closed, g, k) : k \in D}
<1>1. /\ p \in Listed(n) \ closed /\ g # Nothing
      /\ Key[Ip[p]] \in D
  BY GroupsPass DEF LateKeys
<1>2. \A k \in D : /\ FirstOfKey(n, closed, g, k) \in KeyMembers(n, closed, g, k)
                   /\ FirstOfKey(n, closed, g, k) \in Nat
  <2> HIDE DEF g
  <2>1. QED
    BY GroupFacts
<1>3. PICK m \in F : \A j \in F : m <= j
  <2>1. F \subseteq Nat /\ F # {}
    <3> HIDE DEF D, g
    <3>1. QED
      BY <1>1, <1>2
  <2> HIDE DEF F
  <2>2. QED
    BY <2>1, LeastExists
<1>4. PICK k \in D : m = FirstOfKey(n, closed, g, k)
  OBVIOUS
<1>5. k \notin LateKeys(n, closed, g)
  <2> DEFINE ahead == {l \in D : FirstOfKey(n, closed, g, l) < FirstOfKey(n, closed, g, k)}
  <2>1. ahead = {}
    <3>1. ASSUME NEW l \in D
          PROVE  ~(FirstOfKey(n, closed, g, l) < FirstOfKey(n, closed, g, k))
      <4>1. FirstOfKey(n, closed, g, l) \in F
        OBVIOUS
      <4>2. m <= FirstOfKey(n, closed, g, l)
        <5> HIDE DEF F
        <5>1. QED
          BY <1>3, <4>1
      <4> HIDE DEF D, g
      <4>3. QED
        BY <1>2, <1>4, <4>2
    <3> HIDE DEF D, g
    <3>2. QED
      BY <3>1
  <2>2. ~(Cardinality(ahead) >= GroupLimit)
    <3> HIDE DEF ahead
    <3>1. QED
      BY <2>1, FS_EmptySet, BoundsAssumption
  <2>3. QED
    BY <2>2 DEF LateKeys
<1>6. m \in Listed(n) \ closed /\ Group[m] = g /\ Key[Ip[m]] = k
  <2>1. m \in KeyMembers(n, closed, g, k)
    BY <1>2, <1>4
  <2> HIDE DEF g
  <2>2. QED
    BY <2>1 DEF KeyMembers
<1>7. m \notin SurplusOfGroups(n, closed)
  <2> HIDE DEF g
  <2>1. QED
    BY <1>5, <1>6, GroupsPass
<1>8. QED
  BY <1>1, <1>6, <1>7

LEMMA SurplusRight ==
  ASSUME LimitsTypeOK, NEW n \in Nodes
  PROVE  LET surplus == Surplus(n)
             stay == Listed(n) \ surplus
             near(p, q) == Key[Ip[q]] = Key[Ip[p]]
             mates(p, q) == Group[q] = Group[p] /\ Group[p] # Nothing
         IN /\ LimitsHold(stay, list[n])
            /\ (\A q \in Listed(n) : list[n][q] = {}) =>
                 \A p \in surplus : \E q \in stay :
                   near(p, q) \/ mates(p, q) \/ \E r \in surplus : near(p, r) /\ mates(r, q)
<1> DEFINE closed == SurplusOfRanges(n, SurplusOfIps(n))
           surplus == SurplusOfGroups(n, closed)
           stay == Listed(n) \ surplus
           near(p, q) == Key[Ip[q]] = Key[Ip[p]]
           mates(p, q) == Group[q] = Group[p] /\ Group[p] # Nothing
<1>1. Surplus(n) = surplus
  BY DEF Surplus
<1>2. closed \subseteq surplus
  BY GroupsPass
<1>3. SurplusOfIps(n) \subseteq closed
  BY RangesGrow
<1>4. stay \subseteq Listed(n) \ closed /\ stay \subseteq Listed(n) \ SurplusOfIps(n)
  <2> HIDE DEF closed, surplus
  <2>1. QED
    BY <1>2, <1>3
<1>5. ASSUME NEW p \in stay, NEW q \in stay, p # q
      PROVE  /\ ({Ip[p]} \cup list[n][p]) \cap ({Ip[q]} \cup list[n][q]) = {}
             /\ Key[Ip[p]] \notin {Key[ip] : ip \in {Ip[q]} \cup list[n][q]}
  <2>1. ASSUME NEW ip, ip \in {Ip[p]} \cup list[n][p], ip \in {Ip[q]} \cup list[n][q]
        PROVE  FALSE
    <3> HIDE DEF stay
    <3>1. QED
      BY <1>4, <1>5, <2>1, IpsApart
  <2>2. ASSUME NEW ip \in {Ip[q]} \cup list[n][q], Key[ip] = Key[Ip[p]]
        PROVE  FALSE
    <3>1. p \in Listed(n) /\ q \in Listed(n)
      OBVIOUS
    <3>2. ip \in DOMAIN Key /\ Ip[p] \in DOMAIN Key
      BY <3>1, ListedProbes
    <3>3. CASE Key[Ip[p]] \in IpRanges
      <4>1. p \in Listed(n) \ closed /\ q \in Listed(n) \ closed
        <5> HIDE DEF stay, closed
        <5>1. QED
          BY <1>4
      <4>2. QED
        BY <1>5, <2>2, <3>3, <4>1, RangesApart
    <3>4. CASE Key[Ip[p]] \notin IpRanges
      <4>1. ip = Ip[p]
        BY <2>2, <3>2, <3>4, KeyAssumption
      <4>2. QED
        BY <2>1, <4>1
    <3>5. QED
      BY <3>3, <3>4
  <2> HIDE DEF stay
  <2>3. QED
    BY <2>1, <2>2
<1>6. ASSUME NEW p \in stay, Group[p] # Nothing
      PROVE  Cardinality({Key[Ip[q]] : q \in {r \in stay : Group[r] = Group[p]}}) <= GroupLimit
  <2> HIDE DEF closed
  <2>1. QED
    BY <1>6, GroupsLimited
<1>7. LimitsHold(stay, list[n])
  <2> HIDE DEF stay
  <2>1. QED
    BY <1>5, <1>6 DEF LimitsHold
<1>8. ASSUME \A q \in Listed(n) : list[n][q] = {}, NEW p \in surplus
      PROVE  \E q \in stay : near(p, q) \/ mates(p, q) \/ \E r \in surplus : near(p, r) /\ mates(r, q)
  <2>1. p \in Listed(n)
    BY SurplusListed
  <2> DEFINE m == Min(NearProbes(n, p))
  <2>2. m \in Listed(n) \ closed /\ near(p, m)
    <3>1. m \in NearProbes(n, p) \ closed
      BY <1>8, <2>1, LowestNearStays
    <3> HIDE DEF m, closed
    <3>2. QED
      BY <3>1 DEF NearProbes
  <2>3. CASE m \in stay
    <3> HIDE DEF m, stay, surplus, mates
    <3>1. QED
      BY <2>2, <2>3
  <2>4. CASE m \in surplus
    <3>1. /\ Group[m] # Nothing
          /\ \E q \in stay : Group[q] = Group[m]
      <4> HIDE DEF m, closed
      <4>1. QED
        BY <2>2, <2>4, AMateStays
    <3>2. PICK q \in stay : mates(m, q)
      <4> HIDE DEF m, stay
      <4>1. QED
        BY <3>1
    <3> HIDE DEF m, stay, surplus, mates, near
    <3>3. QED
      BY <2>2, <2>4, <3>2
  <2>5. m \in stay \/ m \in surplus
    <3> HIDE DEF m, surplus, closed
    <3>1. QED
      BY <2>2
  <2>6. QED
    BY <2>3, <2>4, <2>5
<1> HIDE DEF stay, surplus
<1>9. QED
  BY <1>1, <1>7, <1>8 DEF stay

\* Whatever a list of probes says, the three passes over it leave probes that keep the limits, and
\* without alternative IPs they disconnect none without need.
THEOREM SurplusAlwaysRight == LimitsSpec => []SurplusIsRight
<1>1. LimitsTypeOK => SurplusIsRight
  BY SurplusRight DEF SurplusIsRight
<1>2. LimitsInv => SurplusIsRight
  BY <1>1 DEF LimitsInv
<1>3. QED
  BY <1>2, LimitsInvariant, PTL

-------------------------------------------------------------------------------
(* Answers: what a client keeps for good is final *)

\* When a cleanup will have claimed the measurement, after so many failures.
Deadline(failed) == createdAt + TestTimeout + 1 + (LeaseTime + 1) * failed

\* A measurement that is not finished is looked for in time, whatever has failed.
CleanupInv ==
  ~record.finished =>
    /\ time <= scanBy
    /\ IF claim = NoReply THEN scanBy <= Deadline(cleanupFailures)
       ELSE claim <= Deadline(cleanupFailures) /\ scanBy = claim + LeaseTime + 1

\* A read that has found the last word stays right; one that has not is early.
FlightInv ==
  flight # NoReply =>
    IF flight.results.finished THEN flight.results = record
    ELSE flight.since <= Deadline(cleanupFailures) + 1

\* A client has the body that its tag is of, and what is kept for good is the last word.
KeptInv ==
  kept # NoReply =>
    /\ kept.tag = ETag(kept.body)
    /\ kept.body.results.finished => kept.body.results = record
    /\ kept.immutable => kept.body.results.finished

AnswersInv == AnswersTypeOK /\ CleanupInv /\ FlightInv /\ KeptInv

\* Times are numbers; a failure postpones the deadline by a lease and a unit.
LEMMA AnswersNumbers ==
  ASSUME AnswersTypeOK
  PROVE  /\ time \in Nat /\ createdAt \in Nat /\ due \in Nat /\ scanBy \in Nat /\ cleanupFailures \in Nat
         /\ cleanupFailures <= MaxCleanupFailures /\ createdAt <= time /\ time <= EndOfTime
         /\ TestTimeout \in Nat /\ StableAge \in Nat /\ Minute \in Nat \ {0} /\ MaxReports \in Nat
         /\ MaxCleanupFailures \in Nat /\ EndOfTime \in Nat /\ LeaseTime = 6
         /\ claim # NoReply => claim \in Int /\ claim <= time /\ time <= claim + 1
         /\ flight # NoReply => flight.since \in Int /\ flight.since <= time /\ time <= flight.since + 1
         /\ Deadline(cleanupFailures) \in Nat
         /\ Deadline(cleanupFailures + 1) = Deadline(cleanupFailures) + LeaseTime + 1
<1>1. /\ time \in Nat /\ createdAt \in Nat /\ due \in Nat /\ scanBy \in Nat /\ cleanupFailures \in Nat
      /\ cleanupFailures <= MaxCleanupFailures /\ createdAt <= time /\ time <= EndOfTime
      /\ TestTimeout \in Nat /\ StableAge \in Nat /\ Minute \in Nat \ {0} /\ MaxReports \in Nat
      /\ MaxCleanupFailures \in Nat /\ EndOfTime \in Nat /\ LeaseTime = 6
  BY AnswersAssumption DEF AnswersTypeOK, LeaseTime
<1>2. claim # NoReply => claim \in Int /\ claim <= time /\ time <= claim + 1
  BY <1>1 DEF AnswersTypeOK
<1>3. flight # NoReply => flight.since \in Int /\ flight.since <= time /\ time <= flight.since + 1
  BY <1>1 DEF AnswersTypeOK
<1>4. /\ Deadline(cleanupFailures) \in Nat
      /\ Deadline(cleanupFailures + 1) = Deadline(cleanupFailures) + LeaseTime + 1
  BY <1>1 DEF Deadline
<1>5. QED
  BY <1>1, <1>2, <1>3, <1>4

\* What is read is an answer, and what is shared is what was read.
LEMMA FlightFields ==
  ASSUME AnswersTypeOK, Flight
  PROVE  /\ flight' # NoReply
         /\ flight # NoReply => flight' = flight
         /\ flight = NoReply => flight'.results = record /\ flight'.since = time
<1>1. ReadFromRedis \in Reads
  BY AnswersNumbers DEF ReadFromRedis, Reads, AnswersTypeOK
<1>2. ReadFromRedis.results = record /\ ReadFromRedis.since = time
  BY DEF ReadFromRedis
<1>3. QED
  BY <1>1, <1>2, NoReplyAssumption DEF Flight

\* Every step keeps the types.
LEMMA AnswersTypeStep ==
  ASSUME AnswersTypeOK, CleanupInv, [AnswersNext]_answersVars
  PROVE  AnswersTypeOK'
<1> USE DEF AnswersTypeOK
<1>a. /\ time \in Nat /\ due \in Nat /\ scanBy \in Nat /\ cleanupFailures \in Nat /\ MaxReports \in Nat
      /\ MaxCleanupFailures \in Nat /\ LeaseTime = 6
      /\ record \in Results
  BY AnswersNumbers
<1>l. ASSUME Lease PROVE due' \in Nat /\ scanBy' \in Nat /\ due' <= scanBy'
  BY <1>a, <1>l DEF Lease
<1>c. ASSUME CleanupFailure PROVE cleanupFailures' \in 0..MaxCleanupFailures
  BY <1>a, <1>c DEF CleanupFailure
<1>1. ASSUME StoreReport PROVE AnswersTypeOK'
  <2>1. record' \in Results
    BY <1>1, <1>a DEF StoreReport, Results
  <2>2. QED
    BY <1>1, <2>1 DEF StoreReport
<1>2. ASSUME StoreLastResult PROVE AnswersTypeOK'
  <2>1. record' \in Results
    BY <1>2, <1>a DEF StoreLastResult, Results
  <2>2. QED
    BY <1>2, <2>1 DEF StoreLastResult
<1>3. ASSUME ClaimTimedOut PROVE AnswersTypeOK'
  BY <1>3, <1>l DEF ClaimTimedOut
<1>4. ASSUME ClaimingFails PROVE AnswersTypeOK'
  <2>1. due' \in Nat /\ scanBy' \in Nat /\ due' <= scanBy'
    <3>1. CASE Lease
      BY <1>l, <3>1
    <3>2. CASE scanBy' = time + 1 /\ UNCHANGED due
      BY <1>4, <1>a, <3>2 DEF ClaimingFails
    <3>3. QED
      BY <1>4, <3>1, <3>2 DEF ClaimingFails
  <2>2. QED
    BY <1>4, <1>c, <2>1 DEF ClaimingFails
<1>5. ASSUME FinishTimedOut PROVE AnswersTypeOK'
  <2>1. record' \in Results
    BY <1>5, <1>a DEF FinishTimedOut, Results
  <2>2. QED
    BY <1>5, <2>1 DEF FinishTimedOut
<1>6. ASSUME MarkingFails PROVE AnswersTypeOK'
  BY <1>6, <1>c DEF MarkingFails
<1>7. ASSUME Flight, UNCHANGED <<time, createdAt, record, due, scanBy, claim, cleanupFailures>>,
             asking' \in Encodings \cup {NoReply}
      PROVE AnswersTypeOK'
  BY <1>7, <1>a, FlightFields
<1>8. ASSUME StartFlight \/ \E e \in Encodings : Get(e) PROVE AnswersTypeOK'
  BY <1>8, <1>7 DEF StartFlight, Get
<1>9. ASSUME Answer \/ ReadFails PROVE AnswersTypeOK'
  BY <1>9 DEF Answer, ReadFails
<1>10. ASSUME PassTime PROVE AnswersTypeOK'
  <2>1. time' \in createdAt..EndOfTime /\ time' - 1 = time
    BY <1>10, AnswersNumbers DEF PassTime
  <2>2. claim' = NoReply \/ claim' \in {time', time' - 1}
    BY <1>10, <2>1 DEF PassTime
  <2>3. flight' = NoReply \/ (flight'.results \in Results /\ flight'.since \in {time', time' - 1})
    BY <1>10, <2>1 DEF PassTime
  <2>4. QED
    BY <1>10, <2>1, <2>2, <2>3 DEF PassTime
<1>11. ASSUME UNCHANGED answersVars PROVE AnswersTypeOK'
  BY <1>11 DEF answersVars
<1>12. QED
  BY <1>1, <1>2, <1>3, <1>4, <1>5, <1>6, <1>8, <1>9, <1>10, <1>11 DEF AnswersNext

\* A failure postpones the cleanup, but not by more than the deadline allows.
LEMMA CleanupStep ==
  ASSUME AnswersTypeOK, CleanupInv, [AnswersNext]_answersVars
  PROVE  CleanupInv'
<1> DEFINE D == Deadline(cleanupFailures)
<1>a. /\ time \in Nat /\ scanBy \in Nat /\ D \in Nat /\ LeaseTime = 6 /\ NoReply \notin Nat
      /\ Deadline(cleanupFailures + 1) = D + LeaseTime + 1
      /\ claim # NoReply => claim \in Int /\ claim <= time /\ time <= claim + 1
  BY AnswersNumbers, NoReplyAssumption
<1>b. /\ ~record.finished => time <= scanBy
      /\ ~record.finished /\ claim = NoReply => scanBy <= D
      /\ ~record.finished /\ claim # NoReply => claim <= D /\ scanBy = claim + LeaseTime + 1
  BY DEF CleanupInv
<1>d. createdAt' = createdAt /\ cleanupFailures' = cleanupFailures => Deadline(cleanupFailures)' = D
  BY DEF Deadline
<1>e. createdAt' = createdAt /\ cleanupFailures' = cleanupFailures + 1 =>
        Deadline(cleanupFailures)' = D + LeaseTime + 1
  BY <1>a DEF Deadline
<1> HIDE DEF D
<1>f. ASSUME UNCHANGED <<time, createdAt, due, scanBy, claim, cleanupFailures>>,
             record'.finished \/ record'.finished = record.finished
      PROVE  CleanupInv'
  BY <1>b, <1>d, <1>f DEF CleanupInv
<1>1. ASSUME StoreReport \/ StoreLastResult PROVE CleanupInv'
  <2>1. record'.finished \/ record'.finished = record.finished
    BY <1>1 DEF StoreReport, StoreLastResult, AnswersTypeOK, Results
  <2>2. QED
    BY <1>1, <1>f, <2>1 DEF StoreReport, StoreLastResult
<1>2. ASSUME ClaimTimedOut PROVE CleanupInv'
  <2>1. /\ claim' = time /\ time' = time /\ scanBy' = time + LeaseTime + 1 /\ ~record.finished /\ claim = NoReply
    BY <1>2, <1>a DEF ClaimTimedOut, Lease
  <2>2. Deadline(cleanupFailures)' = D
    BY <1>2, <1>d DEF ClaimTimedOut
  <2>3. time' <= scanBy' /\ claim' # NoReply /\ claim' <= D /\ scanBy' = claim' + LeaseTime + 1
    BY <1>a, <1>b, <2>1
  <2>4. QED
    BY <2>2, <2>3, <2>1, <1>a DEF CleanupInv, LeaseTime
<1>3. ASSUME ClaimingFails PROVE CleanupInv'
  <2>1. /\ claim' = NoReply /\ time' = time /\ ~record.finished /\ claim = NoReply
        /\ scanBy' = time + LeaseTime + 1 \/ scanBy' = time + 1
    BY <1>3, <1>a DEF ClaimingFails, Lease
  <2>2. Deadline(cleanupFailures)' = D + LeaseTime + 1
    BY <1>3, <1>e DEF ClaimingFails, CleanupFailure
  <2>3. time' <= scanBy' /\ scanBy' <= D + LeaseTime + 1
    BY <1>a, <1>b, <2>1
  <2>4. QED
    BY <2>1, <2>2, <2>3 DEF CleanupInv
<1>4. ASSUME FinishTimedOut PROVE CleanupInv'
  <2>1. record'.finished
    BY <1>4 DEF FinishTimedOut, AnswersTypeOK, Results
  <2>2. QED
    BY <2>1 DEF CleanupInv
<1>5. ASSUME MarkingFails PROVE CleanupInv'
  <2>1. claim # NoReply /\ claim' = NoReply /\ UNCHANGED <<time, record, scanBy>>
    BY <1>5 DEF MarkingFails
  <2>2. Deadline(cleanupFailures)' = D + LeaseTime + 1
    BY <1>5, <1>e DEF MarkingFails, CleanupFailure
  <2>3. ~record.finished => time <= scanBy /\ scanBy <= D + LeaseTime + 1
    BY <1>a, <1>b, <2>1
  <2>4. QED
    BY <2>1, <2>2, <2>3 DEF CleanupInv
<1>6. ASSUME StartFlight \/ Answer \/ ReadFails \/ \E e \in Encodings : Get(e) PROVE CleanupInv'
  BY <1>6, <1>f DEF StartFlight, Answer, ReadFails, Get
<1>7. ASSUME PassTime PROVE CleanupInv'
  <2>1. UNCHANGED <<createdAt, record, due, scanBy, claim, cleanupFailures>> /\ time' = time + 1
        /\ (~record.finished => time < scanBy)
    BY <1>7 DEF PassTime
  <2>2. ~record.finished => time' <= scanBy
    BY <1>a, <2>1
  <2>3. QED
    BY <1>b, <1>d, <2>1, <2>2 DEF CleanupInv
<1>8. ASSUME UNCHANGED answersVars PROVE CleanupInv'
  BY <1>8, <1>f DEF answersVars
<1>9. QED
  BY <1>1, <1>2, <1>3, <1>4, <1>5, <1>6, <1>7, <1>8 DEF AnswersNext

\* What is finished stays as it is.
LEMMA LastWord ==
  ASSUME AnswersTypeOK, [AnswersNext]_answersVars, record.finished
  PROVE  record' = record
<1>1. ASSUME FinishTimedOut PROVE record' = record
  <2>1. record' = [record EXCEPT !.finished = TRUE]
    BY <1>1 DEF FinishTimedOut
  <2>2. QED
    BY <2>1 DEF AnswersTypeOK, Results
<1>2. QED
  BY <1>1 DEF AnswersNext, answersVars, StoreReport, StoreLastResult, ClaimTimedOut, ClaimingFails,
              MarkingFails, StartFlight, Answer, ReadFails, PassTime, Get

\* A read that is under way stays right, or early.
LEMMA FlightStep ==
  ASSUME AnswersTypeOK, CleanupInv, FlightInv, [AnswersNext]_answersVars
  PROVE  FlightInv'
<1> DEFINE D == Deadline(cleanupFailures)
<1>a. /\ time \in Nat /\ scanBy \in Nat /\ D \in Nat /\ LeaseTime = 6
      /\ claim # NoReply => claim \in Int /\ claim <= time /\ time <= claim + 1
      /\ flight # NoReply => flight.since \in Int
  BY AnswersNumbers
<1>b. ~record.finished => time <= D + 1
  <2>1. /\ ~record.finished => time <= scanBy
        /\ ~record.finished /\ claim = NoReply => scanBy <= D
        /\ ~record.finished /\ claim # NoReply => claim <= D
    BY DEF CleanupInv
  <2> HIDE DEF D
  <2>2. QED
    BY <1>a, <2>1
<1>c. /\ Deadline(cleanupFailures)' \in Nat
      /\ D <= Deadline(cleanupFailures)'
  <2>1. createdAt' = createdAt /\ cleanupFailures' \in {cleanupFailures, cleanupFailures + 1}
    BY DEF AnswersNext, answersVars, StoreReport, StoreLastResult, ClaimTimedOut, ClaimingFails, CleanupFailure,
           FinishTimedOut, MarkingFails, StartFlight, Answer, ReadFails, PassTime, Get
  <2>2. QED
    BY <2>1, AnswersNumbers DEF Deadline
<1> HIDE DEF D
<1>1. ASSUME flight' # NoReply, flight' = flight PROVE FlightInv'
  <2>1. CASE flight.results.finished
    <3>1. flight.results = record /\ record.finished
      BY <1>1, <2>1 DEF FlightInv
    <3>2. QED
      BY <1>1, <2>1, <3>1, LastWord DEF FlightInv
  <2>2. CASE ~flight.results.finished
    <3>1. flight.since <= D + 1
      BY <1>1, <2>2 DEF FlightInv, D
    <3>2. flight.since <= Deadline(cleanupFailures)' + 1
      BY <1>1, <1>a, <1>c, <3>1
    <3>3. QED
      BY <1>1, <2>2, <3>2 DEF FlightInv
  <2>3. QED
    BY <2>1, <2>2
<1>2. ASSUME Flight, record' = record PROVE FlightInv'
  <2>1. CASE flight = NoReply
    <3>1. flight'.results = record /\ flight'.since = time
      BY <1>2, <2>1, FlightFields
    <3>2. ~record.finished => time <= Deadline(cleanupFailures)' + 1
      BY <1>a, <1>b, <1>c
    <3>3. QED
      BY <1>2, <3>1, <3>2 DEF FlightInv
  <2>2. CASE flight # NoReply
    BY <1>1, <1>2, <2>2, FlightFields
  <2>3. QED
    BY <2>1, <2>2
<1>3. ASSUME flight' = NoReply PROVE FlightInv'
  BY <1>3 DEF FlightInv
<1>4. QED
  BY <1>1, <1>2, <1>3
  DEF AnswersNext, answersVars, StoreReport, StoreLastResult, ClaimTimedOut, ClaimingFails,
      FinishTimedOut, MarkingFails, StartFlight, Answer, ReadFails, PassTime, Get

\* Whole minutes.
LEMMA WholeMinutes ==
  ASSUME NEW a \in Nat, NEW b \in Nat \ {0}
  PROVE  (a \div b) * b \in Nat /\ a < (a \div b) * b + b
<1>1. a \div b \in Nat
  OBVIOUS
<1>2. (a \div b) * b \in Nat
  BY <1>1
<1>3. a < (a \div b) * b + b
  OBVIOUS
<1>4. QED
  BY <1>2, <1>3

\* The clock of the id is behind by less than a minute.
LEMMA StableIsOld ==
  ASSUME AnswersTypeOK, IsStableMeasurement
  PROVE  StableAge + createdAt < time + Minute
<1> DEFINE start == (createdAt \div Minute) * Minute
<1>1. GenerateMeasurementId(createdAt).minutesSinceEpoch = createdAt \div Minute
  BY DEF GenerateMeasurementId, ToIdTimestamp
<1>2. time - start >= StableAge
  BY <1>1 DEF IsStableMeasurement
<1>3. /\ createdAt \in Nat /\ time \in Nat /\ StableAge \in Nat /\ Minute \in Nat \ {0}
  BY AnswersNumbers
<1>4. start \in Nat /\ createdAt < start + Minute
  BY <1>3, WholeMinutes
<1> HIDE DEF start
<1>5. QED
  BY <1>2, <1>3, <1>4

\* What a client keeps is what the tag says, and it is kept for good only when the read was late.
LEMMA KeptStep ==
  ASSUME AnswersTypeOK, FlightInv, KeptInv, [AnswersNext]_answersVars
  PROVE  KeptInv'
<1>1. ASSUME kept' = kept PROVE KeptInv'
  <2>1. CASE kept = NoReply
    BY <1>1, <2>1 DEF KeptInv
  <2>2. CASE kept # NoReply
    <3>1. /\ kept.tag = ETag(kept.body)
          /\ kept.body.results.finished => kept.body.results = record
          /\ kept.immutable => kept.body.results.finished
      BY <2>2 DEF KeptInv
    <3>2. kept.body.results.finished => kept.body.results = record'
      BY <3>1, LastWord
    <3>3. QED
      BY <1>1, <3>1, <3>2 DEF KeptInv, ETag
  <2>3. QED
    BY <2>1, <2>2
<1>2. ASSUME Answer, asking # NoReply PROVE KeptInv'
  <2> DEFINE body == Compressed(flight.results, asking)
             tag == ETag(body)
  <2>1. /\ flight # NoReply /\ record' = record
        /\ kept' = [body |-> IF IsFresh(tag) THEN kept.body ELSE body, tag |-> tag, immutable |-> IsStableMeasurement]
    BY <1>2 DEF Answer
  <2>2. IsFresh(tag) => kept.body = body
    <3>1. IsFresh(tag) => kept # NoReply /\ kept.tag = tag
      BY DEF IsFresh
    <3>2. QED
      BY <3>1 DEF KeptInv, ETag
  <2>3. body.results = flight.results
    BY DEF Compressed
  <2>4. kept'.body = body /\ kept'.tag = tag /\ kept'.immutable = IsStableMeasurement
    BY <2>1, <2>2
  <2>5. flight.results.finished => flight.results = record
    BY <2>1 DEF FlightInv
  <2>6. ASSUME IsStableMeasurement, ~flight.results.finished PROVE FALSE
    <3> DEFINE k == cleanupFailures
    <3>1. flight.since <= Deadline(cleanupFailures) + 1
      BY <2>1, <2>6 DEF FlightInv
    <3>2. flight.since <= createdAt + TestTimeout + 1 + 7 * k + 1 /\ k <= MaxCleanupFailures
      BY <3>1, AnswersNumbers DEF Deadline, LeaseTime
    <3>3. TestTimeout + 7 * MaxCleanupFailures + 3 + Minute <= StableAge
      BY StableAssumption, AnswersNumbers DEF LeaseTime
    <3>4. StableAge + createdAt < time + Minute
      BY <2>6, StableIsOld
    <3>5. time <= flight.since + 1 /\ flight.since \in Int
      BY <2>1, AnswersNumbers
    <3>6. /\ k \in Nat /\ createdAt \in Nat /\ TestTimeout \in Nat /\ MaxCleanupFailures \in Nat /\ Minute \in Nat
          /\ StableAge \in Nat /\ time \in Nat
      BY AnswersNumbers
    <3> HIDE DEF k
    <3>7. QED
      BY <3>2, <3>3, <3>4, <3>5, <3>6
  <2> HIDE DEF body, tag
  <2>7. kept'.tag = ETag(kept'.body)
    BY <2>4 DEF tag
  <2>8. QED
    BY <2>1, <2>3, <2>4, <2>5, <2>6, <2>7 DEF KeptInv, ETag
<1>3. QED
  BY <1>1, <1>2
  DEF AnswersNext, answersVars, StoreReport, StoreLastResult, ClaimTimedOut, ClaimingFails,
      FinishTimedOut, MarkingFails, StartFlight, Answer, ReadFails, PassTime, Get

\* The cleanup is in time, and reads and answers are right, whatever the clock and the failures.
THEOREM AnswersInvariant == AnswersSpec => []AnswersInv
<1>1. AnswersInit => AnswersInv
  <2> SUFFICES ASSUME AnswersInit PROVE AnswersInv
    OBVIOUS
  <2>1. createdAt \in Nat /\ createdAt <= EndOfTime /\ TestTimeout \in Nat /\ EndOfTime \in Nat
        /\ MaxReports \in Nat /\ MaxCleanupFailures \in Nat
    BY AnswersAssumption DEF AnswersInit
  <2>2. AnswersTypeOK
    BY <2>1 DEF AnswersInit, AnswersTypeOK, Results
  <2>3. CleanupInv
    BY <2>1 DEF AnswersInit, CleanupInv, Deadline, LeaseTime
  <2>4. FlightInv /\ KeptInv
    BY DEF AnswersInit, FlightInv, KeptInv
  <2>5. QED
    BY <2>2, <2>3, <2>4 DEF AnswersInv
<1>2. AnswersInv /\ [AnswersNext]_answersVars => AnswersInv'
  BY AnswersTypeStep, CleanupStep, FlightStep, KeptStep DEF AnswersInv
<1>3. QED
  BY <1>1, <1>2, PTL DEF AnswersSpec

\* What a client keeps for good is the measurement's last word, for any times and lengths of the
\* timeout, the minute and the three minutes that leave the cleanup enough time.
THEOREM ImmutableAnswersAlwaysFinal == AnswersSpec => []ImmutableAnswersAreFinal
<1>1. AnswersInv => ImmutableAnswersAreFinal
  BY DEF AnswersInv, KeptInv, ImmutableAnswersAreFinal
<1>2. QED
  BY <1>1, AnswersInvariant, PTL

-------------------------------------------------------------------------------
(* Tokens: answers are recent *)

\* No verdict is remembered longer than an entry lives after the slowest query.
Reach == TokenTTL + MaxQuery

\* Of every verdict that is remembered, read or given now the table gave it as recently as the life
\* of what remembers it tells.
TokenRecent(t) ==
  /\ agoOf[t][granted[t]] = 0
  /\ valid[t] > 0 => agoOf[t]["valid"] + valid[t] <= Reach
  /\ invalid[t] > 0 => agoOf[t]["invalid"] + invalid[t] <= Reach
  /\ all # NoVerdict => agoOf[t][all.read[t]] <= all.age

LookupRecent(q) ==
  lookup[q] # NoVerdict /\ lookup[q].read # NoVerdict =>
    agoOf[lookup[q].token][lookup[q].read] <= lookup[q].age

StampRecent(q) ==
  stamp[q] # NoVerdict => agoOf[stamp[q].token]["valid"] <= Reach + stamp[q].age

RecentInv == (\A t \in AccessTokens : TokenRecent(t)) /\ (\A q \in AuthRequests : LookupRecent(q) /\ StampRecent(q))

TokensInv == TokensTypeOK /\ RecentInv

\* Lives and ages are numbers.
LEMMA TokensNumbers ==
  ASSUME TokensTypeOK
  PROVE  /\ TokenTTL \in Nat /\ MaxQuery \in Nat /\ Horizon \in Nat /\ Reach \in Nat
         /\ Reach = TokenTTL + MaxQuery /\ Horizon = Reach + MaxQuery
         /\ TokenTTL > 0 /\ NoVerdict \notin Verdicts
         /\ \A t \in AccessTokens : /\ valid[t] \in Nat /\ invalid[t] \in Nat /\ granted[t] \in Verdicts
                                     /\ \A v \in Verdicts : agoOf[t][v] \in Nat
         /\ all # NoVerdict => all \in All /\ all.age \in Nat /\ all.age <= MaxQuery
                               /\ \A t \in AccessTokens : all.read[t] \in Verdicts
         /\ \A q \in AuthRequests : lookup[q] # NoVerdict =>
              /\ lookup[q] \in Lookup /\ lookup[q].token \in AccessTokens
              /\ lookup[q].read \in Verdicts \cup {NoVerdict}
              /\ lookup[q].age \in Nat /\ lookup[q].age <= MaxQuery
         /\ \A q \in AuthRequests : stamp[q] # NoVerdict =>
              /\ stamp[q] \in Stamp /\ stamp[q].token \in AccessTokens
              /\ stamp[q].age \in Nat /\ stamp[q].age <= MaxQuery
<1>1. /\ TokenTTL \in Nat /\ MaxQuery \in Nat /\ Horizon \in Nat /\ Reach \in Nat
      /\ Reach = TokenTTL + MaxQuery /\ Horizon = Reach + MaxQuery /\ TokenTTL > 0
  BY TokensAssumption DEF Horizon, Reach
<1>2. ASSUME NEW t \in AccessTokens
      PROVE  /\ valid[t] \in Nat /\ invalid[t] \in Nat /\ granted[t] \in Verdicts
             /\ \A v \in Verdicts : agoOf[t][v] \in Nat
  BY <1>1 DEF TokensTypeOK
<1>3. all # NoVerdict => all \in All /\ all.age \in Nat /\ all.age <= MaxQuery
                          /\ \A t \in AccessTokens : all.read[t] \in Verdicts
  BY <1>1 DEF TokensTypeOK, All, Ages
<1>4. ASSUME NEW q \in AuthRequests, lookup[q] # NoVerdict
      PROVE  /\ lookup[q] \in Lookup /\ lookup[q].token \in AccessTokens
             /\ lookup[q].read \in Verdicts \cup {NoVerdict}
             /\ lookup[q].age \in Nat /\ lookup[q].age <= MaxQuery
  <2>1. lookup[q] \in Lookup
    BY <1>4 DEF TokensTypeOK
  <2>2. QED
    BY <1>1, <2>1 DEF Lookup, Ages
<1>5. ASSUME NEW q \in AuthRequests, stamp[q] # NoVerdict
      PROVE  /\ stamp[q] \in Stamp /\ stamp[q].token \in AccessTokens
             /\ stamp[q].age \in Nat /\ stamp[q].age <= MaxQuery
  <2>1. stamp[q] \in Stamp
    BY <1>5 DEF TokensTypeOK
  <2>2. QED
    BY <1>1, <2>1 DEF Stamp, Ages
<1>6. QED
  BY <1>1, <1>2, <1>3, <1>4, <1>5, NoVerdictAssumption

\* A valid token is accepted or refused at once, or its use is written first.
LEMMA AcceptKeepsTypes ==
  ASSUME TokensTypeOK, NEW q \in AuthRequests, NEW t \in AccessTokens, Accept(q, t)
  PROVE  /\ stamp' \in [AuthRequests -> Stamp \cup {NoVerdict}]
         /\ answer' \in [AuthRequests -> {NoVerdict} \cup (AccessTokens \X (Verdicts \cup {"failed"}))]
<1>1. [token |-> t, age |-> 0] \in Stamp
  BY TokensNumbers DEF Stamp, Ages
<1>2. CASE \E v \in {"valid", "failed"} : Give(q, t, v)
  BY <1>2 DEF TokensTypeOK, Give, Verdicts
<1>3. CASE stamp' = [stamp EXCEPT ![q] = [token |-> t, age |-> 0]] /\ UNCHANGED answer
  BY <1>1, <1>3 DEF TokensTypeOK
<1>4. QED
  BY <1>2, <1>3 DEF Accept

\* What the other requests are doing is left alone.
LEMMA AcceptIsLocal ==
  ASSUME TokensTypeOK, NEW q \in AuthRequests, NEW t \in AccessTokens, Accept(q, t)
  PROVE  /\ \A r \in AuthRequests \ {q} : stamp'[r] = stamp[r] /\ answer'[r] = answer[r]
         /\ stamp'[q] \in {stamp[q], [token |-> t, age |-> 0]}
         /\ answer'[q] \in {answer[q], <<t, "valid">>, <<t, "failed">>}
BY DEF TokensTypeOK, Accept, Give

\* Every step keeps the types.
LEMMA TokensTypeStep ==
  ASSUME TokensTypeOK, [TokensNext]_tokensVars
  PROVE  TokensTypeOK'
<1> USE DEF TokensTypeOK
<1>a. TokenTTL \in Nat /\ MaxQuery \in Nat /\ Horizon \in Nat /\ TokenTTL > 0
  BY TokensNumbers
<1>b. 0 \in 0..TokenTTL /\ TokenTTL \in 0..TokenTTL /\ 0 \in Ages /\ 0 \in 0..(Horizon + 1)
  BY <1>a DEF Ages
<1>1. ASSUME NEW t \in AccessTokens, Revise(t) PROVE TokensTypeOK'
  <2>1. PICK v \in Verdicts : /\ granted' = [granted EXCEPT ![t] = v]
                               /\ agoOf' = [agoOf EXCEPT ![t][v] = 0]
    BY <1>1 DEF Revise
  <2>2. granted' \in [AccessTokens -> Verdicts]
    BY <2>1
  <2>3. agoOf' \in [AccessTokens -> [Verdicts -> 0..(Horizon + 1)]]
    <3>1. [agoOf[t] EXCEPT ![v] = 0] \in [Verdicts -> 0..(Horizon + 1)]
      BY <1>b
    <3>2. agoOf' = [agoOf EXCEPT ![t] = [agoOf[t] EXCEPT ![v] = 0]]
      BY <2>1
    <3>3. QED
      BY <3>1, <3>2
  <2>4. QED
    BY <1>1, <2>2, <2>3 DEF Revise
<1>2. ASSUME Tick PROVE TokensTypeOK'
  <2>1. \A n \in 0..TokenTTL : Shorter(n) \in 0..TokenTTL
    BY <1>a DEF Shorter
  <2>2. \A n \in 0..(Horizon + 1) : Older(n, Horizon + 1) \in 0..(Horizon + 1)
    BY <1>a DEF Older
  <2>3. valid' \in [AccessTokens -> 0..TokenTTL] /\ invalid' \in [AccessTokens -> 0..TokenTTL]
    BY <1>2, <2>1 DEF Tick
  <2>4. agoOf' \in [AccessTokens -> [Verdicts -> 0..(Horizon + 1)]]
    BY <1>2, <1>b, <2>2 DEF Tick
  <2>5. all' \in All \cup {NoVerdict}
    <3>1. CASE all = NoVerdict
      BY <1>2, <3>1 DEF Tick
    <3>2. CASE all # NoVerdict
      <4>1. all \in All /\ all.age + 1 \in Ages
        BY <1>2, <1>a, <3>2, TokensNumbers DEF Tick, Queries, Ages
      <4>2. all' = [all EXCEPT !.age = all.age + 1]
        BY <1>2, <3>2 DEF Tick
      <4>3. QED
        BY <4>1, <4>2 DEF All
    <3>3. QED
      BY <3>1, <3>2
  <2>6. lookup' \in [AuthRequests -> Lookup \cup {NoVerdict}]
    <3>1. ASSUME NEW q \in AuthRequests, lookup[q] # NoVerdict
          PROVE  [lookup[q] EXCEPT !.age = lookup[q].age + 1] \in Lookup
      <4>1. lookup[q] \in Lookup /\ lookup[q].age + 1 \in Ages
        BY <1>2, <1>a, <3>1, TokensNumbers DEF Tick, Queries, Ages
      <4>2. QED
        BY <4>1 DEF Lookup
    <3>2. QED
      BY <1>2, <3>1 DEF Tick, Aged
  <2>7. stamp' \in [AuthRequests -> Stamp \cup {NoVerdict}]
    <3>1. ASSUME NEW q \in AuthRequests, stamp[q] # NoVerdict
          PROVE  [stamp[q] EXCEPT !.age = stamp[q].age + 1] \in Stamp
      <4>1. stamp[q] \in Stamp /\ stamp[q].age + 1 \in Ages
        BY <1>2, <1>a, <3>1, TokensNumbers DEF Tick, Queries, Ages
      <4>2. QED
        BY <4>1 DEF Stamp
    <3>2. QED
      BY <1>2, <3>1 DEF Tick, Aged
  <2>8. QED
    BY <1>2, <2>3, <2>4, <2>5, <2>6, <2>7 DEF Tick
<1>3. ASSUME ReadAll PROVE TokensTypeOK'
  <2>1. all' \in All
    BY <1>3, <1>b DEF ReadAll, All
  <2>2. QED
    BY <1>3, <2>1 DEF ReadAll
<1>4. ASSUME ReplaceCaches PROVE TokensTypeOK'
  <2>1. valid' \in [AccessTokens -> 0..TokenTTL] /\ invalid' \in [AccessTokens -> 0..TokenTTL]
    BY <1>4, <1>b DEF ReplaceCaches
  <2>2. QED
    BY <1>4, <2>1 DEF ReplaceCaches
<1>5. ASSUME SyncTokensFails \/ UNCHANGED tokensVars PROVE TokensTypeOK'
  BY <1>5 DEF SyncTokensFails, tokensVars
<1>6. ASSUME NEW q \in AuthRequests, NEW t \in AccessTokens, AnswerFromCache(q, t) PROVE TokensTypeOK'
  <2>1. CASE Give(q, t, "invalid")
    BY <1>6, <2>1 DEF AnswerFromCache, Give, Verdicts
  <2>2. CASE Accept(q, t)
    BY <1>6, <2>2, AcceptKeepsTypes DEF AnswerFromCache
  <2>3. QED
    BY <1>6, <2>1, <2>2 DEF AnswerFromCache
<1>7. ASSUME NEW q \in AuthRequests, NEW t \in AccessTokens, LookUp(q, t) PROVE TokensTypeOK'
  <2>1. [token |-> t, read |-> NoVerdict, age |-> 0] \in Lookup
    BY <1>b DEF Lookup
  <2>2. QED
    BY <1>7, <2>1 DEF LookUp
<1>8. ASSUME NEW q \in AuthRequests, ReadToken(q) PROVE TokensTypeOK'
  <2>1. lookup[q] # NoVerdict /\ lookup[q] \in Lookup /\ granted[lookup[q].token] \in Verdicts
    BY <1>8, TokensNumbers DEF ReadToken
  <2>2. [lookup[q] EXCEPT !.read = granted[lookup[q].token]] \in Lookup
    BY <2>1 DEF Lookup
  <2>3. lookup' = [lookup EXCEPT ![q] = [lookup[q] EXCEPT !.read = granted[lookup[q].token]]]
    BY <1>8 DEF ReadToken
  <2>4. QED
    BY <1>8, <2>2, <2>3 DEF ReadToken
<1>9. ASSUME NEW q \in AuthRequests, AnswerFromTable(q) PROVE TokensTypeOK'
  <2>1. lookup[q] # NoVerdict /\ lookup[q].token \in AccessTokens /\ lookup[q].read \in Verdicts
    BY <1>9, TokensNumbers DEF AnswerFromTable
  <2>2. valid' \in [AccessTokens -> 0..TokenTTL] /\ invalid' \in [AccessTokens -> 0..TokenTTL]
    BY <1>9, <1>b, <2>1 DEF AnswerFromTable, Remember
  <2>3. CASE Give(q, lookup[q].token, "invalid")
    BY <1>9, <2>1, <2>2, <2>3 DEF AnswerFromTable, Give, Verdicts
  <2>4. CASE Accept(q, lookup[q].token)
    BY <1>9, <2>1, <2>2, <2>4, AcceptKeepsTypes DEF AnswerFromTable
  <2>5. QED
    BY <1>9, <2>3, <2>4 DEF AnswerFromTable
<1>10. ASSUME NEW q \in AuthRequests, LookUpFails(q) PROVE TokensTypeOK'
  <2>1. lookup[q].token \in AccessTokens
    BY <1>10, TokensNumbers DEF LookUpFails
  <2>2. QED
    BY <1>10, <2>1 DEF LookUpFails, Give
<1>11. ASSUME NEW q \in AuthRequests, AnswerAfterUpdate(q) PROVE TokensTypeOK'
  <2>1. stamp[q].token \in AccessTokens
    BY <1>11, TokensNumbers DEF AnswerAfterUpdate
  <2>2. QED
    BY <1>11, <2>1 DEF AnswerAfterUpdate, Verdicts
<1>12. QED
  BY <1>1, <1>2, <1>3, <1>4, <1>5, <1>6, <1>7, <1>8, <1>9, <1>10, <1>11 DEF TokensNext

\* Every step keeps what is remembered recent.
LEMMA TokenStep ==
  ASSUME TokensTypeOK, RecentInv, [TokensNext]_tokensVars, NEW t \in AccessTokens
  PROVE  TokenRecent(t)'
<1> USE DEF TokenRecent
<1>a. TokenRecent(t)
  BY DEF RecentInv
<1>b. /\ TokenTTL \in Nat /\ MaxQuery \in Nat /\ Reach = TokenTTL + MaxQuery
      /\ Horizon = Reach + MaxQuery /\ valid[t] \in Nat /\ invalid[t] \in Nat /\ granted[t] \in Verdicts
      /\ \A v \in Verdicts : agoOf[t][v] \in Nat
      /\ all # NoVerdict => all.age \in Nat /\ all.age <= MaxQuery /\ all.read[t] \in Verdicts
      /\ Verdicts = {"valid", "invalid"}
  BY TokensNumbers DEF Verdicts
<1>f. ASSUME UNCHANGED <<granted, agoOf, valid, invalid>>, all' \in {all, NoVerdict} PROVE TokenRecent(t)'
  BY <1>a, <1>f
<1>1. ASSUME NEW u \in AccessTokens, Revise(u) PROVE TokenRecent(t)'
  <2>1. PICK v \in Verdicts : /\ granted' = [granted EXCEPT ![u] = v]
                               /\ agoOf' = [agoOf EXCEPT ![u][v] = 0]
    BY <1>1 DEF Revise
  <2>2. UNCHANGED <<valid, invalid, all>>
    BY <1>1 DEF Revise
  <2>3. \A w \in Verdicts : agoOf'[t][w] = IF u = t /\ w = v THEN 0 ELSE agoOf[t][w]
    BY <2>1 DEF TokensTypeOK
  <2>4. \A w \in Verdicts : agoOf'[t][w] \in Nat /\ agoOf'[t][w] <= agoOf[t][w]
    BY <1>b, <2>3
  <2>5. agoOf'[t][granted'[t]] = 0
    BY <1>a, <1>b, <2>1, <2>3 DEF TokensTypeOK
  <2>6. all # NoVerdict => agoOf'[t][all.read[t]] <= all.age
    BY <1>a, <1>b, <2>4
  <2>7. valid[t] > 0 => agoOf'[t]["valid"] + valid[t] <= Reach
    BY <1>a, <1>b, <2>4
  <2>8. invalid[t] > 0 => agoOf'[t]["invalid"] + invalid[t] <= Reach
    BY <1>a, <1>b, <2>4
  <2>9. QED
    BY <2>2, <2>5, <2>6, <2>7, <2>8
<1>2. ASSUME Tick PROVE TokenRecent(t)'
  <2>1. \A w \in Verdicts : agoOf'[t][w] = IF granted[t] = w THEN 0 ELSE Older(agoOf[t][w], Horizon + 1)
    BY <1>2 DEF Tick
  <2>2. \A w \in Verdicts : agoOf'[t][w] \in Nat /\ agoOf'[t][w] <= agoOf[t][w] + 1
    BY <1>b, <2>1 DEF Older
  <2>3. granted' = granted /\ valid'[t] = Shorter(valid[t]) /\ invalid'[t] = Shorter(invalid[t])
    BY <1>2 DEF Tick
  <2>4. agoOf'[t][granted'[t]] = 0
    BY <1>b, <2>1, <2>3
  <2>5. valid'[t] > 0 => agoOf'[t]["valid"] + valid'[t] <= Reach
    BY <1>a, <1>b, <2>2, <2>3 DEF Shorter
  <2>6. invalid'[t] > 0 => agoOf'[t]["invalid"] + invalid'[t] <= Reach
    BY <1>a, <1>b, <2>2, <2>3 DEF Shorter
  <2>7. all' # NoVerdict => agoOf'[t][all'.read[t]] <= all'.age
    <3>1. CASE all = NoVerdict
      BY <1>2, <3>1 DEF Tick
    <3>2. CASE all # NoVerdict
      <4>1. all' = [all EXCEPT !.age = all.age + 1] /\ all \in All
        BY <1>2, <3>2, TokensNumbers DEF Tick
      <4>2. all'.read = all.read /\ all'.age = all.age + 1
        BY <4>1 DEF All
      <4>3. QED
        BY <1>a, <1>b, <2>2, <3>2, <4>2
    <3>3. QED
      BY <3>1, <3>2
  <2>8. QED
    BY <2>4, <2>5, <2>6, <2>7
<1>3. ASSUME ReadAll PROVE TokenRecent(t)'
  <2>1. all'.read = granted /\ all'.age = 0 /\ UNCHANGED <<granted, agoOf, valid, invalid>>
    BY <1>3 DEF ReadAll
  <2>2. QED
    BY <1>a, <2>1
<1>4. ASSUME ReplaceCaches PROVE TokenRecent(t)'
  <2>1. /\ valid'[t] = IF all.read[t] = "valid" THEN TokenTTL ELSE 0
        /\ invalid'[t] > 0 => all.read[t] = "invalid" /\ invalid'[t] = TokenTTL
    BY <1>4 DEF ReplaceCaches
  <2>2. all # NoVerdict /\ all' = NoVerdict /\ UNCHANGED <<granted, agoOf>>
    BY <1>4 DEF ReplaceCaches
  <2>3. agoOf[t][all.read[t]] <= MaxQuery
    BY <1>a, <1>b, <2>2
  <2>4. valid'[t] > 0 => agoOf[t]["valid"] + valid'[t] <= Reach
    BY <1>b, <2>1, <2>3
  <2>5. invalid'[t] > 0 => agoOf[t]["invalid"] + invalid'[t] <= Reach
    BY <1>b, <2>1, <2>3
  <2>6. QED
    BY <1>a, <2>2, <2>4, <2>5
<1>5. ASSUME NEW q \in AuthRequests, AnswerFromTable(q) PROVE TokenRecent(t)'
  <2> DEFINE u == lookup[q].token
             v == lookup[q].read
  <2>1. lookup[q] # NoVerdict /\ u \in AccessTokens /\ v \in Verdicts /\ lookup[q].age \in Nat
        /\ lookup[q].age <= MaxQuery /\ v # NoVerdict
    BY <1>5, TokensNumbers DEF AnswerFromTable
  <2>2. agoOf[u][v] <= lookup[q].age
    BY <2>1 DEF RecentInv, LookupRecent
  <2>3. /\ valid'[t] = IF u = t /\ v = "valid" THEN TokenTTL ELSE valid[t]
        /\ invalid'[t] = IF u = t /\ v = "invalid" THEN TokenTTL ELSE invalid[t]
        /\ UNCHANGED <<granted, agoOf, all>>
    BY <1>5, <2>1 DEF AnswerFromTable, Remember, TokensTypeOK
  <2>4. u = t => agoOf[t][v] \in Nat /\ agoOf[t][v] <= MaxQuery
    BY <1>b, <2>1, <2>2
  <2> HIDE DEF u, v
  <2>5. valid'[t] > 0 => agoOf[t]["valid"] + valid'[t] <= Reach
    BY <1>a, <1>b, <2>3, <2>4
  <2>6. invalid'[t] > 0 => agoOf[t]["invalid"] + invalid'[t] <= Reach
    BY <1>a, <1>b, <2>3, <2>4
  <2>7. QED
    BY <1>a, <2>3, <2>5, <2>6
<1>6. QED
  BY <1>1, <1>2, <1>3, <1>4, <1>5, <1>f
  DEF TokensNext, tokensVars, SyncTokensFails, AnswerFromCache, LookUp, ReadToken, LookUpFails, AnswerAfterUpdate

\* Every step keeps what a request has read recent.
LEMMA LookupStep ==
  ASSUME TokensTypeOK, RecentInv, [TokensNext]_tokensVars, NEW q \in AuthRequests
  PROVE  LookupRecent(q)'
<1> USE DEF LookupRecent
<1>a. LookupRecent(q)
  BY DEF RecentInv
<1>b. lookup[q] # NoVerdict => /\ lookup[q] \in Lookup /\ lookup[q].token \in AccessTokens
                              /\ lookup[q].read \in Verdicts \cup {NoVerdict} /\ lookup[q].age \in Nat
  BY TokensNumbers
<1>c. \A t \in AccessTokens, v \in Verdicts : agoOf[t][v] \in Nat
  BY TokensNumbers
<1>f. ASSUME agoOf' = agoOf, lookup'[q] \in {lookup[q], NoVerdict} PROVE LookupRecent(q)'
  BY <1>a, <1>f
<1>1. ASSUME NEW u \in AccessTokens, Revise(u) PROVE LookupRecent(q)'
  <2>1. PICK v \in Verdicts : agoOf' = [agoOf EXCEPT ![u][v] = 0]
    BY <1>1 DEF Revise
  <2>2. lookup' = lookup
    BY <1>1 DEF Revise
  <2>3. \A t \in AccessTokens, w \in Verdicts : agoOf'[t][w] = IF u = t /\ w = v THEN 0 ELSE agoOf[t][w]
    BY <2>1 DEF TokensTypeOK
  <2>4. \A t \in AccessTokens, w \in Verdicts : agoOf'[t][w] \in Nat /\ agoOf'[t][w] <= agoOf[t][w]
    BY <1>c, <2>3
  <2>5. QED
    BY <1>a, <1>b, <1>c, <2>2, <2>4
<1>2. ASSUME Tick PROVE LookupRecent(q)'
  <2>1. \A t \in AccessTokens, w \in Verdicts :
          agoOf'[t][w] = IF granted[t] = w THEN 0 ELSE Older(agoOf[t][w], Horizon + 1)
    BY <1>2 DEF Tick
  <2>2. \A t \in AccessTokens, w \in Verdicts : agoOf'[t][w] \in Nat /\ agoOf'[t][w] <= agoOf[t][w] + 1
    BY <1>c, <2>1, TokensNumbers DEF Older
  <2>3. CASE lookup[q] = NoVerdict
    BY <1>2, <2>3 DEF Tick, Aged
  <2>4. CASE lookup[q] # NoVerdict
    <3>1. lookup'[q] = [lookup[q] EXCEPT !.age = lookup[q].age + 1]
      BY <1>2, <2>4 DEF Tick, Aged
    <3>2. lookup'[q].token = lookup[q].token /\ lookup'[q].read = lookup[q].read /\ lookup'[q].age = lookup[q].age + 1
      BY <1>b, <2>4, <3>1 DEF Lookup
    <3>3. QED
      BY <1>a, <1>b, <1>c, <2>2, <2>4, <3>2
  <2>5. QED
    BY <2>3, <2>4
<1>3. ASSUME NEW r \in AuthRequests, NEW t \in AccessTokens, LookUp(r, t) PROVE LookupRecent(q)'
  <2>1. agoOf' = agoOf /\ lookup' = [lookup EXCEPT ![r] = [token |-> t, read |-> NoVerdict, age |-> 0]]
    BY <1>3 DEF LookUp
  <2>2. CASE r = q
    <3>1. lookup'[q].read = NoVerdict
      BY <2>1, <2>2 DEF TokensTypeOK
    <3>2. QED
      BY <3>1
  <2>3. CASE r # q
    BY <1>f, <2>1, <2>3 DEF TokensTypeOK
  <2>4. QED
    BY <2>2, <2>3
<1>4. ASSUME NEW r \in AuthRequests, ReadToken(r) PROVE LookupRecent(q)'
  <2>1. agoOf' = agoOf /\ lookup' = [lookup EXCEPT ![r] = [lookup[r] EXCEPT !.read = granted[lookup[r].token]]]
        /\ lookup[r] # NoVerdict
    BY <1>4 DEF ReadToken
  <2>2. CASE r = q
    <3>1. lookup'[q] = [lookup[q] EXCEPT !.read = granted[lookup[q].token]]
      BY <2>1, <2>2 DEF TokensTypeOK
    <3>2. /\ lookup'[q].token = lookup[q].token /\ lookup'[q].age = lookup[q].age
          /\ lookup'[q].read = granted[lookup[q].token]
      BY <1>b, <2>1, <2>2, <3>1 DEF Lookup
    <3>3. agoOf[lookup[q].token][granted[lookup[q].token]] = 0
      BY <1>b, <2>1, <2>2 DEF RecentInv, TokenRecent
    <3>4. QED
      BY <1>b, <2>1, <2>2, <3>2, <3>3
  <2>3. CASE r # q
    BY <1>f, <2>1, <2>3 DEF TokensTypeOK
  <2>4. QED
    BY <2>2, <2>3
<1>5. ASSUME NEW r \in AuthRequests, AnswerFromTable(r) \/ LookUpFails(r) PROVE LookupRecent(q)'
  BY <1>5, <1>f DEF AnswerFromTable, LookUpFails, TokensTypeOK
<1>6. QED
  BY <1>1, <1>2, <1>3, <1>4, <1>5, <1>f
  DEF TokensNext, tokensVars, ReadAll, ReplaceCaches, SyncTokensFails, AnswerFromCache, AnswerAfterUpdate

\* Every step keeps recent what a request whose use is being written was accepted by.
LEMMA StampStep ==
  ASSUME TokensTypeOK, RecentInv, [TokensNext]_tokensVars, NEW q \in AuthRequests
  PROVE  StampRecent(q)'
<1> USE DEF StampRecent
<1>a. StampRecent(q)
  BY DEF RecentInv
<1>b. stamp[q] # NoVerdict => stamp[q] \in Stamp /\ stamp[q].token \in AccessTokens /\ stamp[q].age \in Nat
  BY TokensNumbers
<1>c. /\ \A t \in AccessTokens, v \in Verdicts : agoOf[t][v] \in Nat
      /\ TokenTTL \in Nat /\ MaxQuery \in Nat /\ Reach \in Nat /\ Reach = TokenTTL + MaxQuery
      /\ "valid" \in Verdicts
  BY TokensNumbers DEF Verdicts
<1>f. ASSUME agoOf' = agoOf, stamp'[q] \in {stamp[q], NoVerdict} PROVE StampRecent(q)'
  BY <1>a, <1>f
<1>g. ASSUME NEW t \in AccessTokens, agoOf' = agoOf, agoOf[t]["valid"] <= Reach,
             stamp'[q] = [token |-> t, age |-> 0]
      PROVE  StampRecent(q)'
  BY <1>c, <1>g
<1>1. ASSUME NEW u \in AccessTokens, Revise(u) PROVE StampRecent(q)'
  <2>1. PICK v \in Verdicts : agoOf' = [agoOf EXCEPT ![u][v] = 0]
    BY <1>1 DEF Revise
  <2>2. stamp' = stamp
    BY <1>1 DEF Revise
  <2>3. \A t \in AccessTokens, w \in Verdicts : agoOf'[t][w] = IF u = t /\ w = v THEN 0 ELSE agoOf[t][w]
    BY <2>1 DEF TokensTypeOK
  <2>4. \A t \in AccessTokens, w \in Verdicts : agoOf'[t][w] \in Nat /\ agoOf'[t][w] <= agoOf[t][w]
    BY <1>c, <2>3
  <2>5. QED
    BY <1>a, <1>b, <1>c, <2>2, <2>4
<1>2. ASSUME Tick PROVE StampRecent(q)'
  <2>1. \A t \in AccessTokens, w \in Verdicts :
          agoOf'[t][w] = IF granted[t] = w THEN 0 ELSE Older(agoOf[t][w], Horizon + 1)
    BY <1>2 DEF Tick
  <2>2. \A t \in AccessTokens, w \in Verdicts : agoOf'[t][w] \in Nat /\ agoOf'[t][w] <= agoOf[t][w] + 1
    BY <1>c, <2>1, TokensNumbers DEF Older
  <2>3. CASE stamp[q] = NoVerdict
    BY <1>2, <2>3 DEF Tick, Aged
  <2>4. CASE stamp[q] # NoVerdict
    <3>1. stamp'[q] = [stamp[q] EXCEPT !.age = stamp[q].age + 1]
      BY <1>2, <2>4 DEF Tick, Aged
    <3>2. stamp'[q].token = stamp[q].token /\ stamp'[q].age = stamp[q].age + 1
      BY <1>b, <2>4, <3>1 DEF Stamp
    <3>3. QED
      BY <1>a, <1>b, <1>c, <2>2, <2>4, <3>2
  <2>5. QED
    BY <2>3, <2>4
<1>3. ASSUME NEW r \in AuthRequests, NEW t \in AccessTokens, AnswerFromCache(r, t) PROVE StampRecent(q)'
  <2>1. CASE Give(r, t, "invalid")
    BY <1>3, <1>f, <2>1 DEF AnswerFromCache, Give
  <2>2. CASE valid[t] > 0 /\ Accept(r, t)
    <3>1. agoOf[t]["valid"] <= Reach
      <4>1. TokenRecent(t) /\ valid[t] \in Nat
        BY TokensNumbers DEF RecentInv
      <4>2. QED
        BY <1>c, <2>2, <4>1 DEF TokenRecent
    <3>2. stamp'[q] \in {stamp[q], [token |-> t, age |-> 0]}
      BY <2>2, AcceptIsLocal
    <3>3. agoOf' = agoOf
      BY <1>3 DEF AnswerFromCache
    <3>4. QED
      BY <1>f, <1>g, <3>1, <3>2, <3>3
  <2>3. QED
    BY <1>3, <2>1, <2>2 DEF AnswerFromCache
<1>4. ASSUME NEW r \in AuthRequests, AnswerFromTable(r) PROVE StampRecent(q)'
  <2>1. CASE Give(r, lookup[r].token, "invalid")
    BY <1>4, <1>f, <2>1 DEF AnswerFromTable, Give
  <2>2. CASE lookup[r].read = "valid" /\ Accept(r, lookup[r].token)
    <3>1. lookup[r] # NoVerdict /\ lookup[r].read # NoVerdict
      BY <1>4 DEF AnswerFromTable
    <3>2. lookup[r].token \in AccessTokens /\ lookup[r].age \in Nat /\ lookup[r].age <= MaxQuery
      BY <3>1, TokensNumbers
    <3>3. agoOf[lookup[r].token]["valid"] <= Reach
      <4>1. agoOf[lookup[r].token]["valid"] <= lookup[r].age
        BY <2>2, <3>1 DEF RecentInv, LookupRecent
      <4>2. QED
        BY <1>c, <3>2, <4>1
    <3>4. stamp'[q] \in {stamp[q], [token |-> lookup[r].token, age |-> 0]}
      BY <2>2, <3>2, AcceptIsLocal
    <3>5. agoOf' = agoOf
      BY <1>4 DEF AnswerFromTable
    <3>6. QED
      BY <1>f, <1>g, <3>2, <3>3, <3>4, <3>5
  <2>3. QED
    BY <1>4, <2>1, <2>2 DEF AnswerFromTable
<1>5. ASSUME NEW r \in AuthRequests, AnswerAfterUpdate(r) PROVE StampRecent(q)'
  BY <1>5, <1>f DEF AnswerAfterUpdate, TokensTypeOK
<1>6. QED
  BY <1>1, <1>2, <1>3, <1>4, <1>5, <1>f
  DEF TokensNext, tokensVars, ReadAll, ReplaceCaches, SyncTokensFails, LookUp, ReadToken, LookUpFails, Give

\* What is remembered and read is recent, whatever overtakes what.
THEOREM TokensInvariant == TokensSpec => []TokensInv
<1>1. TokensInit => TokensInv
  <2> SUFFICES ASSUME TokensInit PROVE TokensInv
    OBVIOUS
  <2>1. /\ TokenTTL \in Nat /\ MaxQuery \in Nat /\ Reach = TokenTTL + MaxQuery /\ Horizon \in Nat
        /\ Horizon = Reach + MaxQuery
    BY TokensAssumption DEF Horizon, Reach
  <2>2. TokensTypeOK
    BY <2>1 DEF TokensInit, TokensTypeOK
  <2>3. ASSUME NEW t \in AccessTokens PROVE TokenRecent(t)
    BY <2>1 DEF TokensInit, TokenRecent, Verdicts
  <2>4. QED
    BY <2>2, <2>3 DEF TokensInit, TokensInv, RecentInv, LookupRecent, StampRecent
<1>2. TokensInv /\ [TokensNext]_tokensVars => TokensInv'
  BY TokensTypeStep, TokenStep, LookupStep, StampStep DEF TokensInv, RecentInv
<1>3. QED
  BY <1>1, <1>2, PTL DEF TokensSpec

\* No request is accepted or refused by a verdict that the table has not given for longer than an
\* entry lives after the slowest query and the slowest write of a date, for any tokens, requests
\* and lives.
THEOREM AnswersAlwaysRecent == TokensSpec => AnswersAreRecent
<1> DEFINE A == TokensTypeOK /\ \A q \in AuthRequests, t \in AccessTokens, v \in Verdicts :
                  answer[q] = NoVerdict /\ answer'[q] = <<t, v>> => agoOf[t][v] <= Horizon
<1>1. TokensInv /\ [TokensNext]_tokensVars => [A]_tokensVars
  <2> SUFFICES ASSUME TokensInv, TokensNext,
                      NEW q \in AuthRequests, NEW t \in AccessTokens, NEW v \in Verdicts,
                      answer[q] = NoVerdict, answer'[q] = <<t, v>>
               PROVE  agoOf[t][v] <= Horizon
    BY DEF TokensInv
  <2>a. /\ TokensTypeOK /\ TokenRecent(t) /\ LookupRecent(q) /\ StampRecent(q)
        /\ valid[t] \in Nat /\ invalid[t] \in Nat /\ agoOf[t][v] \in Nat
        /\ TokenTTL \in Nat /\ MaxQuery \in Nat
        /\ Reach = TokenTTL + MaxQuery /\ Horizon = Reach + MaxQuery
    BY TokensNumbers DEF TokensInv, RecentInv
  <2>b. answer'[q] # answer[q] /\ v # "failed"
    BY NoVerdictAssumption DEF Verdicts
  <2>c. ASSUME NEW r \in AuthRequests, NEW u \in AccessTokens, Accept(r, u)
        PROVE  r = q /\ u = t /\ v = "valid"
    <3>1. r = q
      BY <2>a, <2>b, <2>c, AcceptIsLocal
    <3>2. answer'[q] \in {answer[q], <<u, "valid">>, <<u, "failed">>}
      BY <2>a, <2>c, <3>1, AcceptIsLocal
    <3>3. <<t, v>> = <<u, "valid">> \/ <<t, v>> = <<u, "failed">>
      BY <2>b, <3>2
    <3>4. QED
      BY <2>b, <3>1, <3>3
  <2>1. ASSUME NEW r \in AuthRequests, NEW u \in AccessTokens, AnswerFromCache(r, u) PROVE agoOf[t][v] <= Horizon
    <3>1. CASE invalid[u] > 0 /\ Give(r, u, "invalid")
      <4>1. u = t /\ v = "invalid"
        BY <2>a, <2>b, <3>1 DEF Give, TokensTypeOK
      <4>2. QED
        BY <2>a, <3>1, <4>1 DEF TokenRecent
    <3>2. CASE valid[u] > 0 /\ Accept(r, u)
      <4>1. r = q /\ u = t /\ v = "valid"
        BY <2>c, <3>2
      <4>2. QED
        BY <2>a, <3>2, <4>1 DEF TokenRecent
    <3>3. QED
      BY <2>1, <3>1, <3>2 DEF AnswerFromCache
  <2>2. ASSUME NEW r \in AuthRequests, AnswerFromTable(r) PROVE agoOf[t][v] <= Horizon
    <3>0. lookup[r] # NoVerdict /\ lookup[r].read # NoVerdict /\ lookup[r].token \in AccessTokens
      BY <2>2, <2>a, TokensNumbers DEF AnswerFromTable
    <3>1. r = q /\ lookup[q].token = t /\ lookup[q].read = v
      <4>1. CASE lookup[r].read = "invalid" /\ Give(r, lookup[r].token, "invalid")
        BY <2>a, <2>b, <4>1 DEF Give, TokensTypeOK
      <4>2. CASE lookup[r].read = "valid" /\ Accept(r, lookup[r].token)
        BY <2>c, <3>0, <4>2
      <4>3. QED
        BY <2>2, <4>1, <4>2 DEF AnswerFromTable
    <3>2. agoOf[t][v] <= lookup[q].age /\ lookup[q].age \in Nat /\ lookup[q].age <= MaxQuery
      BY <2>a, <3>0, <3>1, TokensNumbers DEF LookupRecent
    <3>3. QED
      BY <2>a, <3>2
  <2>3. ASSUME NEW r \in AuthRequests, LookUpFails(r) PROVE FALSE
    BY <2>a, <2>b, <2>3 DEF LookUpFails, Give, TokensTypeOK
  <2>4. ASSUME NEW r \in AuthRequests, AnswerAfterUpdate(r) PROVE agoOf[t][v] <= Horizon
    <3>1. r = q /\ stamp[q] # NoVerdict /\ stamp[q].token = t /\ v = "valid"
      <4>1. PICK x \in {"valid", "failed"} : answer' = [answer EXCEPT ![r] = <<stamp[r].token, x>>]
        BY <2>4 DEF AnswerAfterUpdate
      <4>2. r = q
        BY <2>a, <2>b, <4>1 DEF TokensTypeOK
      <4>3. <<t, v>> = <<stamp[q].token, x>>
        BY <2>a, <4>1, <4>2 DEF TokensTypeOK
      <4>4. QED
        BY <2>4, <2>b, <4>2, <4>3 DEF AnswerAfterUpdate
    <3>2. stamp[q].age \in Nat /\ stamp[q].age <= MaxQuery
      BY <2>a, <3>1, TokensNumbers
    <3>3. QED
      BY <2>a, <3>1, <3>2 DEF StampRecent
  <2>5. QED
    BY <2>b, <2>1, <2>2, <2>3, <2>4
    DEF TokensNext, Revise, Tick, ReadAll, ReplaceCaches, SyncTokensFails, LookUp, ReadToken
<1>2. QED
  BY <1>1, TokensInvariant, PTL DEF TokensSpec, AnswersAreRecent

-------------------------------------------------------------------------------
(* Schedules: no timer is lost *)

\* The timers that run are those of the map, and each is that of its schedule.
TimersInv ==
  /\ live = {timers[s] : s \in Known(timers)}
  /\ \A s \in Known(timers) : timers[s].schedule = s

SchedulesInv == SchedulesTypeOK /\ TimersInv

\* At least as many numbers are free as there are schedules.
LEMMA FreeNumbers ==
  ASSUME SchedulesInv
  PROVE  /\ IsFiniteSet(TimerNumbers \ Numbers)
         /\ Cardinality(Schedules) \in Nat
         /\ Cardinality(TimerNumbers \ Numbers) >= Cardinality(Schedules)
<1> DEFINE c == Cardinality(Schedules)
           f == [s \in Known(timers) |-> timers[s].number]
<1>1. IsFiniteSet(Known(timers)) /\ c \in Nat /\ Cardinality(Known(timers)) \in Nat /\ Cardinality(Known(timers)) <= c
  BY SchedulesAssumption, FS_Subset, FS_CardinalityType DEF Known
<1>2. f \in Surjection(Known(timers), Numbers)
  <2>1. \A n \in Numbers : \E s \in Known(timers) : f[s] = n
    BY DEF SchedulesInv, TimersInv, Numbers
  <2>2. f \in [Known(timers) -> Numbers]
    BY DEF SchedulesInv, TimersInv, Numbers
  <2>3. QED
    BY <2>1, <2>2, Fun_IsSurj
<1>3. IsFiniteSet(Numbers) /\ Cardinality(Numbers) \in Nat /\ Cardinality(Numbers) <= c
  <2>1. IsFiniteSet(Numbers) /\ Cardinality(Numbers) <= Cardinality(Known(timers))
    BY <1>1, <1>2, FS_Surjection
  <2>2. Cardinality(Numbers) \in Nat
    BY <2>1, FS_CardinalityType
  <2>3. QED
    BY <1>1, <2>1, <2>2
<1>4. 2 * c \in Nat
  BY <1>1
<1>5. IsFiniteSet(TimerNumbers) /\ Cardinality(TimerNumbers) = 2 * c
  <2>1. IsFiniteSet(1..(2 * c)) /\ Cardinality(1..(2 * c)) = IF 1 > 2 * c THEN 0 ELSE (2 * c) - 1 + 1
    BY <1>4, FS_Interval
  <2>2. QED
    BY <1>1, <1>4, <2>1 DEF TimerNumbers
<1>6. /\ Cardinality(TimerNumbers \cap Numbers) \in Nat
      /\ Cardinality(TimerNumbers \cap Numbers) <= Cardinality(Numbers)
  BY <1>3, FS_Intersection, FS_CardinalityType
<1>7. /\ IsFiniteSet(TimerNumbers \ Numbers)
      /\ Cardinality(TimerNumbers \ Numbers) = Cardinality(TimerNumbers) - Cardinality(TimerNumbers \cap Numbers)
  BY <1>5, FS_Difference
<1>8. QED
  BY <1>1, <1>3, <1>5, <1>6, <1>7

\* A set that is not larger than another has an injection into it.
LEMMA SmallerFits ==
  ASSUME NEW S, NEW T, IsFiniteSet(S), IsFiniteSet(T), Cardinality(S) <= Cardinality(T)
  PROVE  \E f \in [S -> T] : \A a, b \in S : f[a] = f[b] => a = b
<1> DEFINE m == Cardinality(S)
           n == Cardinality(T)
<1>1. /\ m \in Nat /\ n \in Nat
      /\ ExistsBijection(1..m, S) /\ ExistsBijection(1..n, T)
  BY FS_CardinalityType
<1> HIDE DEF m, n
<1>2. PICK g \in Bijection(1..m, S) : TRUE
  BY <1>1, Fun_ExistsBij
<1>3. PICK h \in Bijection(1..n, T) : TRUE
  BY <1>1, Fun_ExistsBij
<1>4. PICK i \in [S -> 1..m] : \A a \in S : g[i[a]] = a
  <2>1. \A a \in S : \E k \in 1..m : g[k] = a
    BY <1>2 DEF Bijection, Surjection
  <2>2. [a \in S |-> CHOOSE k \in 1..m : g[k] = a] \in [S -> 1..m]
    BY <2>1
  <2>3. \A a \in S : g[[b \in S |-> CHOOSE k \in 1..m : g[k] = b][a]] = a
    BY <2>1
  <2>4. QED
    BY <2>2, <2>3
<1>5. h \in [1..n -> T] /\ \A k, l \in 1..n : h[k] = h[l] => k = l
  BY <1>3 DEF Bijection, Injection, IsInjective
<1>6. 1..m \subseteq 1..n
  BY <1>1 DEF m, n
<1> DEFINE f == [a \in S |-> h[i[a]]]
<1>7. f \in [S -> T]
  BY <1>4, <1>5, <1>6
<1>8. ASSUME NEW a \in S, NEW b \in S, f[a] = f[b] PROVE a = b
  <2>1. i[a] \in 1..n /\ i[b] \in 1..n /\ h[i[a]] = h[i[b]]
    BY <1>4, <1>6, <1>8
  <2>2. QED
    BY <1>4, <1>5, <2>1
<1>9. QED
  BY <1>7, <1>8

\* When the timers follow the rows that were read none is lost.
LEMMA SyncTimersStep ==
  ASSUME SchedulesInv, NEW rows \in [Schedules -> ScheduleRow \cup {NoSchedule}], SyncTimers(rows)
  PROVE  live' \subseteq Timer /\ timers' \in [Schedules -> Timer \cup {NoSchedule}] /\ TimersInv'
<1> DEFINE staying == Kept(rows)
           added == Known(rows) \ staying
           Fits(f) == \A s, t \in DOMAIN f : f[s] = f[t] => s = t
           new == CHOOSE f \in [added -> TimerNumbers \ Numbers] : Fits(f)
           Fresh(s) == [schedule |-> s, interval |-> rows[s].interval, repeats |-> FALSE, number |-> new[s]]
<1>1. \E f \in [added -> TimerNumbers \ Numbers] : Fits(f)
  <2>1. IsFiniteSet(added) /\ Cardinality(added) <= Cardinality(Schedules) /\ Cardinality(added) \in Nat
    <3>1. added \in SUBSET Schedules
      BY DEF Known
    <3>2. QED
      BY <3>1, SchedulesAssumption, FS_Subset, FS_CardinalityType
  <2>2. /\ IsFiniteSet(TimerNumbers \ Numbers)
        /\ Cardinality(Schedules) \in Nat
        /\ Cardinality(TimerNumbers \ Numbers) >= Cardinality(Schedules)
    BY FreeNumbers
  <2>3. Cardinality(TimerNumbers \ Numbers) \in Nat
    BY <2>2, FS_CardinalityType
  <2>4. Cardinality(added) <= Cardinality(TimerNumbers \ Numbers)
    BY <2>1, <2>2, <2>3
  <2>5. \E f \in [added -> TimerNumbers \ Numbers] : \A a, b \in added : f[a] = f[b] => a = b
    BY <2>1, <2>2, <2>4, SmallerFits
  <2>6. QED
    BY <2>5
<1>2. new \in [added -> TimerNumbers \ Numbers]
  BY <1>1
<1>3. /\ timers' = [s \in Schedules |-> IF s \in staying THEN timers[s] ELSE IF s \in Known(rows) THEN Fresh(s) ELSE NoSchedule]
      /\ live' = (live \ {timers[s] : s \in Known(timers) \ staying}) \cup {timers'[s] : s \in added}
  BY DEF SyncTimers
<1> HIDE DEF new
<1>4. \A s \in added : Fresh(s) \in Timer /\ Fresh(s).schedule = s /\ Fresh(s) # NoSchedule
  <2> SUFFICES ASSUME NEW s \in added PROVE Fresh(s) \in Timer /\ Fresh(s).schedule = s /\ Fresh(s) # NoSchedule
    OBVIOUS
  <2>1. s \in Schedules /\ rows[s] \in ScheduleRow
    BY DEF Known
  <2>2. rows[s].interval \in Intervals /\ new[s] \in TimerNumbers
    BY <1>2, <2>1 DEF ScheduleRow
  <2>3. Fresh(s) \in Timer
    BY <2>1, <2>2 DEF Timer
  <2>4. QED
    BY <2>3, NoScheduleAssumption
<1> HIDE DEF Fresh
<1>5. staying \subseteq Known(timers) /\ staying \subseteq Known(rows) /\ staying \subseteq Schedules /\ added \subseteq Schedules
  BY DEF Kept, Known
<1>6. timers \in [Schedules -> Timer \cup {NoSchedule}] /\ live \subseteq Timer
  BY DEF SchedulesInv, SchedulesTypeOK
<1>7. timers' \in [Schedules -> Timer \cup {NoSchedule}]
  BY <1>3, <1>4, <1>5, <1>6
<1>8. /\ \A s \in staying : timers'[s] = timers[s]
      /\ \A s \in added : timers'[s] = Fresh(s)
      /\ \A s \in Schedules \ Known(rows) : timers'[s] = NoSchedule
  BY <1>3, <1>5
<1>9. Known(timers') = staying \cup added
  BY <1>4, <1>5, <1>8 DEF Known
<1>10. \A s \in Known(timers') : timers'[s].schedule = s
  BY <1>4, <1>5, <1>8, <1>9 DEF SchedulesInv, TimersInv
<1>11. live \ {timers[s] : s \in Known(timers) \ staying} = {timers[s] : s \in staying}
  BY <1>5 DEF SchedulesInv, TimersInv
<1>12. live' = {timers'[s] : s \in staying \cup added}
  BY <1>3, <1>8, <1>11
<1>13. live' \subseteq Timer
  BY <1>4, <1>5, <1>6, <1>8, <1>12 DEF Known
<1>14. TimersInv'
  BY <1>9, <1>10, <1>12 DEF TimersInv, Known
<1>15. QED
  BY <1>7, <1>13, <1>14

\* Replacing a timer that runs by one of the same schedule loses none.
LEMMA FireFirstStep ==
  ASSUME SchedulesInv, NEW t \in live, NEW chunks, FireFirst(t, chunks)
  PROVE  live' \subseteq Timer /\ timers' \in [Schedules -> Timer \cup {NoSchedule}] /\ TimersInv'
<1> DEFINE interval == [FirstOf(t.schedule, t.interval, Numbers) EXCEPT !.repeats = TRUE]
           s == t.schedule
<1>1. /\ live' = (live \ {t}) \cup {interval}
      /\ timers' = [timers EXCEPT ![s] = interval]
  BY DEF FireFirst
<1>2. timers \in [Schedules -> Timer \cup {NoSchedule}] /\ live \subseteq Timer /\ t \in Timer
  BY DEF SchedulesInv, SchedulesTypeOK
<1>3. s \in Schedules /\ s \in Known(timers) /\ timers[s] = t
  BY <1>2 DEF SchedulesInv, TimersInv, Timer, Known
<1>4. \E k \in TimerNumbers : k \notin Numbers
  <2>1. Schedules # {} /\ IsFiniteSet(Schedules)
    BY <1>3, SchedulesAssumption
  <2>2. Cardinality(Schedules) \in Nat /\ Cardinality(Schedules) # 0
    BY <2>1, FS_EmptySet, FS_CardinalityType
  <2>3. Cardinality(TimerNumbers \ Numbers) >= Cardinality(Schedules) /\ IsFiniteSet(TimerNumbers \ Numbers)
    BY FreeNumbers
  <2>4. Cardinality(TimerNumbers \ Numbers) # 0
    BY <2>2, <2>3
  <2>5. TimerNumbers \ Numbers # {}
    BY <2>4, FS_EmptySet
  <2>6. QED
    BY <2>5
<1>5. interval \in Timer /\ interval.schedule = s /\ interval # NoSchedule
  <2>1. (CHOOSE k \in TimerNumbers : k \notin Numbers) \in TimerNumbers
    BY <1>4
  <2>2. t.interval \in Intervals
    BY <1>2 DEF Timer
  <2>3. interval \in Timer /\ interval.schedule = s
    BY <1>3, <2>1, <2>2 DEF FirstOf, Timer
  <2>4. QED
    BY <2>3, NoScheduleAssumption
<1> HIDE DEF interval
<1>6. timers' \in [Schedules -> Timer \cup {NoSchedule}] /\ live' \subseteq Timer
  BY <1>1, <1>2, <1>5
<1>7. timers'[s] = interval /\ \A r \in Schedules \ {s} : timers'[r] = timers[r]
  BY <1>1, <1>2, <1>3
<1>8. Known(timers') = Known(timers)
  BY <1>3, <1>5, <1>7 DEF Known
<1>9. \A r \in Known(timers') : timers'[r].schedule = r
  BY <1>3, <1>5, <1>7, <1>8 DEF SchedulesInv, TimersInv, Known
<1>10. live = {timers[r] : r \in Known(timers)} /\ \A r \in Known(timers) : timers[r].schedule = r
  BY DEF SchedulesInv, TimersInv
<1>11. \A r \in Known(timers) \ {s} : timers[r] # t
  BY <1>3, <1>10
<1>12. live \ {t} = {timers[r] : r \in Known(timers) \ {s}}
  BY <1>3, <1>10, <1>11
<1>13. \A r \in Known(timers) \ {s} : timers'[r] = timers[r]
  BY <1>7 DEF Known
<1>14. live \ {t} = {timers'[r] : r \in Known(timers) \ {s}}
  BY <1>12, <1>13
<1>15. live' = {timers'[r] : r \in Known(timers)}
  BY <1>1, <1>3, <1>7, <1>14
<1>16. TimersInv'
  BY <1>8, <1>9, <1>15 DEF TimersInv
<1>17. QED
  BY <1>6, <1>16

\* An execution begins with the configurations that were loaded.
LEMMA ExecuteStep ==
  ASSUME SchedulesTypeOK, NEW s \in Schedules, NEW chunks \in 0..MaxChunks, Execute(s, chunks)
  PROVE  running' \in [1..MaxRunning -> Execution \cup {NoSchedule}]
<1>0. MaxChunks \in Nat /\ MaxChunks > 0 /\ running \in [1..MaxRunning -> Execution \cup {NoSchedule}]
  BY SchedulesAssumption DEF SchedulesTypeOK
<1>1. CASE loaded[s] = NoSchedule \/ chunks = 0
  BY <1>0, <1>1 DEF Execute
<1>2. CASE ~(loaded[s] = NoSchedule \/ chunks = 0)
  <2> DEFINE begun == [schedule |-> s, left |-> loaded[s].configs, chunks |-> chunks, chunk |-> 1]
  <2>1. loaded[s] \in LoadedRow
    BY <1>2 DEF SchedulesTypeOK
  <2>2. loaded[s].configs \in SUBSET Configurations
    BY <2>1 DEF LoadedRow
  <2>3. chunks \in 1..MaxChunks /\ 1 \in 1..MaxChunks
    BY <1>0, <1>2
  <2>4. begun \in Execution
    BY <2>2, <2>3 DEF Execution
  <2>5. PICK r \in Free : running' = [running EXCEPT ![r] = IF loaded[s].configs = {} THEN NoSchedule ELSE begun]
    BY <1>2 DEF Execute
  <2> HIDE DEF begun
  <2>6. QED
    BY <1>0, <2>4, <2>5
<1>3. QED
  BY <1>1, <1>2

\* The next chunk is one of an execution, or there is none.
LEMMA NextChunkTyped ==
  ASSUME NEW f \in Execution, NEW c
  PROVE  NextChunk(f, c) \in Execution \cup {NoSchedule}
<1>1. /\ f.schedule \in Schedules /\ f.left \in SUBSET Configurations
      /\ f.chunks \in 1..MaxChunks /\ f.chunk \in 1..MaxChunks /\ MaxChunks \in Nat /\ MaxChunks > 0
  BY SchedulesAssumption DEF Execution
<1>2. CASE f.chunk < f.chunks
  <2>1. f.chunk + 1 \in 1..MaxChunks
    BY <1>1, <1>2
  <2>2. [f EXCEPT !.chunk = @ + 1] \in Execution
    BY <2>1 DEF Execution
  <2>3. QED
    BY <1>2, <2>2 DEF NextChunk
<1>3. CASE ~(f.chunk < f.chunks)
  <2>1. f.left \ {c} \in SUBSET Configurations /\ 1 \in 1..MaxChunks
    BY <1>1
  <2>2. [f EXCEPT !.chunk = 1, !.left = @ \ {c}] \in Execution
    BY <2>1 DEF Execution
  <2>3. QED
    BY <1>3, <2>2 DEF NextChunk
<1>4. QED
  BY <1>2, <1>3

\* Every step keeps the invariant.
LEMMA SchedulesStepKeeps ==
  ASSUME SchedulesInv, [SchedulesNext]_schedulesVars
  PROVE  SchedulesInv'
<1>0. /\ MaxChunks \in Nat /\ MaxRunning \in Nat /\ MaxChanges \in Nat /\ MaxSeconds \in Nat /\ MaxFailures \in Nat
      /\ SchedulesTypeOK /\ TimersInv
  BY SchedulesAssumption DEF SchedulesInv
<1>f. ASSUME UNCHANGED <<live, timers>> PROVE TimersInv'
  BY <1>0, <1>f DEF TimersInv, Known
<1>1. ASSUME NEW s \in Schedules, NEW n \in Intervals, SetSchedule(s, n) PROVE SchedulesInv'
  <2>1. second \in 0..MaxSeconds /\ [interval |-> n, updated |-> second] \in ScheduleRow
    BY <1>0 DEF SchedulesTypeOK, ScheduleRow
  <2>2. changes' \in 0..MaxChanges
    BY <1>0, <1>1 DEF SetSchedule, Change, SchedulesTypeOK
  <2>3. SchedulesTypeOK'
    BY <1>0, <1>1, <2>1, <2>2 DEF SetSchedule, SchedulesTypeOK
  <2>4. QED
    BY <1>1, <1>f, <2>3 DEF SchedulesInv, SetSchedule
<1>2. ASSUME NEW s \in Schedules, RemoveSchedule(s) PROVE SchedulesInv'
  <2>1. changes' \in 0..MaxChanges
    BY <1>0, <1>2 DEF RemoveSchedule, Change, SchedulesTypeOK
  <2>2. SchedulesTypeOK'
    BY <1>0, <1>2, <2>1 DEF RemoveSchedule, SchedulesTypeOK
  <2>3. QED
    BY <1>2, <1>f, <2>2 DEF SchedulesInv, RemoveSchedule
<1>3. ASSUME NEW s \in Schedules, NEW cs \in SUBSET Configurations, SetConfigurations(s, cs) PROVE SchedulesInv'
  <2>1. changes' \in 0..MaxChanges
    BY <1>0, <1>3 DEF SetConfigurations, Change, SchedulesTypeOK
  <2>2. SchedulesTypeOK'
    BY <1>0, <1>3, <2>1 DEF SetConfigurations, SchedulesTypeOK
  <2>3. QED
    BY <1>3, <1>f, <2>2 DEF SchedulesInv, SetConfigurations
<1>4. ASSUME NextSecond PROVE SchedulesInv'
  <2>1. second' \in 0..MaxSeconds
    BY <1>0, <1>4 DEF NextSecond, SchedulesTypeOK
  <2>2. SchedulesTypeOK'
    BY <1>0, <1>4, <2>1 DEF NextSecond, SchedulesTypeOK
  <2>3. QED
    BY <1>4, <1>f, <2>2 DEF SchedulesInv, NextSecond
<1>5. ASSUME ReadSchedules PROVE SchedulesInv'
  <2>1. SchedulesTypeOK'
    BY <1>0, <1>5 DEF ReadSchedules, SchedulesTypeOK, tables
  <2>2. QED
    BY <1>5, <1>f, <2>1 DEF SchedulesInv, ReadSchedules
<1>6. ASSUME ReadConfigurations PROVE SchedulesInv'
  <2> DEFINE Of(s) == [interval |-> fetched[s].interval, updated |-> fetched[s].updated, configs |-> configs[s]]
  <2>1. fetched \in [Schedules -> ScheduleRow \cup {NoSchedule}]
    BY <1>0, <1>6 DEF ReadConfigurations, SchedulesTypeOK
  <2>2. \A s \in Schedules : fetched[s] # NoSchedule => Of(s) \in LoadedRow
    <3> SUFFICES ASSUME NEW s \in Schedules, fetched[s] # NoSchedule PROVE Of(s) \in LoadedRow
      OBVIOUS
    <3>1. fetched[s] \in ScheduleRow
      BY <2>1
    <3>2. fetched[s].interval \in Intervals /\ fetched[s].updated \in 0..MaxSeconds /\ configs[s] \in SUBSET Configurations
      BY <1>0, <3>1 DEF ScheduleRow, SchedulesTypeOK
    <3>3. QED
      BY <3>2 DEF LoadedRow
  <2>3. loaded' = [s \in Schedules |-> IF fetched[s] = NoSchedule THEN NoSchedule ELSE Of(s)]
    BY <1>6 DEF ReadConfigurations
  <2> HIDE DEF Of
  <2>4. loaded' \in [Schedules -> LoadedRow \cup {NoSchedule}]
    BY <2>2, <2>3
  <2>5. live' \subseteq Timer /\ timers' \in [Schedules -> Timer \cup {NoSchedule}] /\ TimersInv'
    <3>1. CASE Changed(fetched)
      <4>1. SyncTimers(fetched)
        BY <1>6, <3>1 DEF ReadConfigurations
      <4>2. QED
        BY <2>1, <4>1, SyncTimersStep
    <3>2. CASE ~Changed(fetched)
      <4>1. UNCHANGED <<live, timers>>
        BY <1>6, <3>2 DEF ReadConfigurations
      <4>2. QED
        BY <1>0, <1>f, <4>1 DEF SchedulesTypeOK
    <3>3. QED
      BY <3>1, <3>2
  <2>6. fetched' = NoSchedule /\ UNCHANGED <<tables, running, failures>>
    BY <1>6 DEF ReadConfigurations
  <2>7. SchedulesTypeOK'
    BY <1>0, <2>4, <2>5, <2>6 DEF SchedulesTypeOK, tables
  <2>8. QED
    BY <2>5, <2>7 DEF SchedulesInv
<1>7. ASSUME SyncFails PROVE SchedulesInv'
  <2>1. failures' \in 0..MaxFailures
    BY <1>0, <1>7 DEF SyncFails, Fail, SchedulesTypeOK
  <2>2. SchedulesTypeOK'
    BY <1>0, <1>7, <2>1 DEF SyncFails, SchedulesTypeOK, tables
  <2>3. QED
    BY <1>7, <1>f, <2>2 DEF SchedulesInv, SyncFails
<1>8. ASSUME NEW s \in Schedules, NEW n \in 0..MaxChunks, Fire(s, n) PROVE SchedulesInv'
  <2>1. PICK t \in live : t.schedule = s /\ (FireFirst(t, n) \/ FireAgain(t, n))
    BY <1>8 DEF Fire
  <2>2. Execute(s, n) /\ UNCHANGED <<tables, fetched, loaded, failures>>
    BY <2>1 DEF FireFirst, FireAgain
  <2>3. running' \in [1..MaxRunning -> Execution \cup {NoSchedule}]
    BY <1>0, <2>2, ExecuteStep
  <2>4. live' \subseteq Timer /\ timers' \in [Schedules -> Timer \cup {NoSchedule}] /\ TimersInv'
    <3>1. CASE FireFirst(t, n)
      BY <3>1, FireFirstStep
    <3>2. CASE FireAgain(t, n)
      BY <1>0, <1>f, <3>2 DEF FireAgain, SchedulesTypeOK
    <3>3. QED
      BY <2>1, <3>1, <3>2
  <2>5. SchedulesTypeOK'
    BY <1>0, <2>2, <2>3, <2>4 DEF SchedulesTypeOK, tables
  <2>6. QED
    BY <2>4, <2>5 DEF SchedulesInv
<1>9. ASSUME NEW r \in DOMAIN running, SendChunk(r) PROVE SchedulesInv'
  <2>1. running[r] \in Execution
    BY <1>0, <1>9 DEF SendChunk, SchedulesTypeOK
  <2>2. NextChunk(running[r], CHOOSE c \in running[r].left : TRUE) \in Execution \cup {NoSchedule}
    BY <2>1, NextChunkTyped
  <2>3. running' \in [1..MaxRunning -> Execution \cup {NoSchedule}]
    BY <1>0, <1>9, <2>2 DEF SendChunk, SchedulesTypeOK
  <2>4. SchedulesTypeOK'
    BY <1>0, <1>9, <2>3 DEF SendChunk, SchedulesTypeOK, tables
  <2>5. QED
    BY <1>9, <1>f, <2>4 DEF SchedulesInv, SendChunk
<1>10. ASSUME NEW r \in DOMAIN running, CreationFails(r) PROVE SchedulesInv'
  <2>1. failures' \in 0..MaxFailures
    BY <1>0, <1>10 DEF CreationFails, Fail, SchedulesTypeOK
  <2>2. running' \in [1..MaxRunning -> Execution \cup {NoSchedule}]
    BY <1>0, <1>10 DEF CreationFails, SchedulesTypeOK
  <2>3. SchedulesTypeOK'
    BY <1>0, <1>10, <2>1, <2>2 DEF CreationFails, SchedulesTypeOK, tables
  <2>4. QED
    BY <1>10, <1>f, <2>3 DEF SchedulesInv, CreationFails
<1>11. CASE UNCHANGED schedulesVars
  BY <1>0, <1>f, <1>11 DEF SchedulesInv, SchedulesTypeOK, schedulesVars, tables
<1>12. QED
  BY <1>1, <1>2, <1>3, <1>4, <1>5, <1>6, <1>7, <1>8, <1>9, <1>10, <1>11 DEF SchedulesNext, Sync

\* The timers that run are always those of the map, one for each of its schedules.
THEOREM SchedulesInvariant == SchedulesSpec => []SchedulesInv
<1>1. SchedulesInit => SchedulesInv
  BY SchedulesAssumption DEF SchedulesInit, SchedulesInv, SchedulesTypeOK, TimersInv, Known
<1>2. SchedulesInv /\ [SchedulesNext]_schedulesVars => SchedulesInv'
  BY SchedulesStepKeeps
<1>3. QED
  BY <1>1, <1>2, PTL DEF SchedulesSpec

\* A timer that runs can still be cleared: syncTimers and the two timers that createTimer puts into
\* an entry, one after the other, leave no timer without its entry.
THEOREM TimersNeverLost == SchedulesSpec => []NoTimerIsLost
<1>1. SchedulesInv => NoTimerIsLost
  BY DEF SchedulesInv, TimersInv, NoTimerIsLost
<1>2. QED
  BY <1>1, SchedulesInvariant, PTL

-------------------------------------------------------------------------------
(* AddressLists: tags follow the addresses *)

\* Nothing is in memory before the build is done, and what serves has read all there is.
MemoryInv ==
  \A w \in Starters : /\ memory[w].clouds # <<>> => building = "done"
                      /\ memory[w].serving => building = "done" /\ Loaded(w) = Clouds

MachineInv(m) ==
  machine[m] # NoMachine => memory[machine[m].worker].serving /\ TagsAreRight(machine[m], OwnAddress[m])

ListsInv ==
  /\ ListsTypeOK /\ MemoryInv
  /\ \A m \in Machines : MachineInv(m)

\* When all clouds were read, the tags found for an address are those of a range it is in.
LEMMA TagsFound ==
  ASSUME ListsTypeOK, NEW w \in Starters, Loaded(w) = Clouds, NEW a
  PROVE  /\ RangesWith(a) = {} => GetCloudTags(w, a) = <<>>
         /\ RangesWith(a) # {} => \E r \in RangesWith(a) : GetCloudTags(w, a) = r.tags /\ r.tags # <<>>
         /\ GetCloudTags(w, a) \in TagsOf
<1> DEFINE clouds == memory[w].clouds
           with == {k \in DOMAIN clouds : \E r \in ToSet(CloudRanges[clouds[k]]) : Has(r, a)}
           c == clouds[Min(with)]
           rs == CloudRanges[c]
           ks == {k \in DOMAIN rs : Has(rs[k], a)}
<1>0. memory[w] \in Memory
  BY DEF ListsTypeOK
<1>1. clouds \in Seq(Clouds) /\ DOMAIN clouds \in SUBSET Nat /\ \A k \in DOMAIN clouds : clouds[k] \in Clouds
  BY <1>0 DEF Memory
<1>2. Clouds = {clouds[k] : k \in DOMAIN clouds}
  BY DEF Loaded, ToSet
<1>3. \A d \in Clouds : /\ CloudRanges[d] \in Seq(ToSet(CloudRanges[d])) /\ DOMAIN CloudRanges[d] \in SUBSET Nat
                        /\ \A r \in ToSet(CloudRanges[d]) : r.tags # <<>> /\ \A b \in r.addresses : BucketOf[b] = r.bucket
  BY CloudsAssumption
<1>4. \A r \in AllRanges : r.tags # <<>> /\ r.tags \in TagsOf /\ (Has(r, a) <=> a \in r.addresses)
  BY <1>3 DEF AllRanges, Has, TagsOf
<1>5. GetCloudTags(w, a) = IF with = {} THEN <<>> ELSE rs[Min(ks)].tags
  BY DEF GetCloudTags
<1>6. RangesWith(a) = {} <=> with = {}
  <2>1. ASSUME NEW k \in with PROVE RangesWith(a) # {}
    <3>1. clouds[k] \in Clouds /\ \E r \in ToSet(CloudRanges[clouds[k]]) : Has(r, a)
      BY <1>1
    <3>2. QED
      BY <3>1, <1>4 DEF RangesWith, AllRanges
  <2>2. ASSUME NEW r \in RangesWith(a) PROVE with # {}
    <3>1. PICK d \in Clouds : r \in ToSet(CloudRanges[d])
      BY DEF RangesWith, AllRanges
    <3>2. PICK k \in DOMAIN clouds : clouds[k] = d
      BY <1>2
    <3>3. Has(r, a)
      BY <1>4 DEF RangesWith
    <3>4. QED
      BY <3>1, <3>2, <3>3
  <2>3. QED
    BY <2>1, <2>2
<1>7. CASE with = {}
  BY <1>5, <1>6, <1>7 DEF TagsOf
<1>8. CASE with # {}
  <2>1. Min(with) \in with
    <3>1. with \in SUBSET Nat
      BY <1>1
    <3>2. QED
      BY <3>1, <1>8, LowestIsThere
  <2>2. c \in Clouds /\ \E r \in ToSet(rs) : Has(r, a)
    BY <1>1, <2>1
  <2>3. ks # {} /\ ks \in SUBSET Nat
    BY <1>3, <2>2 DEF ToSet
  <2>4. Min(ks) \in ks
    BY <2>3, LowestIsThere
  <2>5. rs[Min(ks)] \in ToSet(rs) /\ Has(rs[Min(ks)], a)
    BY <2>4 DEF ToSet
  <2>6. rs[Min(ks)] \in AllRanges
    BY <2>2, <2>5 DEF AllRanges
  <2>7. rs[Min(ks)] \in RangesWith(a)
    BY <1>4, <2>5, <2>6 DEF RangesWith
  <2>8. QED
    BY <1>4, <1>5, <1>6, <1>8, <2>6, <2>7
<1>9. QED
  BY <1>7, <1>8

\* The tags a probe gets with a list of alternative IPs are those of the first address that has any.
LEMMA NewTagsRight ==
  ASSUME ListsInv, NEW m \in Machines, machine[m] # NoMachine, NEW claimed \in Claims[m],
         NEW others, others = {claimed[k] : k \in Valid(m, claimed)}
  PROVE  /\ others \subseteq AllAddresses \ Relays
         /\ NewTags(m, claimed) \in TagsOf
         /\ RangesWith(OwnAddress[m]) # {} =>
              \E r \in RangesWith(OwnAddress[m]) : NewTags(m, claimed) = r.tags
         /\ RangesWith(OwnAddress[m]) = {} /\ (\E a \in others : RangesWith(a) # {}) =>
              \E a \in others : RangesWith(a) # {} /\ \E r \in RangesWith(a) : NewTags(m, claimed) = r.tags
         /\ RangesWith(OwnAddress[m]) = {} /\ (\A a \in others : RangesWith(a) = {}) => NewTags(m, claimed) = <<>>
<1> DEFINE w == machine[m].worker
           address == [k \in 0..Len(claimed) |-> IF k = 0 THEN OwnAddress[m] ELSE claimed[k]]
           tagged == {k \in {0} \cup Valid(m, claimed) : GetCloudTags(w, address[k]) # <<>>}
<1>1. w \in Starters /\ Loaded(w) = Clouds /\ ListsTypeOK
  <2>1. machine[m] \in Machine
    BY DEF ListsInv, ListsTypeOK
  <2>2. w \in Starters
    BY <2>1 DEF Machine
  <2>3. QED
    BY <2>2 DEF ListsInv, MachineInv, MemoryInv
<1>2. claimed \in Seq(AllAddresses) /\ DOMAIN claimed = 1..Len(claimed) /\ Len(claimed) \in Nat
      /\ \A k \in DOMAIN claimed : claimed[k] \in AllAddresses
  BY MachinesAssumption
<1>3. Valid(m, claimed) \subseteq 1..Len(claimed)
  BY <1>2 DEF Valid
<1>4. address[0] = OwnAddress[m] /\ \A k \in Valid(m, claimed) : address[k] = claimed[k] /\ claimed[k] \in others
  BY <1>2, <1>3
<1>5. others \subseteq AllAddresses \ Relays
  BY <1>2 DEF Valid, IsIpBlocked
<1>6. \A a : /\ RangesWith(a) = {} => GetCloudTags(w, a) = <<>>
             /\ RangesWith(a) # {} => \E r \in RangesWith(a) : GetCloudTags(w, a) = r.tags /\ r.tags # <<>>
             /\ GetCloudTags(w, a) \in TagsOf
  BY <1>1, TagsFound
<1>7. NewTags(m, claimed) = IF tagged = {} THEN <<>> ELSE GetCloudTags(w, address[Min(tagged)])
  BY DEF NewTags, TagsOfFirst
<1>8. tagged # {} => Min(tagged) \in tagged
  <2>1. tagged \in SUBSET Nat
    BY <1>2, <1>3
  <2>2. QED
    BY <2>1, LowestIsThere
<1>9. 0 \in tagged <=> RangesWith(OwnAddress[m]) # {}
  BY <1>4, <1>6
<1>10. 0 \in tagged => Min(tagged) = 0
  <2>1. tagged \in SUBSET Nat
    BY <1>2, <1>3
  <2>3. tagged # {} => \A j \in tagged : Min(tagged) <= j
    BY <2>1, LowestIsThere
  <2> HIDE DEF tagged
  <2>4. ASSUME 0 \in tagged PROVE Min(tagged) = 0
    <3>1. Min(tagged) \in Nat /\ Min(tagged) <= 0
      BY <1>8, <2>1, <2>3, <2>4
    <3>2. QED
      BY <3>1
  <2>5. QED
    BY <2>4
<1>11. ASSUME RangesWith(OwnAddress[m]) = {}
       PROVE  tagged = {k \in Valid(m, claimed) : RangesWith(claimed[k]) # {}}
  BY <1>3, <1>4, <1>6, <1>9, <1>11
<1>12. NewTags(m, claimed) \in TagsOf
  BY <1>6, <1>7 DEF TagsOf
<1> HIDE DEF tagged, address
<1>13. RangesWith(OwnAddress[m]) # {} =>
         \E r \in RangesWith(OwnAddress[m]) : NewTags(m, claimed) = r.tags
  BY <1>4, <1>6, <1>7, <1>9, <1>10
<1>14. ASSUME RangesWith(OwnAddress[m]) = {}, \E a \in others : RangesWith(a) # {}
       PROVE  \E a \in others : RangesWith(a) # {} /\ \E r \in RangesWith(a) : NewTags(m, claimed) = r.tags
  <2>1. tagged # {}
    BY <1>11, <1>14
  <2>2. Min(tagged) \in Valid(m, claimed) /\ RangesWith(claimed[Min(tagged)]) # {}
    BY <1>8, <1>11, <1>14, <2>1
  <2>3. NewTags(m, claimed) = GetCloudTags(w, claimed[Min(tagged)])
    BY <1>4, <1>7, <2>1, <2>2
  <2>4. QED
    BY <1>4, <1>6, <2>2, <2>3
<1>15. RangesWith(OwnAddress[m]) = {} /\ (\A a \in others : RangesWith(a) = {}) => NewTags(m, claimed) = <<>>
  BY <1>4, <1>7, <1>11
<1>16. QED
  BY <1>5, <1>12, <1>13, <1>14, <1>15

\* A probe with such tags is right.
LEMMA RightTags ==
  ASSUME NEW p, NEW own \in AllAddresses \ Relays,
         p.indexed = p.cloudTags, p.others \subseteq AllAddresses \ Relays,
         RangesWith(own) # {} => \E r \in RangesWith(own) : p.cloudTags = r.tags,
         RangesWith(own) = {} /\ (\E a \in p.others : RangesWith(a) # {}) =>
           \E a \in p.others : RangesWith(a) # {} /\ \E r \in RangesWith(a) : p.cloudTags = r.tags,
         RangesWith(own) = {} /\ (\A a \in p.others : RangesWith(a) = {}) => p.cloudTags = <<>>
  PROVE  TagsAreRight(p, own)
<1>1. \A a, r : r \in RangesWith(a) => r \in AllRanges /\ a \in r.addresses
  BY DEF RangesWith
<1>2. CASE RangesWith(own) # {}
  BY <1>1, <1>2 DEF TagsAreRight
<1>3. CASE RangesWith(own) = {} /\ \E a \in p.others : RangesWith(a) # {}
  <2>1. PICK a \in p.others : RangesWith(a) # {} /\ \E r \in RangesWith(a) : p.cloudTags = r.tags
    BY <1>3
  <2>2. \E r \in AllRanges : a \in r.addresses /\ p.cloudTags = r.tags
    BY <1>1, <2>1
  <2>3. a \in {b \in p.others : RangesWith(b) # {}}
    BY <2>1
  <2>4. QED
    BY <1>3, <2>2, <2>3 DEF TagsAreRight
<1>4. CASE RangesWith(own) = {} /\ \A a \in p.others : RangesWith(a) = {}
  BY <1>4 DEF TagsAreRight
<1>5. QED
  BY <1>2, <1>3, <1>4

\* Every step keeps the invariant.
LEMMA ListsStepKeeps ==
  ASSUME ListsInv, [ListsNext]_listsVars
  PROVE  ListsInv'
<1>0. ListsTypeOK /\ MemoryInv /\ \A m \in Machines : MachineInv(m)
  BY DEF ListsInv
<1>a. \A w \in Starters : memory[w] \in Memory /\ memory[w].clouds \in Seq(Clouds) /\ memory[w].serving \in BOOLEAN
  BY <1>0 DEF ListsTypeOK, Memory
<1>b. \A m \in Machines : machine[m] # NoMachine => machine[m] \in Machine /\ machine[m].worker \in Starters
  BY <1>0 DEF ListsTypeOK, Machine
<1>c. <<>> \in Seq(Clouds) /\ <<>> \in TagsOf /\ Clouds # {}
  BY CloudsAssumption DEF TagsOf
\* The machines are right as long as the workers that serve go on serving.
<1>m. ASSUME UNCHANGED machine, \A w \in Starters : memory[w].serving => memory'[w].serving
      PROVE  \A m \in Machines : MachineInv(m)'
  BY <1>0, <1>b, <1>m DEF MachineInv
<1>2. ASSUME NEW c \in Clouds, UpdateIpRangeFile(c) PROVE ListsInv'
  <2>1. building = "clouds" /\ building' \in {"relays", "clouds"} /\ files' = files \cup {c}
        /\ UNCHANGED <<memory, machine, deaths>>
    BY <1>2 DEF UpdateIpRangeFile
  <2>2. ListsTypeOK'
    BY <1>0, <2>1 DEF ListsTypeOK
  <2>3. \A w \in Starters : ~memory[w].serving /\ memory[w].clouds = <<>>
    BY <1>0, <1>a, <2>1 DEF MemoryInv
  <2>4. MemoryInv'
    BY <2>1, <2>3 DEF MemoryInv
  <2>5. QED
    BY <1>0, <1>m, <2>1, <2>2, <2>4 DEF ListsInv
<1>3. ASSUME UpdateMalwareFiles \/ UpdateBlockedIpRangesFiles \/ DownloadFails PROVE ListsInv'
  <2>1. building # "done" /\ building' \in {"clouds", "done", "failed"}
        /\ UNCHANGED <<files, memory, machine, deaths>>
    BY <1>3 DEF UpdateMalwareFiles, UpdateBlockedIpRangesFiles, DownloadFails
  <2>2. ListsTypeOK'
    BY <1>0, <2>1 DEF ListsTypeOK
  <2>3. \A w \in Starters : ~memory[w].serving /\ memory[w].clouds = <<>>
    BY <1>0, <1>a, <2>1 DEF MemoryInv
  <2>4. MemoryInv'
    BY <2>1, <2>3 DEF MemoryInv
  <2>5. QED
    BY <1>0, <1>m, <2>1, <2>2, <2>4 DEF ListsInv
<1>4. ASSUME NEW w \in Starters, NEW c \in Clouds, ReadCloud(w, c) PROVE ListsInv'
  <2> DEFINE read == [memory[w] EXCEPT !.clouds = Append(@, c)]
  <2>1. building = "done" /\ c \notin Loaded(w) /\ memory' = [memory EXCEPT ![w] = read]
        /\ UNCHANGED <<building, files, machine, deaths>>
    BY <1>4 DEF ReadCloud
  <2>2. Append(memory[w].clouds, c) \in Seq(Clouds)
    BY <1>a
  <2>3. read \in Memory /\ read.serving = memory[w].serving
    BY <1>a, <2>2 DEF Memory
  <2>4. ~memory[w].serving
    BY <1>0, <2>1 DEF MemoryInv
  <2> HIDE DEF read
  <2>5. ListsTypeOK'
    BY <1>0, <2>1, <2>3 DEF ListsTypeOK
  <2>6. \A v \in Starters : IF v = w THEN memory'[v].serving = FALSE ELSE memory'[v] = memory[v]
    <3>1. DOMAIN memory = Starters
      BY <1>0 DEF ListsTypeOK
    <3>2. memory'[w] = read /\ \A v \in Starters \ {w} : memory'[v] = memory[v]
      BY <2>1, <3>1
    <3>3. QED
      BY <1>a, <2>3, <2>4, <3>2
  <2>7. MemoryInv'
    BY <1>0, <2>1, <2>6 DEF MemoryInv, Loaded
  <2>8. QED
    BY <1>0, <1>m, <2>1, <2>4, <2>5, <2>6, <2>7 DEF ListsInv
<1>5. ASSUME NEW w \in Starters, Serve(w) PROVE ListsInv'
  <2> DEFINE full == [memory[w] EXCEPT !.serving = TRUE]
  <2>1. Loaded(w) = Clouds /\ memory' = [memory EXCEPT ![w] = full]
        /\ UNCHANGED <<building, files, machine, deaths>>
    BY <1>5 DEF Serve
  <2>2. full \in Memory /\ full.clouds = memory[w].clouds /\ full.serving
    BY <1>a DEF Memory
  <2>3. building = "done"
    <3>1. memory[w].clouds # <<>>
      BY <1>c, <2>1 DEF Loaded, ToSet
    <3>2. QED
      BY <1>0, <3>1 DEF MemoryInv
  <2> HIDE DEF full
  <2>4. ListsTypeOK'
    BY <1>0, <2>1, <2>2 DEF ListsTypeOK
  <2>5. memory'[w] = full /\ \A v \in Starters \ {w} : memory'[v] = memory[v]
    BY <1>0, <2>1 DEF ListsTypeOK
  <2>6. MemoryInv'
    BY <1>0, <2>1, <2>2, <2>3, <2>5 DEF MemoryInv, Loaded
  <2>7. QED
    BY <1>0, <1>m, <2>1, <2>2, <2>4, <2>5, <2>6 DEF ListsInv
<1>6. ASSUME NEW w \in Starters, WorkerDies(w) PROVE ListsInv'
  <2>1. deaths' \in 0..MaxDeaths
    BY <1>0, <1>6, MachinesAssumption DEF WorkerDies, ListsTypeOK
  <2>2. memory' = [memory EXCEPT ![w] = NoMemory] /\ UNCHANGED <<building, files>>
        /\ machine' = [m \in Machines |-> IF machine[m].worker = w THEN NoMachine ELSE machine[m]]
    BY <1>6 DEF WorkerDies
  <2>3. NoMemory \in Memory /\ NoMemory.clouds = <<>> /\ ~NoMemory.serving
    BY <1>c DEF Memory, NoMemory
  <2> HIDE DEF NoMemory
  <2>4. ListsTypeOK'
    BY <1>0, <2>1, <2>2, <2>3 DEF ListsTypeOK
  <2>5. memory'[w] = NoMemory /\ \A v \in Starters \ {w} : memory'[v] = memory[v]
    BY <1>0, <2>2 DEF ListsTypeOK
  <2>6. MemoryInv'
    BY <1>0, <2>2, <2>3, <2>5 DEF MemoryInv, Loaded
  <2>7. \A m \in Machines : MachineInv(m)'
    BY <1>0, <1>b, <2>2, <2>5 DEF MachineInv
  <2>8. QED
    BY <1>0, <2>2, <2>4, <2>6, <2>7 DEF ListsInv
<1>8. ASSUME NEW w \in Starters, NEW m \in Machines, Admit(m, w) PROVE ListsInv'
  <2> DEFINE tags == GetCloudTags(w, OwnAddress[m])
             p == [worker |-> w, others |-> {}, cloudTags |-> tags, indexed |-> tags]
  <2>1. machine[m] = NoMachine /\ memory[w].serving /\ OwnAddress[m] \notin Relays
        /\ machine' = [machine EXCEPT ![m] = p] /\ UNCHANGED <<building, files, memory, deaths>>
    BY <1>8 DEF Admit, IsIpBlocked
  <2>2. Loaded(w) = Clouds
    BY <1>0, <2>1 DEF MemoryInv
  <2>3. /\ RangesWith(OwnAddress[m]) = {} => tags = <<>>
        /\ RangesWith(OwnAddress[m]) # {} => \E r \in RangesWith(OwnAddress[m]) : tags = r.tags /\ r.tags # <<>>
        /\ tags \in TagsOf
    BY <1>0, <2>2, TagsFound
  <2>4. OwnAddress[m] \in AllAddresses \ Relays
    BY <2>1, MachinesAssumption
  <2> HIDE DEF tags
  <2>5. p \in Machine /\ p.worker = w
    BY <2>3 DEF Machine
  <2>6. p.indexed = p.cloudTags /\ p.others = {} /\ p.cloudTags = tags
    OBVIOUS
  <2> HIDE DEF p
  <2>7. TagsAreRight(p, OwnAddress[m])
    BY <2>3, <2>4, <2>6, RightTags
  <2>8. ListsTypeOK'
    BY <1>0, <2>1, <2>5 DEF ListsTypeOK
  <2>9. machine'[m] = p /\ \A n \in Machines \ {m} : machine'[n] = machine[n]
    BY <1>0, <2>1 DEF ListsTypeOK
  <2>10. \A n \in Machines : MachineInv(n)'
    BY <1>0, <2>1, <2>5, <2>7, <2>9 DEF MachineInv
  <2>11. QED
    BY <1>0, <2>1, <2>8, <2>10 DEF ListsInv, MemoryInv, Loaded
<1>9. ASSUME NEW m \in Machines, NEW claimed \in Claims[m], UpdateProbeAltIps(m, claimed) PROVE ListsInv'
  <2> DEFINE tags == NewTags(m, claimed)
             others == {claimed[k] : k \in Valid(m, claimed)}
             p == [machine[m] EXCEPT !.others = others, !.cloudTags = tags,
                                     !.indexed = IF tags = machine[m].cloudTags THEN machine[m].indexed ELSE tags]
  <2>1. machine[m] # NoMachine /\ machine' = [machine EXCEPT ![m] = p]
        /\ UNCHANGED <<building, files, memory, deaths>>
    BY <1>9 DEF UpdateProbeAltIps
  <2>2. /\ others \subseteq AllAddresses \ Relays
        /\ tags \in TagsOf
        /\ RangesWith(OwnAddress[m]) # {} => \E r \in RangesWith(OwnAddress[m]) : tags = r.tags
        /\ RangesWith(OwnAddress[m]) = {} /\ (\E a \in others : RangesWith(a) # {}) =>
             \E a \in others : RangesWith(a) # {} /\ \E r \in RangesWith(a) : tags = r.tags
        /\ RangesWith(OwnAddress[m]) = {} /\ (\A a \in others : RangesWith(a) = {}) => tags = <<>>
    BY <2>1, NewTagsRight
  <2> HIDE DEF tags, others
  <2>3. /\ machine[m] \in Machine /\ memory[machine[m].worker].serving
        /\ machine[m].indexed = machine[m].cloudTags /\ OwnAddress[m] \in AllAddresses \ Relays
    BY <1>0, <1>b, <2>1 DEF MachineInv, TagsAreRight
  <2>4. p.indexed = tags /\ p.cloudTags = tags /\ p.others = others /\ p.worker = machine[m].worker
    BY <2>3 DEF Machine
  <2>5. p \in Machine
    BY <2>2, <2>3 DEF Machine
  <2> HIDE DEF p
  <2>6. TagsAreRight(p, OwnAddress[m])
    BY <2>2, <2>3, <2>4, RightTags
  <2>7. ListsTypeOK'
    BY <1>0, <2>1, <2>5 DEF ListsTypeOK
  <2>8. machine'[m] = p /\ \A n \in Machines \ {m} : machine'[n] = machine[n]
    BY <1>0, <2>1 DEF ListsTypeOK
  <2>9. \A n \in Machines : MachineInv(n)'
    BY <1>0, <2>1, <2>3, <2>4, <2>6, <2>8 DEF MachineInv
  <2>10. QED
    BY <1>0, <2>1, <2>7, <2>9 DEF ListsInv, MemoryInv, Loaded
<1>10. CASE UNCHANGED listsVars
  BY <1>0, <1>m, <1>10 DEF ListsInv, ListsTypeOK, MemoryInv, Loaded, listsVars
<1>11. QED
  BY <1>2, <1>3, <1>4, <1>5, <1>6, <1>8, <1>9, <1>10 DEF ListsNext

\* The files, what is in memory and what probes are told fit together.
THEOREM ListsInvariant == ListsSpec => []ListsInv
<1>1. ListsInit => ListsInv
  BY CloudsAssumption, MachinesAssumption
  DEF ListsInit, ListsInv, ListsTypeOK, MemoryInv, MachineInv, Memory, NoMemory
<1>2. ListsInv /\ [ListsNext]_listsVars => ListsInv'
  BY ListsStepKeeps
<1>3. QED
  BY <1>1, <1>2, PTL DEF ListsSpec

\* The cloud tags of a probe are those of the first of its addresses that has any, for any clouds,
\* ranges that overlap in any way, and alternative IPs in any order.
THEOREM TagsAlwaysFollow == ListsSpec => []TagsFollowTheAddresses
<1>1. ListsInv => TagsFollowTheAddresses
  BY DEF ListsInv, MachineInv, TagsFollowTheAddresses
<1>2. QED
  BY <1>1, ListsInvariant, PTL

-------------------------------------------------------------------------------
(* GeoIp: places are right *)

\* A set of services that agree is one of the services that were asked, and is not empty.
LEMMA OftenCounts ==
  ASSUME NEW S \in SUBSET Services, NEW field
  PROVE  /\ \A i \in S : Often(S, i, field) \in Nat /\ Often(S, i, field) >= 1
         /\ \A i, k \in S : said[i][field] = said[k][field] => Often(S, i, field) = Often(S, k, field)
<1>1. ASSUME NEW i \in S PROVE Often(S, i, field) \in Nat /\ Often(S, i, field) >= 1
  <2> DEFINE G == {k \in S : said[k][field] = said[i][field]}
  <2>1. IsFiniteSet(G)
    BY ProvidersAssumption, FS_Subset
  <2>2. i \in G
    OBVIOUS
  <2>3. Cardinality(G) \in Nat /\ Cardinality(G) # 0
    BY <2>1, <2>2, FS_CardinalityType, FS_EmptySet
  <2>4. QED
    BY <2>3 DEF Often
<1>2. ASSUME NEW i \in S, NEW k \in S, said[i][field] = said[k][field]
      PROVE  Often(S, i, field) = Often(S, k, field)
  BY <1>2 DEF Often
<1>3. QED
  BY <1>1, <1>2

\* The services of which no other agree with more.
Largest(S, field) == {i \in S : \A k \in S : Often(S, k, field) <= Often(S, i, field)}

\* The group that is chosen is one of the largest; the lowest service of it is the lowest of all
\* that are in a largest group.
LEMMA TopRight ==
  ASSUME NEW S \in SUBSET Services, S # {}, NEW field
  PROVE  /\ Largest(S, field) # {}
         /\ Top(S, field) = {i \in S : said[i][field] = said[Min(Largest(S, field))][field]}
         /\ Top(S, field) # {} /\ Top(S, field) \in SUBSET Largest(S, field)
         /\ Min(Top(S, field)) = Min(Largest(S, field))
<1> DEFINE counts == {Often(S, i, field) : i \in S}
           L == Largest(S, field)
           T == Top(S, field)
<1>1. /\ \A i \in S : Often(S, i, field) \in Nat /\ Often(S, i, field) >= 1
      /\ \A i, k \in S : said[i][field] = said[k][field] => Often(S, i, field) = Often(S, k, field)
  BY OftenCounts
<1>2. Cardinality(S) \in Nat /\ IsFiniteSet(S)
  BY ProvidersAssumption, FS_Subset, FS_CardinalityType
<1>3. \A i \in S : Often(S, i, field) <= Cardinality(S)
  <2> SUFFICES ASSUME NEW i \in S PROVE Often(S, i, field) <= Cardinality(S)
    OBVIOUS
  <2>1. {k \in S : said[k][field] = said[i][field]} \in SUBSET S
    OBVIOUS
  <2>2. QED
    BY <1>2, <2>1, FS_Subset DEF Often
<1>4. \E n \in counts : \A m \in counts : m <= n
  <2>1. counts \in SUBSET Nat /\ counts # {} /\ \A n \in counts : n <= Cardinality(S)
    BY <1>1, <1>3
  <2> HIDE DEF counts
  <2>2. QED
    BY <1>2, <2>1, GreatestBounded
<1>5. L # {} /\ L \in SUBSET Nat
  BY <1>4, ProvidersAssumption DEF Largest
<1>6. Min(L) \in L /\ \A j \in L : Min(L) <= j
  BY <1>5, LowestIsThere
<1>7. T = {i \in S : said[i][field] = said[Min(L)][field]}
  BY DEF Top, Largest
<1> HIDE DEF L, T
<1>8. L = {i \in S : \A k \in S : Often(S, k, field) <= Often(S, i, field)}
  BY DEF L, Largest
<1>9. Min(L) \in T
  BY <1>6, <1>7, <1>8
<1>10. T \in SUBSET L
  BY <1>1, <1>6, <1>7, <1>8
<1>11. T \in SUBSET Nat /\ T # {}
  BY <1>5, <1>9, <1>10
<1>12. Min(T) \in T /\ \A j \in T : Min(T) <= j
  BY <1>11, LowestIsThere
<1>13. Min(T) = Min(L)
  <2>1. Min(T) \in Nat /\ Min(L) \in Nat /\ Min(T) <= Min(L) /\ Min(L) <= Min(T)
    BY <1>5, <1>6, <1>9, <1>10, <1>12
  <2>2. QED
    BY <2>1
<1>14. QED
  BY <1>5, <1>7, <1>9, <1>10, <1>13 DEF L, T

\* When the last of the services is alone in the group that is chosen there is no other.
LEMMA LastIsAlone ==
  ASSUME NEW S \in SUBSET Services, S # {}, NEW field, NEW x \in S, \A j \in S : j <= x,
         Min(Top(S, field)) = x
  PROVE  S = {x}
<1>1. Top(S, field) # {} /\ Top(S, field) \in SUBSET Largest(S, field) /\ Min(Largest(S, field)) = x
  BY TopRight
<1>2. Top(S, field) = {i \in S : said[i][field] = said[x][field]}
  BY <1>1, TopRight
<1>3. S \subseteq Nat
  BY ProvidersAssumption
<1>4. Top(S, field) \in SUBSET Nat /\ \A j \in Top(S, field) : x <= j
  <2>1. Top(S, field) \in SUBSET Nat
    BY <1>2, <1>3
  <2>2. QED
    BY <1>1, <2>1, LowestIsThere
<1>5. Top(S, field) = {x}
  <2>1. \A j \in Top(S, field) : j = x
    BY <1>2, <1>3, <1>4
  <2>2. QED
    BY <1>1, <2>1
<1>6. Often(S, x, field) = 1
  <2>1. {i \in S : said[i][field] = said[x][field]} = {x}
    BY <1>2, <1>5
  <2>2. QED
    BY <2>1, FS_Singleton DEF Often
<1>7. x \in Largest(S, field)
  BY <1>1, <1>5
<1>8. \A j \in S : j \in Largest(S, field)
  <2>1. \A j \in S : Often(S, j, field) \in Nat /\ Often(S, j, field) >= 1 /\ Often(S, j, field) <= 1
    BY <1>6, <1>7, OftenCounts DEF Largest
  <2>2. \A j \in S : Often(S, j, field) = 1
    BY <2>1
  <2>3. QED
    BY <2>2 DEF Largest
<1>9. \A j \in S : x <= j
  <2>1. Largest(S, field) \in SUBSET Nat /\ Largest(S, field) # {}
    BY <1>3, <1>7 DEF Largest
  <2>2. \A j \in Largest(S, field) : x <= j
    BY <1>1, <2>1, LowestIsThere
  <2>3. QED
    BY <1>8, <2>2
<1>10. \A j \in S : j = x
  BY <1>3, <1>9
<1>11. QED
  BY <1>10

\* Without services that name other countries the same group is chosen.
LEMMA SameGroup ==
  ASSUME NEW S \in SUBSET Services, S # {}, NEW R \in SUBSET S, NEW field, Top(S, field) \subseteq R
  PROVE  Top(R, field) = Top(S, field)
<1> DEFINE G == Top(S, field)
           x == Min(Largest(S, field))
<1>1. /\ G = {i \in S : said[i][field] = said[x][field]}
      /\ G # {} /\ G \in SUBSET Largest(S, field) /\ Min(G) = x
  BY TopRight
<1>2. R # {} /\ R \in SUBSET Services /\ S \subseteq Nat /\ IsFiniteSet(S) /\ IsFiniteSet(R)
  BY <1>1, ProvidersAssumption, FS_Subset
<1>3. x \in G /\ x \in Largest(S, field) /\ \A j \in Largest(S, field) : x <= j
  <2>1. Largest(S, field) \in SUBSET Nat /\ Largest(S, field) # {}
    BY <1>1, <1>2 DEF Largest
  <2>2. x \in Largest(S, field) /\ \A j \in Largest(S, field) : x <= j
    BY <2>1, LowestIsThere
  <2>3. x \in S
    BY <2>2 DEF Largest
  <2>4. QED
    BY <1>1, <2>2, <2>3
<1>4. \A k \in R : /\ Often(R, k, field) \in Nat /\ Often(S, k, field) \in Nat
                   /\ Often(R, k, field) <= Often(S, k, field)
  <2> SUFFICES ASSUME NEW k \in R
               PROVE  /\ Often(R, k, field) \in Nat /\ Often(S, k, field) \in Nat
                      /\ Often(R, k, field) <= Often(S, k, field)
    OBVIOUS
  <2> DEFINE A == {i \in R : said[i][field] = said[k][field]}
             B == {i \in S : said[i][field] = said[k][field]}
  <2>1. A \in SUBSET B /\ IsFiniteSet(B)
    BY <1>2, FS_Subset
  <2>2. Cardinality(A) <= Cardinality(B)
    BY <2>1, FS_Subset
  <2>3. Often(R, k, field) \in Nat /\ Often(S, k, field) \in Nat
    <3>1. k \in S /\ R \in SUBSET Services
      BY <1>2
    <3>2. Often(S, k, field) \in Nat
      BY <3>1, OftenCounts
    <3>3. Often(R, k, field) \in Nat
      BY <3>1, OftenCounts
    <3>4. QED
      BY <3>2, <3>3
  <2>4. Often(R, k, field) = Cardinality(A) /\ Often(S, k, field) = Cardinality(B)
    BY DEF Often
  <2>5. QED
    BY <2>2, <2>3, <2>4
<1>5. Often(R, x, field) = Often(S, x, field)
  <2>1. {i \in R : said[i][field] = said[x][field]} = {i \in S : said[i][field] = said[x][field]}
    BY <1>1
  <2>2. QED
    BY <2>1 DEF Often
<1>6. x \in R
  BY <1>3
<1>7. \A k \in S : Often(S, k, field) \in Nat /\ Often(S, k, field) <= Often(S, x, field)
  BY <1>3, OftenCounts DEF Largest
<1>8. x \in Largest(R, field)
  <2>1. \A k \in R : Often(R, k, field) <= Often(R, x, field)
    <3> SUFFICES ASSUME NEW k \in R PROVE Often(R, k, field) <= Often(R, x, field)
      OBVIOUS
    <3>1. /\ Often(R, k, field) \in Nat /\ Often(S, k, field) \in Nat /\ Often(S, x, field) \in Nat
          /\ Often(R, k, field) <= Often(S, k, field) /\ Often(S, k, field) <= Often(S, x, field)
      BY <1>3, <1>4, <1>6, <1>7
    <3>2. QED
      BY <1>5, <3>1
  <2>2. QED
    BY <1>6, <2>1 DEF Largest
<1>9. Largest(R, field) \subseteq Largest(S, field)
  <2> SUFFICES ASSUME NEW k \in Largest(R, field) PROVE k \in Largest(S, field)
    OBVIOUS
  <2>1. k \in R /\ k \in S /\ Often(R, x, field) <= Often(R, k, field)
    BY <1>6 DEF Largest
  <2>2. /\ Often(R, k, field) \in Nat /\ Often(S, k, field) \in Nat /\ Often(S, x, field) \in Nat
        /\ Often(R, k, field) <= Often(S, k, field)
    BY <1>4, <1>6, <2>1
  <2>3. Often(S, x, field) <= Often(S, k, field)
    BY <1>5, <2>1, <2>2
  <2>4. \A j \in S : Often(S, j, field) <= Often(S, k, field)
    <3> SUFFICES ASSUME NEW j \in S PROVE Often(S, j, field) <= Often(S, k, field)
      OBVIOUS
    <3>1. Often(S, j, field) \in Nat /\ Often(S, j, field) <= Often(S, x, field)
      BY <1>7
    <3>2. QED
      BY <2>2, <2>3, <3>1
  <2>5. QED
    BY <2>1, <2>4 DEF Largest
<1>10. Min(Largest(R, field)) = x
  <2>1. Largest(R, field) \in SUBSET Nat /\ Largest(R, field) # {}
    BY <1>2, <1>8 DEF Largest
  <2>2. Min(Largest(R, field)) \in Largest(R, field) /\ \A j \in Largest(R, field) : Min(Largest(R, field)) <= j
    BY <2>1, LowestIsThere
  <2>3. Min(Largest(R, field)) \in Nat /\ x \in Nat /\ Min(Largest(R, field)) <= x /\ x <= Min(Largest(R, field))
    BY <1>2, <1>3, <1>8, <1>9, <2>1, <2>2
  <2>4. QED
    BY <2>3
<1>11. Top(R, field) = {i \in R : said[i][field] = said[Min(Largest(R, field))][field]}
  BY <1>2, TopRight
<1>12. Top(R, field) = {i \in R : said[i][field] = said[x][field]}
  BY <1>10, <1>11
<1>13. QED
  BY <1>1, <1>12

\* The vote among any services is sound.
LEMMA VoteRight ==
  ASSUME NEW S \in SUBSET Services
  PROVE  /\ IsResolvable(S) => BestMatch(S) \in S
         /\ VoteIsSound(S)
<1> SUFFICES ASSUME IsResolvable(S) PROVE BestMatch(S) \in S /\ VoteIsSound(S)
  BY DEF VoteIsSound
<1> DEFINE L == Located(S)
           G == Top(L, "country")
           H == Top(G, "city")
           best == BestMatch(S)
<1>1. L \in SUBSET Services /\ L \in SUBSET S /\ L # {} /\ \A i \in L : L = {i} => Providers[i] # Fastly
  BY DEF IsResolvable, Located
<1>2. G # {} /\ G \in SUBSET Largest(L, "country") /\ G \in SUBSET L
  BY <1>1, TopRight DEF Largest
<1>3. H # {} /\ H \in SUBSET G /\ H \in SUBSET Nat
  <2>1. G \in SUBSET Services
    BY <1>1, <1>2
  <2>2. H # {} /\ H \in SUBSET Largest(G, "city")
    BY <1>2, <2>1, TopRight
  <2>3. QED
    BY <2>1, <2>2, ProvidersAssumption DEF Largest
<1>4. best = Min(H) /\ best \in H
  BY <1>3, LowestIsThere DEF BestMatch
<1>5. best \in G /\ best \in L /\ best \in S
  BY <1>1, <1>2, <1>3, <1>4
<1>6. Providers[best] # Fastly
  <2> SUFFICES ASSUME Providers[best] = Fastly PROVE FALSE
    OBVIOUS
  <2>1. \A j \in Services : j <= best
    BY <1>1, <1>5, ProvidersAssumption
  <2>2. G = {best}
    BY <1>1, <1>2, <1>4, <1>5, <2>1, LastIsAlone
  <2>3. Min(G) = best
    BY <1>1, <1>2, <2>2, LowestIsThere, ProvidersAssumption
  <2>4. L = {best}
    BY <1>1, <1>5, <2>1, <2>3, LastIsAlone
  <2>5. QED
    BY <1>1, <1>5, <2>4
<1>7. \A i \in L : Often(L, i, "country") <= Often(L, best, "country")
  BY <1>2, <1>5 DEF Largest
<1>8. ASSUME NEW F \in SUBSET {i \in S : said[i].country # said[best].country}
      PROVE  BestMatch(S \ F) = best
  <2>1. Located(S \ F) \in SUBSET L
    BY DEF Located
  <2>2. \A i \in G : said[i].country = said[best].country
    <3>1. G = {i \in L : said[i]["country"] = said[Min(Largest(L, "country"))]["country"]}
      BY <1>1, TopRight
    <3>2. QED
      BY <1>5, <3>1
  <2>3. G \subseteq Located(S \ F)
    BY <1>1, <1>2, <2>2 DEF Located
  <2>4. Top(Located(S \ F), "country") = G
    BY <1>1, <2>1, <2>3, SameGroup
  <2>5. QED
    BY <1>4, <2>4 DEF BestMatch
<1>9. ASSUME PlaceOf(S) # Unknown
      PROVE  \E i \in S : said[i].city = PlaceOf(S).city /\ said[i].asn = PlaceOf(S).asn
  <2> DEFINE known == {k \in S : said[k].city = said[best].city /\ said[k].asn # Unknown}
             match == said[Min(known)]
             same == {k \in S : said[k].asn = match.asn /\ Normal[said[k].network] = Normal[match.network]}
             network == MatchNetwork(best, S)
  <2>1. network # Unknown /\ PlaceOf(S).city = said[best].city /\ PlaceOf(S).asn = network.asn
    BY <1>9 DEF PlaceOf
  <2>2. known # {} /\ network = said[Min(same)]
    BY <2>1 DEF MatchNetwork
  <2>3. known \in SUBSET Nat
    BY ProvidersAssumption
  <2>4. Min(known) \in known
    BY <2>2, <2>3, LowestIsThere
  <2> HIDE DEF known
  <2>5. Min(known) \in S /\ said[Min(known)].city = said[best].city
    BY <2>4 DEF known
  <2>6. same # {} /\ same \in SUBSET Nat
    BY <2>5, ProvidersAssumption
  <2>7. Min(same) \in same
    BY <2>6, LowestIsThere
  <2>8. said[Min(same)].asn = said[Min(known)].asn
    BY <2>7
  <2>9. QED
    BY <2>1, <2>2, <2>5, <2>8
<1>10. QED
  BY <1>5, <1>6, <1>7, <1>8, <1>9 DEF VoteIsSound

\* What a node puts into the list is there, and who listens finds all of it; so does who has
\* finished.
FillingInv(n) ==
  /\ filling[n] # Unknown => Cities \ filling[n] \subseteq listed
  /\ filling[n] = Unknown \/ n \in listening => listed = Cities

\* The cached answer of a service.
AnswerRight(i) ==
  LET nearby == {c \in said[i].near : CountryOf[c] = said[i].country}
  IN said[i] # Unknown => said[i].city = Unknown \/ nearby = {} \/ said[i].city = NameOf[Max(nearby)]

GeoInv ==
  /\ GeoTypeOK
  /\ \A i \in Services : calling[i] # Unknown => calling[i].node \in listening
  /\ whereabouts # Unknown => whereabouts.country \in whereabouts.allowed
  /\ ~cleared => /\ \A n \in GeoNodes : FillingInv(n)
                 /\ \A i \in Services : AnswerRight(i)

\* Every step keeps the invariant.
LEMMA GeoStepKeeps ==
  ASSUME GeoInv, [GeoNext]_geoVars
  PROVE  GeoInv'
<1>0. /\ GeoTypeOK
      /\ \A i \in Services : calling[i] # Unknown => calling[i].node \in listening
      /\ whereabouts # Unknown => whereabouts.country \in whereabouts.allowed
      /\ ~cleared => /\ \A n \in GeoNodes : FillingInv(n)
                     /\ \A i \in Services : AnswerRight(i)
  BY DEF GeoInv
<1>t. /\ listed \subseteq Cities /\ listening \subseteq GeoNodes
      /\ filling \in [GeoNodes -> (SUBSET Cities) \cup {Unknown}]
      /\ calling \in [Services -> Calling \cup {Unknown}] /\ DOMAIN said = Services
      /\ \A i \in Services : calling[i] = Unknown \/ said[i] = Unknown
      /\ cleared \in BOOLEAN /\ mishaps \in 0..MaxMishaps /\ MaxMishaps \in Nat
  BY <1>0, GeoAssumption DEF GeoTypeOK
<1>c. Cities \in SUBSET Cities /\ Cities # Unknown /\ {} # Unknown
  BY UnknownAssumption
<1>s. ASSUME UNCHANGED said PROVE \A i \in Services : AnswerRight(i)' <=> AnswerRight(i)
  BY <1>s DEF AnswerRight
<1>1. ASSUME NEW n \in GeoNodes, NEW city \in Cities, AddCity(n, city) PROVE GeoInv'
  <2>1. /\ filling[n] # Unknown /\ city \in filling[n]
        /\ listed' = listed \cup {city} /\ filling' = [filling EXCEPT ![n] = filling[n] \ {city}]
        /\ UNCHANGED <<listening, calling, said, whereabouts, cleared, mishaps>>
    BY <1>1 DEF AddCity
  <2>2. filling[n] \in SUBSET Cities /\ filling[n] \ {city} \in SUBSET Cities
    BY <1>t, <2>1
  <2>3. filling[n] \ {city} # Unknown
    BY <2>2, UnknownAssumption
  <2>4. GeoTypeOK'
    BY <1>t, <2>1, <2>2 DEF GeoTypeOK
  <2>5. filling'[n] = filling[n] \ {city} /\ \A m \in GeoNodes \ {n} : filling'[m] = filling[m]
    BY <1>t, <2>1
  <2>6. ~cleared => \A m \in GeoNodes : FillingInv(m)'
    BY <1>0, <1>t, <2>1, <2>2, <2>3, <2>5 DEF FillingInv
  <2>7. QED
    BY <1>0, <1>s, <2>1, <2>4, <2>6 DEF GeoInv
<1>2. ASSUME NEW n \in GeoNodes, FinishFilling(n) PROVE GeoInv'
  <2>1. /\ filling[n] = {} /\ filling' = [filling EXCEPT ![n] = Unknown]
        /\ UNCHANGED <<listed, listening, calling, said, whereabouts, cleared, mishaps>>
    BY <1>2 DEF FinishFilling
  <2>2. GeoTypeOK'
    BY <1>t, <2>1 DEF GeoTypeOK
  <2>3. filling'[n] = Unknown /\ \A m \in GeoNodes \ {n} : filling'[m] = filling[m]
    BY <1>t, <2>1
  <2>4. ~cleared => listed = Cities
    BY <1>0, <1>c, <1>t, <2>1 DEF FillingInv
  <2>5. ~cleared => \A m \in GeoNodes : FillingInv(m)'
    BY <1>0, <2>1, <2>3, <2>4 DEF FillingInv
  <2>6. QED
    BY <1>0, <1>s, <2>1, <2>2, <2>5 DEF GeoInv
<1>3. ASSUME NEW n \in GeoNodes, ListenForProbes(n) PROVE GeoInv'
  <2>1. /\ filling[n] = Unknown /\ listening' = listening \cup {n}
        /\ UNCHANGED <<listed, filling, calling, said, whereabouts, cleared, mishaps>>
    BY <1>3 DEF ListenForProbes, IsReady
  <2>2. GeoTypeOK'
    BY <1>t, <2>1 DEF GeoTypeOK
  <2>3. ~cleared => \A m \in GeoNodes : FillingInv(m)'
    BY <1>0, <2>1 DEF FillingInv
  <2>4. QED
    BY <1>0, <1>s, <2>1, <2>2, <2>3 DEF GeoInv
<1>4. ASSUME NEW n \in GeoNodes, FillingFails(n) PROVE GeoInv'
  <2>1. /\ filling[n] # Unknown
        /\ filling' = [filling EXCEPT ![n] = IF n \in listening THEN Unknown ELSE Cities]
        /\ UNCHANGED <<listed, listening, said, whereabouts, cleared>>
    BY <1>4 DEF FillingFails
  <2>2. mishaps' \in 0..MaxMishaps
    BY <1>4, <1>t DEF FillingFails, Mishap
  <2>3. calling' \in [Services -> Calling \cup {Unknown}]
        /\ \A i \in Services : calling'[i] = Unknown \/ calling'[i] = calling[i]
    BY <1>4, <1>t DEF FillingFails
  <2>4. filling' \in [GeoNodes -> (SUBSET Cities) \cup {Unknown}]
    BY <1>t, <2>1
  <2>5. GeoTypeOK'
    BY <1>t, <2>1, <2>2, <2>3, <2>4 DEF GeoTypeOK
  <2>6. /\ filling'[n] = IF n \in listening THEN Unknown ELSE Cities
        /\ \A m \in GeoNodes \ {n} : filling'[m] = filling[m]
    BY <1>t, <2>1
  <2>7. ~cleared => \A m \in GeoNodes : FillingInv(m)'
    BY <1>0, <1>c, <2>1, <2>6 DEF FillingInv
  <2>8. QED
    BY <1>0, <1>s, <2>1, <2>3, <2>5, <2>7 DEF GeoInv
<1>5. ASSUME ClearRedis PROVE GeoInv'
  <2>1. listed' = {} /\ said' = [i \in Services |-> Unknown] /\ cleared' = TRUE
        /\ UNCHANGED <<filling, listening, calling, whereabouts>>
    BY <1>5 DEF ClearRedis
  <2>2. mishaps' \in 0..MaxMishaps
    BY <1>5, <1>t DEF ClearRedis, Mishap
  <2>3. GeoTypeOK'
    BY <1>t, <2>1, <2>2 DEF GeoTypeOK
  <2>4. QED
    BY <1>0, <2>1, <2>3 DEF GeoInv
<1>6. ASSUME NEW n \in GeoNodes, NEW i \in Services, NEW r \in Reports, AskService(n, i, r) PROVE GeoInv'
  <2> DEFINE waits == Approximated(r) /\ listed = {}
             call == [node |-> n, report |-> r, waits |-> waits]
  <2>1. /\ n \in listening /\ calling[i] = Unknown /\ said[i] = Unknown
        /\ calling' = [calling EXCEPT ![i] = call]
        /\ filling' = [filling EXCEPT ![n] = IF waits /\ filling[n] = Unknown THEN Cities ELSE filling[n]]
        /\ UNCHANGED <<listed, listening, said, whereabouts, cleared, mishaps>>
    BY <1>6 DEF AskService
  <2>2. waits \in BOOLEAN /\ (waits => listed = {})
    BY DEF Approximated
  <2> HIDE DEF waits
  <2>3. call \in Calling /\ call.node = n
    BY <2>2 DEF Calling
  <2> HIDE DEF call
  <2>4. filling' \in [GeoNodes -> (SUBSET Cities) \cup {Unknown}]
    BY <1>t, <2>1
  <2>5. GeoTypeOK'
    BY <1>t, <2>1, <2>3, <2>4 DEF GeoTypeOK
  <2>6. /\ filling'[n] = IF waits /\ filling[n] = Unknown THEN Cities ELSE filling[n]
        /\ \A m \in GeoNodes \ {n} : filling'[m] = filling[m]
    BY <1>t, <2>1
  <2>7. calling'[i] = call /\ \A k \in Services \ {i} : calling'[k] = calling[k]
    BY <1>t, <2>1
  <2>8. ~cleared => \A m \in GeoNodes : FillingInv(m)'
    BY <1>0, <1>c, <2>1, <2>2, <2>6 DEF FillingInv
  <2>9. QED
    BY <1>0, <1>s, <2>1, <2>3, <2>5, <2>7, <2>8 DEF GeoInv
<1>7. ASSUME NEW i \in Services, ServiceAnswers(i) PROVE GeoInv'
  <2> DEFINE r == calling[i].report
             given == [r EXCEPT !.city = CityOfReport(r)]
  <2>1. /\ calling[i] # Unknown /\ said' = [said EXCEPT ![i] = given]
        /\ calling' = [calling EXCEPT ![i] = Unknown]
        /\ UNCHANGED <<listed, filling, listening, whereabouts, cleared, mishaps>>
    BY <1>7 DEF ServiceAnswers
  <2>2. calling[i] \in Calling /\ r \in Reports /\ calling[i].node \in listening /\ calling[i].node \in GeoNodes
    BY <1>0, <1>t, <2>1 DEF Calling
  <2>3. r.near \subseteq Cities /\ {"city", "near", "country"} \subseteq DOMAIN r
    BY <2>2, GeoAssumption
  <2>4. given.city = CityOfReport(r) /\ given.near = r.near /\ given.country = r.country
    BY <2>3
  <2> HIDE DEF given, r
  <2>5. GeoTypeOK'
    BY <1>t, <2>1 DEF GeoTypeOK
  <2>6. ~cleared => AnswerRight(i)'
    <3> SUFFICES ASSUME ~cleared PROVE AnswerRight(i)'
      OBVIOUS
    <3>1. listed = Cities
      BY <1>0, <2>2 DEF FillingInv
    <3>2. {c \in r.near \cap listed : CountryOf[c] = r.country} = {c \in r.near : CountryOf[c] = r.country}
      BY <2>3, <3>1
    <3>3. said'[i] = given
      BY <1>t, <2>1
    <3>4. \/ given.city = Unknown
          \/ {c \in r.near : CountryOf[c] = r.country} = {}
          \/ given.city = NameOf[Max({c \in r.near : CountryOf[c] = r.country})]
      BY <2>4, <3>2 DEF CityOfReport, Approximated
    <3>5. QED
      BY <2>4, <3>3, <3>4 DEF AnswerRight
  <2>7. \A k \in Services \ {i} : said'[k] = said[k] /\ calling'[k] = calling[k]
    BY <1>t, <2>1
  <2>8. \A k \in Services \ {i} : AnswerRight(k)' <=> AnswerRight(k)
    BY <2>7 DEF AnswerRight
  <2>9. calling'[i] = Unknown
    BY <1>t, <2>1
  <2>10. ~cleared => \A n \in GeoNodes : FillingInv(n)'
    BY <1>0, <2>1 DEF FillingInv
  <2>11. QED
    BY <1>0, <2>1, <2>5, <2>6, <2>7, <2>8, <2>9, <2>10 DEF GeoInv
<1>8. ASSUME NEW i \in Services, ServiceFails(i) PROVE GeoInv'
  <2>1. calling' = [calling EXCEPT ![i] = Unknown]
        /\ UNCHANGED <<listed, filling, listening, said, whereabouts, cleared, mishaps>>
    BY <1>8 DEF ServiceFails
  <2>2. GeoTypeOK'
    BY <1>t, <2>1 DEF GeoTypeOK
  <2>3. \A k \in Services : calling'[k] = Unknown \/ calling'[k] = calling[k]
    BY <1>t, <2>1
  <2>4. ~cleared => \A n \in GeoNodes : FillingInv(n)'
    BY <1>0, <2>1 DEF FillingInv
  <2>5. QED
    BY <1>0, <1>s, <2>1, <2>2, <2>3, <2>4 DEF GeoInv
<1>9. ASSUME NEW i \in Services, ForgetAnswer(i) PROVE GeoInv'
  <2>1. said' = [said EXCEPT ![i] = Unknown]
        /\ UNCHANGED <<listed, filling, listening, calling, whereabouts, cleared, mishaps>>
    BY <1>9 DEF ForgetAnswer
  <2>2. said'[i] = Unknown /\ \A k \in Services \ {i} : said'[k] = said[k]
    BY <1>t, <2>1
  <2>3. GeoTypeOK'
    BY <1>t, <2>1 DEF GeoTypeOK
  <2>4. \A k \in Services : AnswerRight(k) => AnswerRight(k)'
    BY <2>2 DEF AnswerRight
  <2>5. ~cleared => \A n \in GeoNodes : FillingInv(n)'
    BY <1>0, <2>1 DEF FillingInv
  <2>6. QED
    BY <1>0, <2>1, <2>3, <2>4, <2>5 DEF GeoInv
<1>10. ASSUME NEW S \in SUBSET Services, LookupAddress(S) PROVE GeoInv'
  <2>1. whereabouts' = PlaceOf(S) /\ UNCHANGED <<listed, filling, listening, calling, said, cleared, mishaps>>
    BY <1>10 DEF LookupAddress
  <2>2. PlaceOf(S) # Unknown => PlaceOf(S).country \in PlaceOf(S).allowed
    <3> SUFFICES ASSUME PlaceOf(S) # Unknown PROVE PlaceOf(S).country \in PlaceOf(S).allowed
      OBVIOUS
    <3>1. IsResolvable(S)
      BY DEF PlaceOf
    <3>2. BestMatch(S) \in S
      BY <3>1, VoteRight
    <3>3. /\ PlaceOf(S).country = said[BestMatch(S)].country
          /\ PlaceOf(S).allowed = {said[i].country : i \in S}
      BY DEF PlaceOf
    <3>4. QED
      BY <3>2, <3>3
  <2>3. GeoTypeOK'
    BY <1>t, <2>1 DEF GeoTypeOK
  <2>4. ~cleared => \A n \in GeoNodes : FillingInv(n)'
    BY <1>0, <2>1 DEF FillingInv
  <2>5. QED
    BY <1>0, <1>s, <2>1, <2>2, <2>3, <2>4 DEF GeoInv
<1>11. CASE UNCHANGED geoVars
  <2>1. GeoTypeOK'
    BY <1>t, <1>11 DEF geoVars, GeoTypeOK
  <2>2. ~cleared => \A n \in GeoNodes : FillingInv(n)'
    BY <1>0, <1>11 DEF FillingInv, geoVars
  <2>3. QED
    BY <1>0, <1>s, <1>11, <2>1, <2>2 DEF GeoInv, geoVars
<1>12. QED
  BY <1>1, <1>2, <1>3, <1>4, <1>5, <1>6, <1>7, <1>8, <1>9, <1>10, <1>11 DEF GeoNext

\* The list of cities and the answers that are cached fit together.
THEOREM GeoInvariant == GeoSpec => []GeoInv
<1>1. GeoInit => GeoInv
  <2> SUFFICES ASSUME GeoInit PROVE GeoInv
    OBVIOUS
  <2>1. Cities # Unknown
    BY UnknownAssumption
  <2>2. GeoTypeOK
    <3>1. filling \in [GeoNodes -> (SUBSET Cities) \cup {Unknown}]
      BY DEF GeoInit
    <3>2. calling \in [Services -> Calling \cup {Unknown}] /\ DOMAIN said = Services
      BY DEF GeoInit
    <3>3. \A i \in Services : calling[i] = Unknown \/ said[i] = Unknown
      BY DEF GeoInit
    <3>4. mishaps \in 0..MaxMishaps
      BY GeoAssumption DEF GeoInit
    <3>5. listed \subseteq Cities /\ listening \subseteq GeoNodes /\ cleared \in BOOLEAN
      BY DEF GeoInit
    <3>6. QED
      BY <3>1, <3>2, <3>3, <3>4, <3>5 DEF GeoTypeOK
  <2>3. \A n \in GeoNodes : FillingInv(n)
    BY <2>1 DEF GeoInit, FillingInv
  <2>4. \A i \in Services : AnswerRight(i)
    BY DEF GeoInit, AnswerRight
  <2>5. QED
    BY <2>2, <2>3, <2>4 DEF GeoInit, GeoInv
<1>2. GeoInv /\ [GeoNext]_geoVars => GeoInv'
  BY GeoStepKeeps
<1>3. QED
  BY <1>1, <1>2, PTL DEF GeoSpec

\* For any number of services that say whatever they like: the one that is followed is never
\* fastly, its country is named most often, and who names another country makes no difference.
\* And until Redis loses the list every cached answer names the largest city nearby.
THEOREM PlacesAlwaysRight == GeoSpec => []PlacesAreRight
<1>1. GeoInv => PlacesAreRight
  <2> SUFFICES ASSUME GeoInv PROVE PlacesAreRight
    OBVIOUS
  <2>1. VoteIsSound({i \in Services : said[i] # Unknown})
    BY VoteRight
  <2>2. QED
    BY <2>1 DEF GeoInv, AnswerRight, PlacesAreRight
<1>2. QED
  BY <1>1, GeoInvariant, PTL

-------------------------------------------------------------------------------
(* Cluster: the processes *)

\* The workers whose place somebody has to take.
Failed == {w \in Pids : worker[w] = "failed"}
Waiting == unhandled \cup Failed

\* Workers are numbered as they are forked, and those that are to be replaced can be.
ForkInv ==
  /\ forks \in 1..MaxForks
  /\ \A w \in Pids : worker[w] = "none" <=> w > forks
  /\ \A w \in unhandled : worker[w] = "dead"
  /\ forks + Cardinality(Waiting) <= MaxForks

\* The worker with the task, and those that had it.
SyncInv ==
  /\ \A w \in syncing : w <= forks
  /\ primary = "running" => syncPid \in Alive \cup unhandled /\ syncing \cap Alive \subseteq {syncPid}

\* The signal has been told to some workers, and the timers of all of them run together.
DrainInv ==
  /\ signal = NoTime => told = {}
  /\ \A w \in Pids : drain[w] # NoTime => signal # NoTime /\ signal + drain[w] = SigtermDelay - DrainLead
  /\ \A w \in Pids : fetch[w] # "none" => signal # NoTime /\ signal >= SigtermDelay - DrainLead

\* Only workers that serve have probes.  A worker that was told and still has one waits to ask for
\* the sockets, or has asked; it has known for no longer than a handshake that is not over has taken,
\* and one that was over after the sockets were disconnected has outlasted the wait.
ProbeInv ==
  \A p \in ClusterProbes : probe[p].step # "away" =>
    /\ probe[p].at \in Pids /\ worker[probe[p].at] = "serving"
    /\ probe[p].at \in told =>
         /\ drain[probe[p].at] # NoTime \/ fetch[probe[p].at] # "none"
         /\ probe[p].step = "checking" => signal <= probe[p].age
         /\ probe[p].step = "connected" /\ (\E w \in Pids : fetch[w] = "over") =>
              probe[p].age >= SigtermDelay - DrainLead

ClusterInv == ClusterTypeOK /\ ForkInv /\ SyncInv /\ DrainInv /\ ProbeInv

\* Finite sets of workers have sizes, and the numbers are numbers.
LEMMA ClusterNumbers ==
  ASSUME ClusterTypeOK
  PROVE  /\ IsFiniteSet(Waiting) /\ Cardinality(Waiting) \in Nat
         /\ WorkerCount \in 1..MaxForks /\ MaxForks \in Nat /\ SigtermDelay \in Nat /\ DrainLead \in Nat
         /\ MaxHandshake \in Nat /\ 0 \notin Pids
<1>1. Waiting \subseteq 1..MaxForks /\ MaxForks \in Nat
  BY ClusterAssumption DEF ClusterTypeOK, Waiting, Failed, Pids
<1>2. IsFiniteSet(Waiting)
  <2>1. IsFiniteSet(1..MaxForks)
    BY <1>1, FS_Interval
  <2>2. QED
    BY <1>1, <2>1, FS_Subset
<1>3. QED
  BY <1>2, FS_CardinalityType, ClusterAssumption DEF Pids

\* A worker that is to be replaced can be.
LEMMA RoomToFork ==
  ASSUME ClusterTypeOK, ForkInv, NEW w \in Pids, HandleExit(w)
  PROVE  forks + 1 \in Pids
<1>1. Cardinality(Waiting) # 0
  <2>1. Waiting # {}
    BY DEF HandleExit, Waiting
  <2>2. QED
    BY <2>1, ClusterNumbers, FS_EmptySet
<1>2. QED
  BY <1>1, ClusterNumbers DEF ForkInv, Pids

\* What a death changes keeps its type.
LEMMA DiesType ==
  ASSUME ClusterTypeOK, NEW w \in Pids, Dies(w)
  PROVE  ClusterTypeOK'
<1>1. worker' \in [Pids -> {"none", "booting", "serving", "failed", "dead"}]
  BY DEF Dies, ClusterTypeOK
<1>2. drain' \in [Pids -> 0..SigtermDelay \cup {NoTime}]
  BY DEF Dies, ClusterTypeOK
<1>3. probe' \in [ClusterProbes -> [at : 0..MaxForks, step : {"away", "checking", "connected"},
                                   age : 0..MaxHandshake]]
  <2>1. Away \in [at : 0..MaxForks, step : {"away", "checking", "connected"}, age : 0..MaxHandshake]
    BY ClusterAssumption DEF Away
  <2>2. QED
    BY <2>1 DEF Dies, ClusterTypeOK
<1>4. unhandled' \subseteq Pids /\ UNCHANGED <<primary, forks, syncing, syncPid, signal, fetch, told>>
  BY DEF Dies, ClusterTypeOK
<1>5. QED
  BY <1>1, <1>2, <1>3, <1>4 DEF ClusterTypeOK

\* Every step keeps the types.
LEMMA ClusterTypeStep ==
  ASSUME ClusterTypeOK, ForkInv, [ClusterNext]_clusterVars
  PROVE  ClusterTypeOK'
<1> USE DEF ClusterTypeOK
<1>1. Away \in [at : 0..MaxForks, step : {"away", "checking", "connected"}, age : 0..MaxHandshake]
  BY ClusterAssumption DEF Away
<1>2. ASSUME NEW w \in Pids, Listen(w) \/ BootFails(w) PROVE ClusterTypeOK'
  BY <1>2 DEF Listen, BootFails
<1>3. ASSUME NEW w \in Pids, Crash(w) \/ ExitAfterFailure(w) PROVE ClusterTypeOK'
  BY <1>3, DiesType DEF Crash, ExitAfterFailure
<1>4. ASSUME NEW w \in Pids, HandleExit(w) PROVE ClusterTypeOK'
  <2>1. forks + 1 \in Pids
    BY <1>4, RoomToFork
  <2>2. forks' \in 0..MaxForks
    BY <1>4, <2>1, ClusterAssumption DEF HandleExit, Pids
  <2>3. worker' \in [Pids -> {"none", "booting", "serving", "failed", "dead"}]
    BY <1>4, <2>1 DEF HandleExit
  <2>4. syncing' \subseteq Pids /\ syncPid' \in Pids /\ unhandled' \subseteq Pids
    BY <1>4, <2>1 DEF HandleExit
  <2>5. QED
    BY <1>4, <2>2, <2>3, <2>4 DEF HandleExit
<1>5. ASSUME NEW w \in Pids, Hear(w) PROVE ClusterTypeOK'
  <2>1. SigtermDelay - DrainLead \in 0..SigtermDelay
    BY ClusterAssumption
  <2>2. QED
    BY <1>5, <2>1 DEF Hear
<1>6. ASSUME NEW w \in Pids, StartDrain(w) \/ DisconnectProbes(w) \/ DisconnectingFails(w) PROVE ClusterTypeOK'
  <2>1. CASE StartDrain(w)
    BY <2>1 DEF StartDrain
  <2>2. CASE DisconnectProbes(w)
    BY <1>1, <2>2 DEF DisconnectProbes
  <2>3. CASE DisconnectingFails(w)
    BY <2>3 DEF DisconnectingFails
  <2>4. QED
    BY <1>6, <2>1, <2>2, <2>3
<1>7. ASSUME NEW w \in Pids, NEW p \in ClusterProbes, Knock(p, w) PROVE ClusterTypeOK'
  BY <1>7, ClusterAssumption DEF Knock, Pids
<1>8. ASSUME NEW p \in ClusterProbes, Connect(p) \/ Disconnect(p) PROVE ClusterTypeOK'
  <2>1. [probe[p] EXCEPT !.step = "connected"]
          \in [at : 0..MaxForks, step : {"away", "checking", "connected"}, age : 0..MaxHandshake]
    OBVIOUS
  <2>2. CASE Connect(p)
    BY <2>1, <2>2 DEF Connect
  <2>3. CASE Disconnect(p)
    BY <1>1, <2>3 DEF Disconnect
  <2>4. QED
    BY <1>8, <2>2, <2>3
<1>9. ASSUME Terminate PROVE ClusterTypeOK'
  BY <1>9, ClusterAssumption DEF Terminate
<1>10. ASSUME Exit PROVE ClusterTypeOK'
  BY <1>1, <1>10 DEF Exit
<1>11. ASSUME ClusterTick PROVE ClusterTypeOK'
  <2>1. signal' \in 0..SigtermDelay \cup {NoTime}
    BY <1>11, ClusterAssumption DEF ClusterTick
  <2>2. drain' \in [Pids -> 0..SigtermDelay \cup {NoTime}]
    <3>1. \A w \in Pids : drain[w] # NoTime => drain[w] - 1 \in 0..SigtermDelay
      <4>1. ASSUME NEW w \in Pids, drain[w] # NoTime PROVE drain[w] - 1 \in 0..SigtermDelay
        <5>1. drain[w] # 0
          BY <1>11, <4>1 DEF ClusterTick
        <5>2. drain[w] \in 0..SigtermDelay
          BY <4>1
        <5>3. QED
          BY <5>1, <5>2, ClusterAssumption
      <4>2. QED
        BY <4>1
    <3>2. QED
      BY <1>11, <3>1 DEF ClusterTick
  <2>3. probe' \in [ClusterProbes -> [at : 0..MaxForks, step : {"away", "checking", "connected"},
                                     age : 0..MaxHandshake]]
    <3>1. \A p \in ClusterProbes : probe[p].step = "checking" => probe[p].age + 1 \in 0..MaxHandshake
      BY <1>11, ClusterAssumption DEF ClusterTick
    <3>2. ASSUME NEW p \in ClusterProbes, probe[p].step = "checking"
          PROVE  [probe[p] EXCEPT !.age = probe[p].age + 1]
                   \in [at : 0..MaxForks, step : {"away", "checking", "connected"}, age : 0..MaxHandshake]
      BY <3>1, <3>2
    <3>3. QED
      BY <1>11, <3>2 DEF ClusterTick
  <2>4. QED
    BY <1>11, <2>1, <2>2, <2>3 DEF ClusterTick
<1>12. ASSUME UNCHANGED clusterVars PROVE ClusterTypeOK'
  BY <1>12 DEF clusterVars
<1>13. QED
  BY <1>2, <1>3, <1>4, <1>5, <1>6, <1>7, <1>8, <1>9, <1>10, <1>11, <1>12 DEF ClusterNext

\* The workers of the host are those that were forked, and each that died can be replaced.
LEMMA ForkStep ==
  ASSUME ClusterTypeOK, ForkInv, [ClusterNext]_clusterVars
  PROVE  ForkInv'
<1> DEFINE Count == Cardinality(Waiting)
<1>a. forks \in Nat /\ MaxForks \in Nat /\ Count \in Nat /\ IsFiniteSet(Waiting)
  BY ClusterNumbers DEF ClusterTypeOK
\* No more workers wait than did, or one more where there is room for it.
<1>b. ASSUME NEW w \in Pids, Waiting' = Waiting \cup {w}, Replaceable
      PROVE  forks + Cardinality(Waiting') <= MaxForks
  <2>1. forks + Count < MaxForks
    BY <1>b DEF Replaceable, Waiting, Failed
  <2>2. Cardinality(Waiting') \in {Count, Count + 1}
    BY <1>a, <1>b, FS_AddElement
  <2> HIDE DEF Count
  <2>3. QED
    BY <1>a, <2>1, <2>2
<1>f. ASSUME UNCHANGED <<forks, worker, unhandled>> PROVE ForkInv'
  BY <1>f DEF ForkInv, Waiting, Failed
<1>1. ASSUME NEW w \in Pids, Listen(w) PROVE ForkInv'
  <2>1. Waiting' = Waiting
    BY <1>1 DEF Listen, Waiting, Failed, ClusterTypeOK
  <2>2. QED
    BY <1>1, <2>1 DEF Listen, ForkInv, ClusterTypeOK
<1>2. ASSUME NEW w \in Pids, BootFails(w) PROVE ForkInv'
  <2>1. Waiting' = Waiting \cup {w}
    BY <1>2 DEF BootFails, Waiting, Failed, ClusterTypeOK
  <2>2. forks + Cardinality(Waiting') <= MaxForks
    BY <1>b, <1>2, <2>1 DEF BootFails
  <2>3. QED
    BY <1>2, <2>2 DEF BootFails, ForkInv, ClusterTypeOK
<1>3. ASSUME NEW w \in Pids, Crash(w) PROVE ForkInv'
  <2>1. Waiting' = Waiting \cup {w}
    BY <1>3 DEF Crash, Dies, Waiting, Failed, ClusterTypeOK
  <2>2. forks + Cardinality(Waiting') <= MaxForks
    BY <1>b, <1>3, <2>1 DEF Crash
  <2>3. QED
    BY <1>3, <2>2 DEF Crash, Dies, ForkInv, ClusterTypeOK
<1>4. ASSUME NEW w \in Pids, ExitAfterFailure(w) PROVE ForkInv'
  <2>1. Waiting' = Waiting
    BY <1>4 DEF ExitAfterFailure, Dies, Waiting, Failed, ClusterTypeOK
  <2>2. QED
    BY <1>4, <2>1 DEF ExitAfterFailure, Dies, ForkInv, ClusterTypeOK
<1>5. ASSUME NEW w \in Pids, HandleExit(w) PROVE ForkInv'
  <2>1. forks + 1 \in Pids /\ forks' = forks + 1 /\ worker[w] = "dead" /\ worker[forks + 1] = "none"
    BY <1>5, <1>a, RoomToFork DEF HandleExit, ForkInv
  <2>2. Waiting' = Waiting \ {w} /\ w \in Waiting
    BY <1>5, <2>1 DEF HandleExit, Waiting, Failed, ClusterTypeOK
  <2>3. Cardinality(Waiting') = Count - 1
    BY <1>a, <2>2, FS_RemoveElement
  <2>4. forks' + Cardinality(Waiting') <= MaxForks
    <3>1. forks + Count <= MaxForks
      BY DEF ForkInv
    <3> HIDE DEF Count
    <3>2. QED
      BY <1>a, <2>1, <2>3, <3>1
  <2>5. \A v \in Pids : worker'[v] = "none" <=> v > forks'
    BY <1>5, <1>a, <2>1 DEF HandleExit, ForkInv, ClusterTypeOK, Pids
  <2>6. \A v \in unhandled' : worker'[v] = "dead"
    BY <1>5, <2>1 DEF HandleExit, ForkInv, ClusterTypeOK
  <2>7. QED
    BY <2>1, <2>4, <2>5, <2>6 DEF ForkInv, Pids
<1>6. ASSUME Exit PROVE ForkInv'
  <2>1. Waiting' = {}
    BY <1>6 DEF Exit, Waiting, Failed
  <2>2. Cardinality(Waiting') = 0
    BY <2>1, FS_EmptySet
  <2>3. QED
    BY <1>6, <1>a, <2>2 DEF Exit, ForkInv, Pids
<1>7. ASSUME NEW w \in Pids, \/ Hear(w) \/ StartDrain(w) \/ DisconnectProbes(w) \/ DisconnectingFails(w)
                             \/ \E p \in ClusterProbes : Knock(p, w)
      PROVE  ForkInv'
  BY <1>f, <1>7 DEF Hear, StartDrain, DisconnectProbes, DisconnectingFails, Knock
<1>8. ASSUME NEW p \in ClusterProbes, Connect(p) \/ Disconnect(p) PROVE ForkInv'
  BY <1>f, <1>8 DEF Connect, Disconnect
<1>9. ASSUME Terminate \/ ClusterTick \/ UNCHANGED clusterVars PROVE ForkInv'
  BY <1>f, <1>9 DEF Terminate, ClusterTick, clusterVars
<1>10. QED
  BY <1>1, <1>2, <1>3, <1>4, <1>5, <1>6, <1>7, <1>8, <1>9 DEF ClusterNext

\* The task stays with the worker that has it, or its exit, until a successor inherits it.
LEMMA SyncStep ==
  ASSUME ClusterTypeOK, ForkInv, SyncInv, [ClusterNext]_clusterVars
  PROVE  SyncInv'
<1> USE DEF ClusterTypeOK, ForkInv, SyncInv, Alive
<1>f. ASSUME UNCHANGED <<primary, forks, worker, syncing, syncPid, unhandled>> PROVE SyncInv'
  BY <1>f
<1>1. ASSUME NEW w \in Pids, Listen(w) \/ BootFails(w) PROVE SyncInv'
  BY <1>1 DEF Listen, BootFails
<1>2. ASSUME NEW w \in Pids, Crash(w) \/ ExitAfterFailure(w) PROVE SyncInv'
  BY <1>2 DEF Crash, ExitAfterFailure, Dies
<1>3. ASSUME NEW w \in Pids, HandleExit(w) PROVE SyncInv'
  <2>1. /\ forks \in Nat /\ forks + 1 \in Pids /\ worker[w] = "dead" /\ primary = "running"
        /\ forks' = forks + 1 /\ worker' = [worker EXCEPT ![forks + 1] = "booting"]
        /\ unhandled' = unhandled \ {w} /\ forks + 1 \notin syncing
    BY <1>3, RoomToFork DEF HandleExit
  <2>2. Alive' = Alive \cup {forks + 1}
    BY <2>1
  <2>3. CASE w = syncPid
    <3>1. syncing' = syncing \cup {forks + 1} /\ syncPid' = forks + 1
      BY <1>3, <2>3 DEF HandleExit, ForkSyncer
    <3>2. syncing \cap Alive = {}
      BY <2>1, <2>3
    <3>3. syncPid' \in Alive' /\ syncing' \cap Alive' \subseteq {syncPid'}
      BY <2>1, <2>2, <3>1, <3>2
    <3>4. \A v \in syncing' : v <= forks'
      BY <2>1, <3>1 DEF Pids
    <3>5. QED
      BY <3>3, <3>4
  <2>4. CASE w # syncPid
    <3>1. syncing' = syncing /\ syncPid' = syncPid
      BY <1>3, <2>4 DEF HandleExit, ForkSyncer
    <3>2. syncPid' \in Alive' \cup unhandled' /\ syncing' \cap Alive' \subseteq {syncPid'}
      BY <2>1, <2>2, <2>4, <3>1
    <3>3. \A v \in syncing' : v <= forks'
      BY <2>1, <3>1 DEF Pids
    <3>4. QED
      BY <3>2, <3>3
  <2>5. QED
    BY <2>3, <2>4
<1>4. ASSUME Exit PROVE SyncInv'
  BY <1>4 DEF Exit
<1>5. ASSUME NEW w \in Pids, \/ Hear(w) \/ StartDrain(w) \/ DisconnectProbes(w) \/ DisconnectingFails(w)
                             \/ \E p \in ClusterProbes : Knock(p, w)
      PROVE  SyncInv'
  BY <1>f, <1>5 DEF Hear, StartDrain, DisconnectProbes, DisconnectingFails, Knock
<1>6. ASSUME NEW p \in ClusterProbes, Connect(p) \/ Disconnect(p) PROVE SyncInv'
  BY <1>f, <1>6 DEF Connect, Disconnect
<1>7. ASSUME Terminate \/ ClusterTick \/ UNCHANGED clusterVars PROVE SyncInv'
  BY <1>f, <1>7 DEF Terminate, ClusterTick, clusterVars
<1>8. QED
  BY <1>1, <1>2, <1>3, <1>4, <1>5, <1>6, <1>7 DEF ClusterNext

-------------------------------------------------------------------------------
(* Cluster: the probes *)

\* No time is a number of ticks.
LEMMA Ticks ==
  ASSUME ClusterTypeOK
  PROVE  /\ NoTime \notin Nat /\ SigtermDelay \in Nat /\ DrainLead \in Nat /\ MaxHandshake \in Nat
         /\ SigtermDelay - DrainLead \in Nat
         /\ signal # NoTime => signal \in Nat
         /\ \A w \in Pids : drain[w] # NoTime => drain[w] \in Nat
         /\ \A p \in ClusterProbes : probe[p].age \in Nat
BY ClusterAssumption DEF ClusterTypeOK

\* The timers of the workers that were told run together with the signal.
LEMMA DrainStep ==
  ASSUME ClusterTypeOK, DrainInv, [ClusterNext]_clusterVars
  PROVE  DrainInv'
<1> USE DEF DrainInv
<1>f. ASSUME UNCHANGED <<signal, told, drain, fetch>> PROVE DrainInv'
  BY <1>f
<1>1. ASSUME NEW w \in Pids, \/ Crash(w) \/ ExitAfterFailure(w)
                             \/ DisconnectProbes(w) \/ DisconnectingFails(w)
      PROVE  DrainInv'
  <2>1. CASE Crash(w) \/ ExitAfterFailure(w)
    BY <2>1 DEF Crash, ExitAfterFailure, Dies, ClusterTypeOK
  <2>2. CASE DisconnectProbes(w) \/ DisconnectingFails(w)
    BY <2>2 DEF DisconnectProbes, DisconnectingFails, ClusterTypeOK
  <2>3. QED
    BY <1>1, <2>1, <2>2
\* The sockets are asked for when the time has come.
<1>10. ASSUME NEW w \in Pids, StartDrain(w) PROVE DrainInv'
  <2>1. drain[w] = 0 /\ 0 # NoTime /\ UNCHANGED <<signal, told>>
    BY <1>10, Ticks DEF StartDrain
  <2>2. signal # NoTime /\ signal + 0 = SigtermDelay - DrainLead /\ signal \in Nat
    BY <2>1, Ticks
  <2>3. signal >= SigtermDelay - DrainLead
    BY <2>2, Ticks
  <2>4. QED
    BY <1>10, <2>1, <2>2, <2>3 DEF StartDrain, ClusterTypeOK
<1>2. ASSUME NEW w \in Pids, Hear(w) PROVE DrainInv'
  <2>1. signal = 0 /\ signal' = 0 /\ 0 # NoTime /\ 0 + (SigtermDelay - DrainLead) = SigtermDelay - DrainLead
    BY <1>2, Ticks DEF Hear
  <2>2. \A v \in Pids : drain'[v] # NoTime =>
          drain'[v] = SigtermDelay - DrainLead \/ drain'[v] = drain[v]
    BY <1>2 DEF Hear, ClusterTypeOK
  <2>3. fetch' = fetch
    BY <1>2 DEF Hear
  <2>4. told' # {} /\ signal' # NoTime
    BY <1>2, <2>1 DEF Hear
  <2>5. QED
    BY <2>1, <2>2, <2>3, <2>4
<1>3. ASSUME Exit PROVE DrainInv'
  BY <1>3 DEF Exit
<1>4. ASSUME Terminate PROVE DrainInv'
  BY <1>4 DEF Terminate
<1>5. ASSUME ClusterTick PROVE DrainInv'
  <2>1. told' = told /\ (signal' = NoTime => signal = NoTime)
    BY <1>5, Ticks DEF ClusterTick
  <2>2. ASSUME NEW w \in Pids, drain'[w] # NoTime
        PROVE  signal' # NoTime /\ signal' + drain'[w] = SigtermDelay - DrainLead
    <3>1. drain[w] # NoTime /\ drain[w] # 0 /\ drain'[w] = drain[w] - 1
      BY <1>5, <2>2 DEF ClusterTick
    <3>2. signal # NoTime /\ signal + drain[w] = SigtermDelay - DrainLead
      BY <3>1
    <3>3. signal' = signal + 1 /\ signal \in Nat /\ drain[w] \in Nat /\ NoTime \notin Nat
      BY <1>5, <3>1, <3>2, Ticks DEF ClusterTick
    <3>4. QED
      BY <3>1, <3>2, <3>3, Ticks
  <2>3. ASSUME NEW w \in Pids, fetch'[w] # "none"
        PROVE  signal' # NoTime /\ signal' >= SigtermDelay - DrainLead
    <3>1. signal # NoTime /\ signal >= SigtermDelay - DrainLead
      BY <1>5, <2>3 DEF ClusterTick
    <3>2. signal' = signal + 1 /\ signal \in Nat /\ NoTime \notin Nat
      BY <1>5, <3>1, Ticks DEF ClusterTick
    <3>3. QED
      BY <3>1, <3>2, Ticks
  <2>4. QED
    BY <2>1, <2>2, <2>3
<1>6. ASSUME NEW w \in Pids, \/ Listen(w) \/ BootFails(w) \/ HandleExit(w)
                             \/ \E p \in ClusterProbes : Knock(p, w)
      PROVE  DrainInv'
  BY <1>f, <1>6 DEF Listen, BootFails, HandleExit, Knock
<1>7. ASSUME NEW p \in ClusterProbes, Connect(p) \/ Disconnect(p) PROVE DrainInv'
  BY <1>f, <1>7 DEF Connect, Disconnect
<1>8. ASSUME UNCHANGED clusterVars PROVE DrainInv'
  BY <1>f, <1>8 DEF clusterVars
<1>11. QED
  BY <1>1, <1>2, <1>3, <1>4, <1>5, <1>6, <1>7, <1>8, <1>10 DEF ClusterNext

\* What ProbeInv says of one probe.
Served(p) ==
  probe[p].step # "away" =>
    /\ probe[p].at \in Pids /\ worker[probe[p].at] = "serving"
    /\ probe[p].at \in told =>
         /\ drain[probe[p].at] # NoTime \/ fetch[probe[p].at] # "none"
         /\ probe[p].step = "checking" => signal <= probe[p].age
         /\ probe[p].step = "connected" /\ (\E w \in Pids : fetch[w] = "over") =>
              probe[p].age >= SigtermDelay - DrainLead

\* A probe keeps its worker, and one that its worker cannot keep is disconnected first.
LEMMA ClusterProbeStep ==
  ASSUME ClusterTypeOK, ClusterTypeOK', ForkInv, DrainInv, ProbeInv, [ClusterNext]_clusterVars
  PROVE  ProbeInv'
<1> SUFFICES ASSUME NEW p \in ClusterProbes PROVE Served(p)'
  BY DEF ProbeInv, Served
<1>a. Served(p)
  BY DEF ProbeInv, Served
<1>b. Away.step = "away" /\ Away.at = 0
  BY DEF Away
<1> USE DEF Served
<1>f. ASSUME UNCHANGED <<worker, told, drain, fetch, signal>>, probe'[p] = probe[p] \/ probe'[p].step = "away"
      PROVE  Served(p)'
  BY <1>a, <1>f
<1>1. ASSUME NEW w \in Pids, Listen(w) \/ BootFails(w) PROVE Served(p)'
  BY <1>1, <1>a DEF Listen, BootFails, ClusterTypeOK
<1>2. ASSUME NEW w \in Pids, Crash(w) \/ ExitAfterFailure(w) PROVE Served(p)'
  BY <1>2, <1>a, <1>b DEF Crash, ExitAfterFailure, Dies, ClusterTypeOK
<1>3. ASSUME NEW w \in Pids, HandleExit(w) PROVE Served(p)'
  <2>1. forks + 1 \in Pids /\ worker[forks + 1] = "none"
    BY <1>3, RoomToFork, ClusterNumbers DEF HandleExit, ForkInv, ClusterTypeOK
  <2>2. QED
    BY <1>3, <1>a, <2>1 DEF HandleExit, ClusterTypeOK
\* A worker hears of the signal at once: who is still connecting cannot have begun later.
<1>4. ASSUME NEW w \in Pids, Hear(w) PROVE Served(p)'
  <2>1. signal = 0 /\ signal' = 0 /\ probe' = probe /\ worker' = worker /\ told' = told \cup {w}
    BY <1>4 DEF Hear
  <2>2. 0 <= probe[p].age
    BY Ticks
  <2>3. worker[w] = "serving" => drain'[w] # NoTime
    BY <1>4, Ticks DEF Hear, ClusterTypeOK
  <2>4. \A v \in Pids : v # w => drain'[v] = drain[v]
    BY <1>4 DEF Hear, ClusterTypeOK
  <2>5. (\E v \in Pids : fetch[v] = "over") => probe[p].age >= SigtermDelay - DrainLead
    BY <2>1, <2>2, Ticks DEF DrainInv
  <2>6. fetch' = fetch
    BY <1>4 DEF Hear
  <2>7. QED
    BY <1>a, <2>1, <2>2, <2>3, <2>4, <2>5, <2>6
<1>14. ASSUME NEW w \in Pids, StartDrain(w) PROVE Served(p)'
  <2>1. UNCHANGED <<worker, signal, told, probe>> /\ fetch' = [fetch EXCEPT ![w] = "running"]
    BY <1>14 DEF StartDrain
  <2>2. \A v \in Pids : v # w => drain'[v] = drain[v] /\ fetch'[v] = fetch[v]
    BY <1>14 DEF StartDrain, ClusterTypeOK
  <2>3. fetch'[w] = "running"
    BY <2>1 DEF ClusterTypeOK
  <2>4. (\E v \in Pids : fetch'[v] = "over") => \E v \in Pids : fetch[v] = "over"
    BY <2>2, <2>3
  <2>5. QED
    BY <1>a, <2>1, <2>2, <2>3, <2>4
<1>15. ASSUME NEW w \in Pids, DisconnectingFails(w) PROVE Served(p)'
  <2>1. UNCHANGED <<worker, signal, drain, told, probe>>
    BY <1>15 DEF DisconnectingFails
  <2>2. \A v \in Pids : v # w => fetch'[v] = fetch[v]
    BY <1>15 DEF DisconnectingFails, ClusterTypeOK
  <2>3. fetch'[w] = "failed" /\ fetch[w] # "none"
    BY <1>15 DEF DisconnectingFails, ClusterTypeOK
  <2>4. (\E v \in Pids : fetch'[v] = "over") => \E v \in Pids : fetch[v] = "over"
    BY <2>2, <2>3
  <2>5. QED
    BY <1>a, <2>1, <2>2, <2>3, <2>4
\* Only those stay that are not over with their handshakes.
<1>5. ASSUME NEW w \in Pids, DisconnectProbes(w) PROVE Served(p)'
  <2>1. UNCHANGED <<worker, signal, drain, told>>
    BY <1>5 DEF DisconnectProbes
  <2>2. \A v \in Pids : fetch[v] # "none" => fetch'[v] # "none"
    BY <1>5 DEF DisconnectProbes, ClusterTypeOK
  <2>3. probe[p].step = "connected" => probe'[p].step = "away"
    BY <1>5, <1>b DEF DisconnectProbes
  <2>4. probe[p].step # "connected" => probe'[p] = probe[p]
    BY <1>5 DEF DisconnectProbes
  <2>5. probe[p].step \in {"away", "checking", "connected"}
    BY DEF ClusterTypeOK
  <2>6. QED
    BY <1>a, <2>1, <2>2, <2>3, <2>4, <2>5
<1>6. ASSUME NEW w \in Pids, NEW q \in ClusterProbes, Knock(q, w) PROVE Served(p)'
  <2>1. UNCHANGED <<worker, told, drain, fetch, signal>> /\ worker[w] = "serving" /\ w \notin told
    BY <1>6 DEF Knock, Welcoming
  <2>2. q # p => probe'[p] = probe[p]
    BY <1>6 DEF Knock
  <2>3. q = p => probe'[p].at = w
    BY <1>6 DEF Knock, ClusterTypeOK
  <2>4. QED
    BY <1>a, <2>1, <2>2, <2>3
<1>7. ASSUME NEW q \in ClusterProbes, Connect(q) PROVE Served(p)'
  <2>1. UNCHANGED <<worker, told, drain, fetch, signal>> /\ probe[q].step = "checking"
    BY <1>7 DEF Connect
  <2>2. q # p => probe'[p] = probe[p]
    BY <1>7 DEF Connect
  <2>3. q = p => /\ probe'[p].at = probe[p].at /\ probe'[p].age = probe[p].age
                 /\ probe'[p].step = "connected"
    BY <1>7 DEF Connect, ClusterTypeOK
  <2>4. CASE q # p
    BY <1>a, <2>1, <2>2, <2>4
  <2>5. CASE q = p
    <3>1. /\ probe[p].at \in Pids /\ worker[probe[p].at] = "serving"
          /\ probe[p].at \in told =>
               (drain[probe[p].at] # NoTime \/ fetch[probe[p].at] # "none") /\ signal <= probe[p].age
      BY <1>a, <2>1, <2>5
    <3>2. (\E w \in Pids : fetch[w] = "over") => signal \in Nat /\ signal >= SigtermDelay - DrainLead
      BY Ticks DEF DrainInv
    <3>3. ASSUME probe[p].at \in told, \E w \in Pids : fetch[w] = "over"
          PROVE  probe[p].age >= SigtermDelay - DrainLead
      BY <3>1, <3>2, <3>3, Ticks
    <3>4. QED
      BY <2>1, <2>3, <2>5, <3>1, <3>3
  <2>6. QED
    BY <2>4, <2>5
<1>8. ASSUME NEW q \in ClusterProbes, Disconnect(q) PROVE Served(p)'
  BY <1>f, <1>8, <1>b DEF Disconnect, ClusterTypeOK
<1>9. ASSUME Exit PROVE Served(p)'
  BY <1>9, <1>b DEF Exit
<1>10. ASSUME Terminate PROVE Served(p)'
  <2>1. told' = {}
    BY <1>10 DEF Terminate, DrainInv
  <2>2. QED
    BY <1>10, <1>a, <2>1 DEF Terminate
\* A tick of the signal is a tick of every handshake.
<1>11. ASSUME ClusterTick PROVE Served(p)'
  <2>1. /\ UNCHANGED <<worker, told, fetch>> /\ probe'[p].step = probe[p].step /\ probe'[p].at = probe[p].at
        /\ probe[p].step = "connected" => probe'[p] = probe[p]
    BY <1>11 DEF ClusterTick, ClusterTypeOK
  <2>2. \A w \in Pids : drain[w] # NoTime => drain'[w] # NoTime
    BY <1>11, Ticks DEF ClusterTick
  <2>3. ASSUME probe[p].step = "checking", probe[p].at \in told PROVE signal' <= probe'[p].age
    <3>1. probe'[p].age = probe[p].age + 1
      BY <1>11, <2>3 DEF ClusterTick, ClusterTypeOK
    <3>2. signal # NoTime /\ signal' = signal + 1 /\ signal <= probe[p].age
      BY <1>11, <1>a, <2>3 DEF ClusterTick, DrainInv
    <3>3. QED
      BY <3>1, <3>2, Ticks
  <2>4. QED
    BY <1>a, <2>1, <2>2, <2>3
<1>12. ASSUME UNCHANGED clusterVars PROVE Served(p)'
  BY <1>f, <1>12 DEF clusterVars
<1>16. QED
  BY <1>1, <1>2, <1>3, <1>4, <1>5, <1>6, <1>7, <1>8, <1>9, <1>10, <1>11, <1>12, <1>14, <1>15 DEF ClusterNext

-------------------------------------------------------------------------------
(* Cluster: the theorems *)

\* The host is in order: for any number of workers and probes, however many workers die.
THEOREM ClusterInvariant == ClusterSpec => []ClusterInv
<1>1. ClusterInit => ClusterInv
  <2> SUFFICES ASSUME ClusterInit PROVE ClusterInv
    OBVIOUS
  <2> USE ClusterAssumption DEF ClusterInit
  <2>1. 1 \in Pids /\ Away \in [at : 0..MaxForks, step : {"away", "checking", "connected"}, age : 0..MaxHandshake]
    BY DEF Pids, Away
  <2>2. ClusterTypeOK
    BY <2>1 DEF ClusterTypeOK
  <2>3. ForkInv
    <3>1. Waiting = {}
      BY DEF Waiting, Failed
    <3>2. QED
      BY <3>1, FS_EmptySet DEF ForkInv, Pids
  <2>4. SyncInv
    BY <2>1 DEF SyncInv, Alive
  <2>5. DrainInv
    BY DEF DrainInv
  <2>6. ProbeInv
    BY DEF ProbeInv, Away
  <2>7. QED
    BY <2>2, <2>3, <2>4, <2>5, <2>6 DEF ClusterInv
<1>2. ClusterInv /\ [ClusterNext]_clusterVars => ClusterInv'
  BY ClusterTypeStep, ForkStep, SyncStep, DrainStep, ClusterProbeStep DEF ClusterInv
<1>3. QED
  BY <1>1, <1>2, PTL DEF ClusterSpec

\* There are never two workers with the task, and when no living worker has it the exit of the
\* last one that had is still to be handled.
THEOREM OneWorkerAlwaysSyncs == ClusterSpec => []OneWorkerSyncs
<1>1. ClusterInv => OneWorkerSyncs
  BY DEF ClusterInv, SyncInv, OneWorkerSyncs
<1>2. QED
  BY <1>1, ClusterInvariant, PTL

\* When the host exits, a probe is cut off whose worker knew that it would only if its handshake
\* outlasted the wait of the worker, or if its worker has asked for the sockets and none has had an
\* answer: for any number of workers and probes, and whatever a handshake and a fetch take.
THEOREM ProbesAlwaysLeaveInTime == ClusterSpec => ProbesLeaveInTime
<1> DEFINE A == primary' # primary =>
                  \A p \in ClusterProbes : probe[p].step = "connected" /\ probe[p].at \in told =>
                    \/ probe[p].age >= SigtermDelay - DrainLead
                    \/ fetch[probe[p].at] # "none" /\ \A w \in Pids : fetch[w] # "over"
<1>1. ClusterInv /\ [ClusterNext]_clusterVars => [A]_clusterVars
  <2> SUFFICES ASSUME ClusterInv, ClusterNext, primary' # primary,
                      NEW p \in ClusterProbes, probe[p].step = "connected", probe[p].at \in told,
                      ~(probe[p].age >= SigtermDelay - DrainLead)
               PROVE  fetch[probe[p].at] # "none" /\ \A w \in Pids : fetch[w] # "over"
    OBVIOUS
  <2>1. signal = SigtermDelay
    BY DEF ClusterNext, Listen, BootFails, Crash, ExitAfterFailure, Dies, HandleExit, Hear, StartDrain,
           DisconnectProbes, DisconnectingFails, Knock, Connect, Disconnect, Terminate, Exit, ClusterTick
  <2>2. /\ probe[p].at \in Pids
        /\ drain[probe[p].at] # NoTime \/ fetch[probe[p].at] # "none"
        /\ \A w \in Pids : fetch[w] # "over"
    BY DEF ClusterInv, ProbeInv
  <2>3. ASSUME drain[probe[p].at] # NoTime PROVE FALSE
    <3>1. signal + drain[probe[p].at] = SigtermDelay - DrainLead /\ drain[probe[p].at] \in Nat
      BY <2>2, <2>3, Ticks DEF ClusterInv, DrainInv
    <3>2. QED
      BY <2>1, <3>1, ClusterAssumption
  <2>4. QED
    BY <2>2, <2>3
<1>2. QED
  BY <1>1, ClusterInvariant, PTL DEF ClusterSpec, ProbesLeaveInTime

-------------------------------------------------------------------------------
(* The process *)

\* The components of a process step on their own: a behaviour of the process is one of each of them.
THEOREM EveryComponentBehaves ==
  ProcessSpec => /\ AnswersSpec /\ SchedulesSpec /\ TokensSpec /\ OverridesSpec /\ SelectionSpec
                 /\ GeoSpec /\ LimitsSpec /\ ListsSpec /\ ClusterSpec
<1>1. ProcessInit => /\ AnswersInit /\ SchedulesInit /\ TokensInit /\ OverridesInit /\ SelectionInit
                     /\ GeoInit /\ LimitsInit /\ ListsInit /\ ClusterInit
  BY DEF ProcessInit
<1>2. [ProcessNext]_processVars => [AnswersNext]_answersVars
  BY DEF ProcessNext, processVars, AnswersStep, SchedulesStep, TokensStep, OverridesStep, SelectionStep,
         GeoStep, LimitsStep, ListsStep, ClusterStep
<1>3. [ProcessNext]_processVars => [SchedulesNext]_schedulesVars
  BY DEF ProcessNext, processVars, AnswersStep, SchedulesStep, TokensStep, OverridesStep, SelectionStep,
         GeoStep, LimitsStep, ListsStep, ClusterStep
<1>4. [ProcessNext]_processVars => [TokensNext]_tokensVars
  BY DEF ProcessNext, processVars, AnswersStep, SchedulesStep, TokensStep, OverridesStep, SelectionStep,
         GeoStep, LimitsStep, ListsStep, ClusterStep
<1>5. [ProcessNext]_processVars => [OverridesNext]_overridesVars
  BY DEF ProcessNext, processVars, AnswersStep, SchedulesStep, TokensStep, OverridesStep, SelectionStep,
         GeoStep, LimitsStep, ListsStep, ClusterStep
<1>6. [ProcessNext]_processVars => [SelectionNext]_selectionVars
  BY DEF ProcessNext, processVars, AnswersStep, SchedulesStep, TokensStep, OverridesStep, SelectionStep,
         GeoStep, LimitsStep, ListsStep, ClusterStep
<1>7. [ProcessNext]_processVars => [GeoNext]_geoVars
  BY DEF ProcessNext, processVars, AnswersStep, SchedulesStep, TokensStep, OverridesStep, SelectionStep,
         GeoStep, LimitsStep, ListsStep, ClusterStep
<1>8. [ProcessNext]_processVars => [LimitsNext]_limitsVars
  BY DEF ProcessNext, processVars, AnswersStep, SchedulesStep, TokensStep, OverridesStep, SelectionStep,
         GeoStep, LimitsStep, ListsStep, ClusterStep
<1>9. [ProcessNext]_processVars => [ListsNext]_listsVars
  BY DEF ProcessNext, processVars, AnswersStep, SchedulesStep, TokensStep, OverridesStep, SelectionStep,
         GeoStep, LimitsStep, ListsStep, ClusterStep
<1>10. [ProcessNext]_processVars => [ClusterNext]_clusterVars
  BY DEF ProcessNext, processVars, AnswersStep, SchedulesStep, TokensStep, OverridesStep, SelectionStep,
         GeoStep, LimitsStep, ListsStep, ClusterStep
<1>11. QED
  BY <1>1, <1>2, <1>3, <1>4, <1>5, <1>6, <1>7, <1>8, <1>9, <1>10, PTL
  DEF ProcessSpec, AnswersSpec, SchedulesSpec, TokensSpec, OverridesSpec, SelectionSpec, GeoSpec,
      LimitsSpec, ListsSpec, ClusterSpec

\* What is proved of the components holds of the process: no timer is lost, the cache of the
\* overrides follows the table, earlier probes are seen, surplus probes are the right ones, one worker
\* syncs, immutable answers are final, tags follow the addresses, places are right, limits are met and
\* probes are spread.
THEOREM ProcessIsSafe ==
  ProcessSpec => [](/\ NoTimerIsLost /\ CacheFollowsTheTable /\ EarlierProbesAreSeen
                    /\ SurplusIsRight /\ OneWorkerSyncs /\ ImmutableAnswersAreFinal
                    /\ TagsFollowTheAddresses /\ PlacesAreRight /\ LimitIsMet /\ ProbesAreSpread)
BY EveryComponentBehaves, TimersNeverLost, CacheAlwaysFollows, EarlierProbesAlwaysSeen,
   SurplusAlwaysRight, OneWorkerAlwaysSyncs, ImmutableAnswersAlwaysFinal, TagsAlwaysFollow, PlacesAlwaysRight,
   LimitAlwaysMet, ProbesAlwaysSpread, PTL

\* And of its steps: a request is decided by what the table said recently, and no probe is cut off
\* by the exit of its host, but for those whose handshake outlasts the drain, or whose sockets
\* no worker has found.
THEOREM ProcessStepsAreSafe == ProcessSpec => AnswersAreRecent /\ ProbesLeaveInTime
BY EveryComponentBehaves, AnswersAlwaysRecent, ProbesAlwaysLeaveInTime
===============================================================================
