------------------------------ MODULE AddressLists ------------------------------
(***************************************************************************)
(* The lists of addresses that are downloaded when the API is built and    *)
(* read into memory by every worker that starts: which addresses probes    *)
(* must not have, and which clouds addresses are part of, for the tags of  *)
(* probes.  (What must not be measured is downloaded and read with them,   *)
(* and left out here.)                                                     *)
(*   src/src/lib/download-files.ts, src/src/lib/server.ts                  *)
(*   src/src/lib/blocked-ip-ranges.ts, src/src/lib/cloud-ip-ranges.ts      *)
(*   src/src/probe/builder.ts (tags)                                       *)
(***************************************************************************)
EXTENDS Naturals, FiniteSets, Sequences, SequencesExt

CONSTANTS Relays,      \* appleRelay
          Clouds,      \* sources of cloud-ip-ranges.ts
          CloudRanges, \* the ranges of each cloud in order: tags, bucket and addresses
          BucketOf,    \* the first octet or segment of every address
          Starters,    \* workers
          Machines,    \* probes
          OwnAddress,  \* of each
          Claims,      \* the lists of alternative IPs each may send, with valid tokens
          MaxDeaths    \* bound on the deaths of workers

AllAddresses == DOMAIN BucketOf

\* "Assumes all IPv4 ranges are at least /8 and all IPv6 ranges are at least /16"
\* Every range has tags.
ASSUME CloudsAssumption ==
  /\ Clouds # {}
  /\ \A c \in Clouds : /\ CloudRanges[c] \in Seq(ToSet(CloudRanges[c]))
                       /\ \A r \in ToSet(CloudRanges[c]) :
                            r.tags # <<>> /\ \A a \in r.addresses : BucketOf[a] = r.bucket
ASSUME MachinesAssumption ==
  /\ 0 \notin Starters \* no worker
  /\ MaxDeaths \in Nat
  /\ \A m \in Machines : OwnAddress[m] \in AllAddresses /\ Claims[m] \subseteq Seq(AllAddresses)

VARIABLES
  building,   \* progress of download-files.ts
  files,      \* the clouds whose files it has written
  memory,     \* what each worker has in memory, and whether it serves
  machine,    \* each probe: its worker, alternative IPs, tags, and the tags in its index
  deaths      \* deaths of workers so far

listsVars == <<building, files, memory, machine, deaths>>

NoMemory == [clouds |-> <<>>, serving |-> FALSE]
NoMachine == [worker |-> 0, others |-> {}, cloudTags |-> <<>>, indexed |-> <<>>]
AllRanges == UNION {ToSet(CloudRanges[c]) : c \in Clouds}
TagsOf == {<<>>} \cup {r.tags : r \in AllRanges}
Memory == [clouds : Seq(Clouds), serving : BOOLEAN]
Machine == [worker : Starters, others : SUBSET AllAddresses, cloudTags : TagsOf, indexed : TagsOf]

ListsTypeOK ==
  /\ building \in {"blacklists", "clouds", "relays", "done", "failed"}
  /\ files \subseteq Clouds
  /\ memory \in [Starters -> Memory]
  /\ machine \in [Machines -> Machine \cup {NoMachine}]
  /\ deaths \in 0..MaxDeaths

ListsInit ==
  /\ building = "blacklists"
  /\ files = {}
  /\ memory = [w \in Starters |-> NoMemory]
  /\ machine = [m \in Machines |-> NoMachine]
  /\ deaths = 0

-------------------------------------------------------------------------------
(* download-files.ts *)

\* updateMalwareFiles: a source that does not answer is left out.
UpdateMalwareFiles ==
  /\ building = "blacklists" /\ building' = "clouds"
  /\ UNCHANGED <<files, memory, machine, deaths>>

\* updateIpRangeFiles, source by source.
UpdateIpRangeFile(c) ==
  /\ building = "clouds" /\ c \notin files
  /\ files' = files \cup {c}
  /\ building' = IF files' = Clouds THEN "relays" ELSE building
  /\ UNCHANGED <<memory, machine, deaths>>

UpdateBlockedIpRangesFiles ==
  /\ building = "relays" /\ building' = "done"
  /\ UNCHANGED <<files, memory, machine, deaths>>

\* Here a source that does not answer makes the build fail.
DownloadFails ==
  /\ building \in {"clouds", "relays"} /\ building' = "failed"
  /\ UNCHANGED <<files, memory, machine, deaths>>

-------------------------------------------------------------------------------
(* populateMemList; the files of the clouds are read at the same time *)

Loaded(w) == ToSet(memory[w].clouds)

ReadCloud(w, c) ==
  /\ building = "done" /\ c \notin Loaded(w)
  /\ memory' = [memory EXCEPT ![w].clouds = Append(@, c)]
  /\ UNCHANGED <<building, files, machine, deaths>>

Serve(w) ==
  /\ Loaded(w) = Clouds /\ ~memory[w].serving
  /\ memory' = [memory EXCEPT ![w].serving = TRUE]
  /\ UNCHANGED <<building, files, machine, deaths>>

\* Its probes are gone with it.
WorkerDies(w) ==
  /\ memory[w] # NoMemory /\ deaths < MaxDeaths /\ deaths' = deaths + 1
  /\ memory' = [memory EXCEPT ![w] = NoMemory]
  /\ machine' = [m \in Machines |-> IF machine[m].worker = w THEN NoMachine ELSE machine[m]]
  /\ UNCHANGED <<building, files>>

-------------------------------------------------------------------------------
(* Use *)

\* A range of the bucket that has the address.
Has(r, a) == r.bucket = BucketOf[a] /\ a \in r.addresses

\* The tags of the first range that has the address, of the first cloud to be read that has one:
\* the ranges of a bucket are in the order in which they were added.
GetCloudTags(w, a) ==
  LET clouds == memory[w].clouds
      with == {k \in DOMAIN clouds : \E r \in ToSet(CloudRanges[clouds[k]]) : Has(r, a)}
      ranges == CloudRanges[clouds[Min(with)]]
  IN IF with = {} THEN <<>> ELSE ranges[Min({k \in DOMAIN ranges : Has(ranges[k], a)})].tags

IsIpBlocked(a) == a \in Relays

\* buildProbe
Admit(m, w) ==
  /\ machine[m] = NoMachine /\ memory[w].serving /\ ~IsIpBlocked(OwnAddress[m])
  /\ LET tags == GetCloudTags(w, OwnAddress[m])
     IN machine' = [machine EXCEPT ![m] = [worker |-> w, others |-> {},
                                           cloudTags |-> tags, indexed |-> tags]]
  /\ UNCHANGED <<building, files, memory, deaths>>

\* Those of the claimed addresses that are validated.
Valid(m, claimed) == {k \in DOMAIN claimed : claimed[k] # OwnAddress[m] /\ ~IsIpBlocked(claimed[k])}

\* The first address that is part of a cloud decides, the own one before those that were sent.
TagsOfFirst(m, claimed) ==
  LET address == [k \in 0..Len(claimed) |-> IF k = 0 THEN OwnAddress[m] ELSE claimed[k]]
      tagged == {k \in {0} \cup Valid(m, claimed) : GetCloudTags(machine[m].worker, address[k]) # <<>>}
  IN IF tagged = {} THEN <<>> ELSE GetCloudTags(machine[m].worker, address[Min(tagged)])

\* mutant: the old tags stay if there are no new ones
KeptTags(m, claimed) ==
  LET tags == TagsOfFirst(m, claimed)
  IN IF tags = <<>> THEN machine[m].cloudTags ELSE tags

\* The old cloud tags are dropped, whatever comes instead.
NewTags(m, claimed) == TagsOfFirst(m, claimed)

\* updateProbeAltIps, of those that are valid, in the order in which the probe has sent them.
\* The index changes with the tags.
UpdateProbeAltIps(m, claimed) ==
  /\ machine[m] # NoMachine
  /\ LET p == machine[m]
         tags == NewTags(m, claimed)
     IN machine' = [machine EXCEPT ![m] =
          [p EXCEPT !.others = {claimed[k] : k \in Valid(m, claimed)}, !.cloudTags = tags,
                    !.indexed = IF tags = p.cloudTags THEN p.indexed ELSE tags]]
  /\ UNCHANGED <<building, files, memory, deaths>>

-------------------------------------------------------------------------------

ListsNext ==
  \/ UpdateMalwareFiles
  \/ \E c \in Clouds : UpdateIpRangeFile(c)
  \/ UpdateBlockedIpRangesFiles \/ DownloadFails
  \/ \E w \in Starters : \/ Serve(w) \/ WorkerDies(w)
                         \/ \E c \in Clouds : ReadCloud(w, c)
                         \/ \E m \in Machines : Admit(m, w)
  \/ \E m \in Machines : \E claimed \in Claims[m] : UpdateProbeAltIps(m, claimed)

ListsSpec == ListsInit /\ [][ListsNext]_listsVars

-------------------------------------------------------------------------------
(* Properties *)

RangesWith(a) == {r \in AllRanges : a \in r.addresses}

\* The cloud tags of a probe, in its index too, are those of one range of its own IP, or if there
\* is none, of one of its alternative IPs, and no tags stay behind.  None is the IP of a relay.
TagsAreRight(p, own) ==
  LET decides == IF RangesWith(own) # {} THEN {own} ELSE {a \in p.others : RangesWith(a) # {}}
  IN /\ {own} \cup p.others \subseteq AllAddresses \ Relays
     /\ p.indexed = p.cloudTags
     /\ IF decides = {} THEN p.cloudTags = <<>>
        ELSE \E a \in decides, r \in AllRanges : a \in r.addresses /\ p.cloudTags = r.tags

\* So are the tags of every probe, whatever order the files were read in and whatever alternative
\* IPs came and went.
TagsFollowTheAddresses ==
  /\ ListsTypeOK
  /\ \A m \in Machines : machine[m] # NoMachine => TagsAreRight(machine[m], OwnAddress[m])
===============================================================================
