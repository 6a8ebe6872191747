-------------------------- MODULE MCSyncedProbeList --------------------------
(* SyncedProbeList on two nodes, of which one pulls.  A behaviour plays in one  *)
(* of three scenes: one probe at one node, with faults and two versions of its  *)
(* data; one probe while the reader, which has none, pushes as well; or two     *)
(* probes.  While both push, fetchProbes is called when the probe is connected. *)
EXTENDS SyncedProbeList, TLC

VARIABLE scene

MCInit == Init /\ scene \in {"faults", "both push", "two probes"}

InScene ==
  /\ scene # "faults" => faults = 0 /\ \A p \in Probes : stage[p] # MaxVersion
  /\ scene = "both push" =>
       asked \in {Nothing, [p \in Probes |-> IF home[p] = Nothing THEN 0 ELSE 1]}
  /\ scene # "both push" => \A n \in Readers : push[n] = IdlePush
  /\ \A p \in Probes : home[p] \notin Readers
  /\ IF scene = "two probes" THEN asked = Nothing ELSE \E p \in Probes : home[p] = Nothing

MCNext == UNCHANGED scene /\ Next /\ InScene'

MCSpec == MCInit /\ [][MCNext]_<<vars, scene>>

Symmetry == Permutations(Probes)
===============================================================================
