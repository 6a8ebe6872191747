-------------------------- MODULE MCMeasurementStore --------------------------
(* MeasurementStore on small sets of ids, tests and cleaners; in the safety    *)
(* run at most one result at a time, and none after a fault, has output of     *)
(* progress messages.                                                          *)
EXTENDS MeasurementStore, TLC

InBounds ==
  Cardinality({x \in Ids \X Tests : output[x[1]][x[2]] = "progress"}) <= 1 - faults

MCSpec == Init /\ [][Next /\ InBounds']_vars

\* Ids, tests and cleaners are interchangeable in the specification and in the
\* invariants and action properties.
Symmetry == Permutations(Ids) \cup Permutations(Tests) \cup Permutations(Cleaners)
===============================================================================
