--------------------------- MODULE MCStoreOffloader ---------------------------
(* StoreOffloader with an hour and a half as resultTTL, on two records that     *)
(* grow old under three faults, or on three young ones under one.               *)
EXTENDS StoreOffloader

InBounds == (\A id \in Ids : key[id] # "none") => faults <= 1 /\ \A id \in Ids : age[id] < ResultTTL

MCSpec == Init /\ [][Next /\ InBounds']_vars /\ Fairness
===============================================================================
