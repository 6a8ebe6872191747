--------------------------- MODULE MCAdoptedProbes ---------------------------
(* AdoptedProbes with a device that changes its IP (1 and 2) or is installed *)
(* anew (1 and 3), and another one.                                          *)
EXTENDS AdoptedProbes

MCData == <<[uuid |-> "u1", ip |-> "a", alts |-> {"b"}, place |-> "x", token |-> Nothing],
            [uuid |-> "u1", ip |-> "c", alts |-> {}, place |-> "x", token |-> Nothing],
            [uuid |-> "u2", ip |-> "b", alts |-> {}, place |-> "x", token |-> "A"]>>

\* The second row comes before the others, whichever of them are online.
MCTimes == <<1, 2, 1>>
===============================================================================
