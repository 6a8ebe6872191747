--------------------------- MODULE MCCreditsMaster ---------------------------
(* CreditsMaster with a few calls, and credits counted in thousands. *)
EXTENDS CreditsMaster, TLC

Symmetry == Permutations(Calls)
===============================================================================
