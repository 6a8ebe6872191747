----------------------------- MODULE MCRateLimits -----------------------------
(* RateLimits with a few requests for one or two probes.  Requests and workers  *)
(* are not declared symmetric: the run checks liveness.                         *)
EXTENDS RateLimits
===============================================================================
