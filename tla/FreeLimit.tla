------------------------------- MODULE FreeLimit -------------------------------
(***************************************************************************)
(* What the limiter of POST /v1/measurements promises to its operator: in  *)
(* one window a client gets at most Limit tests for nothing.  RateLimits   *)
(* shows what the counter in Redis makes of it: points that are given back *)
(* in a later window than they were taken in add to the allowance of that  *)
(* window.                                                                 *)
(***************************************************************************)
EXTENDS Naturals

CONSTANTS Limit,   \* points of a window
          MaxTests \* most tests of one measurement

VARIABLES free,     \* tests of this window that nobody paid for
          allowance \* tests that this window may have for nothing

vars == <<free, allowance>>

Init == free = 0 /\ allowance = Limit

\* A measurement is created; the rest of its tests is paid with credits.
Accept ==
  /\ \E tests \in 1..MaxTests : free' = free + tests
  /\ free' <= allowance
  /\ UNCHANGED allowance

\* Points taken in an earlier window are given back in this one.
GiveBackLate ==
  /\ \E points \in 1..MaxTests : allowance' = allowance + points
  /\ UNCHANGED free

NewWindow == free' = 0 /\ allowance' = Limit

Next == Accept \/ GiveBackLate \/ NewWindow

Spec == Init /\ [][Next]_vars
===============================================================================
