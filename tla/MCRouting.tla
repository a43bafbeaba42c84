----------------------------- MODULE MCRouting -----------------------------
(* Two providers; a breaker that opens on the second failure, for one tick.  *)
EXTENDS Routing, TLC

CONSTANTS p1, p2, r1
=============================================================================
