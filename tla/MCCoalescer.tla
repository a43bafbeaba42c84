---------------------------- MODULE MCCoalescer ----------------------------
(* Three identical requests, a TTL of two ticks and a horizon past twice the *)
(* TTL: a leader may outlive its entry, be replaced and be reaped.           *)
EXTENDS Coalescer, TLC

CONSTANTS r1, r2, r3, k1

MCKeyOf == (r1 :> k1) @@ (r2 :> k1) @@ (r3 :> k1)
=============================================================================
