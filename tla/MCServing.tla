------------------------------ MODULE MCServing ------------------------------
(* Three requests over one permit and a one-frame channel. *)
EXTENDS Serving
CONSTANTS r1, r2, r3
=============================================================================
