---------------------------- MODULE MCGovernor ----------------------------
(* Four attempts on one model, one change of the operator's override and    *)
(* one restart; the grow and dissolve periods fit inside the horizon.       *)
EXTENDS Governor, TLC

Symmetry == Permutations(Request)
=============================================================================
