---------------------------- MODULE MCStateStore ----------------------------
(***************************************************************************)
(* One provider with one lane and one session, both known to AstMatrix;      *)
(* seconds of two ticks, a window of three seconds.                          *)
(***************************************************************************)
EXTENDS StateStore
CONSTANTS t1, t2, s1
LegacyRatings == [p \in Provider |-> FALSE]
LegacyPins == [s \in {s1} |-> 2]
LegacyUses == [s \in {s1} |-> 1]
=============================================================================
