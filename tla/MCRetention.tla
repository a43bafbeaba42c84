----------------------------- MODULE MCRetention -----------------------------
(* Two worker tasks (one may still take its last look when the next runs),   *)
(* compaction after any expired point; any number of attempts may fail.       *)
EXTENDS Retention

CONSTANTS w1, w2
=============================================================================
