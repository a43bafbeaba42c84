---------------------------- MODULE MCHistoryLog ----------------------------
(* Two processes, three samples of a counter up to two, retention of one day *)
(* or none, a clock of three days and two faults: a torn write of one        *)
(* process, a crash, and a restart whose compaction meets the damage.        *)
EXTENDS HistoryLog
=============================================================================
