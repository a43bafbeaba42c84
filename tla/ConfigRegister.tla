---------------------------- MODULE ConfigRegister ----------------------------
(***************************************************************************)
(* What the config store promises (config.rs, "a crash at any point leaves   *)
(* either the old file or the new one"; settings.rs, "a failed disk write    *)
(* applies nothing"): the file, what a power loss would leave of it, and the  *)
(* served value.  The file is at most one commit ahead of what is served,     *)
(* nothing is served that is not in the file, and a restart serves one of the *)
(* two.  A value that is served survives every kill, and a power loss too     *)
(* unless the sync of its directory failed or was cut off (lax): then the      *)
(* power loss may bring back what was last on disk.                          *)
(***************************************************************************)
CONSTANT IsValue(_)     \* the stores the rules accept

VARIABLES disk, durable, lax, served

Init == IsValue(disk) /\ durable = disk /\ served = disk /\ lax = FALSE

\* A commit replaces the file; there is one commit at a time.
Install ==
  /\ disk = served
  /\ lax \/ durable = disk
  /\ IsValue(disk') /\ UNCHANGED <<durable, lax, served>>

\* Its directory is synced ...
Sync == durable' = disk /\ lax' = FALSE /\ UNCHANGED <<disk, served>>

\* ... or that fails.
SyncFails == durable' \in {durable, disk} /\ lax' = TRUE /\ UNCHANGED <<disk, served>>

\* It is then served.
Publish ==
  /\ lax \/ durable = disk
  /\ served' = disk /\ UNCHANGED <<disk, durable, lax>>

\* A kill keeps the file.
Kill ==
  /\ served' = disk /\ lax' = (lax \/ durable # disk)
  /\ UNCHANGED <<disk, durable>>

\* A power loss keeps it, or what was on disk before.
PowerLoss ==
  /\ disk' \in {disk, durable}
  /\ durable' = disk' /\ served' = disk' /\ lax' = FALSE

Next == Install \/ Sync \/ SyncFails \/ Publish \/ Kill \/ PowerLoss

Spec == Init /\ [][Next]_<<disk, durable, lax, served>>
=============================================================================
