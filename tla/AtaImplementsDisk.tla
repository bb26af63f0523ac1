------------------------- MODULE AtaImplementsDisk -------------------------
(***************************************************************************)
(* The polled driver of Ata keeps the promise of DiskService: what the     *)
(* file store may assume of its disk.                                      *)
(***************************************************************************)
EXTENDS Ata

Resting == pc \in {"boot", "reset", "idle"}
Phase == IF Resting THEN "idle" ELSE IF pc = "flush" THEN "taken" ELSE "asked"

Disk == INSTANCE DiskService WITH
  phase <- Phase,
  answer <- ret,
  got <- IF Resting THEN buf ELSE <<>>,
  sectors <- platter["primary"],
  sound <- ~late

(* While no loop has run out, every call to the primary disk is one of the *)
(* service: a read that succeeds delivers what is on the disk, a write     *)
(* changes only the sectors it names, never the last one when it reports   *)
(* an error, and no call to the other disk or device's delay shows on it.  *)
ImplementsDisk == Disk!Spec
=============================================================================
