------------------------------- MODULE MCAta -------------------------------
(* An instance of Ata for TLC.  The primary disk gets every call; the      *)
(* secondary one gets what the installer sends it, one sector at a time.   *)
EXTENDS AtaImplementsDisk

MCCalls == {c \in Reads \cup Writes :
              c.bus = "secondary" => c.lba = 0 /\ c.count = 1}
=============================================================================
