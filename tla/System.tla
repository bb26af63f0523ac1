------------------------------- MODULE System -------------------------------
(***************************************************************************)
(* The life of a TinyOS machine: power on, look for a system disk, mount   *)
(* the file store or offer the installation wizard, serve the shell.       *)
(* (src/src/main.cpp, sysdisk.cpp, install.cpp and cmd_install, composed   *)
(* with the store of module Pfs.)                                          *)
(*                                                                         *)
(* There are two disks that can be installed to.  The primary slave holds  *)
(* the file store in its sectors 2..PFS_DATA_END; the store, its bitmap    *)
(* and its handlers are those of Pfs.  Of the secondary master only the    *)
(* marker sector is kept here: nothing ever reads the rest of it.          *)
(***************************************************************************)
EXTENDS Pfs

CONSTANTS
  ZERO_END,   \* last sector the wizard zeroes (9 in the code)
  NoMarker,   \* a marker sector without the text TINYOS_SYS
  Tails       \* bytes that may follow that text

(* The text is an 11-byte literal and 12 bytes of it are compared and      *)
(* copied (SYS_MARKER_LEN): the last is whatever the build has after it.   *)
(* A marker on a disk is known by that byte.                               *)
ASSUME SystemAssumption ==
  /\ ZERO_END \in Nat /\ ZERO_END > 3
  /\ NoMarker \notin Tails

VARIABLES
  marker,   \* sector 1 of each disk
  tail,     \* the byte that follows the literal in the running build
  stage,    \* where the boot flow or the wizard is
  caller,   \* who runs the wizard: main or the shell
  target,   \* the disk the wizard installs to
  lba,      \* the sector it zeroes next
  verdict,  \* what install_run last returned; "none" while it writes
  unmarked  \* history: this installation's marker write was lost

Disks == {"slave", "secondary"}
flow == <<stage, caller, target, lba, verdict, unmarked>>
sysvars == <<vars, marker, tail, flow>>

Recognised(d) == marker[d] = tail

(* sysdisk_check: 1 if a marker is read and recognised on either disk, and *)
(* 2 otherwise.  A failed read is taken for a missing marker.              *)
CheckResults ==
  (IF \E d \in Disks : Recognised(d) THEN {1} ELSE {})
    \cup
  (IF (\A d \in Disks : ~Recognised(d)) \/ FALSE \in ReadOutcomes
   THEN {2} ELSE {})

NoWizard ==
  caller' = "none" /\ target' = "none" /\ lba' = 0 /\ unmarked' = FALSE

(***************************************************************************)
(* Boot.                                                                   *)
(***************************************************************************)
PowerOn ==
  /\ stage = "off"
  /\ stage' = "check"
  /\ tail' \in Tails
  /\ UNCHANGED <<vars, marker, caller, target, lba, verdict, unmarked>>

BootSystem ==
  /\ stage = "check" /\ 1 \in CheckResults
  /\ stage' = "run"
  /\ Boot
  /\ UNCHANGED <<marker, tail, caller, target, lba, verdict, unmarked>>

BootWizard ==
  /\ stage = "check" /\ 2 \in CheckResults
  /\ stage' = "ask" /\ caller' = "main"
  /\ UNCHANGED <<vars, marker, tail, target, lba, verdict, unmarked>>

(***************************************************************************)
(* install_run, from main on a machine without a system or from the shell. *)
(* From main, success returns to the firmware: the machine restarts.  From *)
(* the shell it prints "Rebooting..." and returns to the prompt, with the  *)
(* store as mounted as before.                                             *)
(***************************************************************************)
InstallCommand ==
  /\ stage = "run" /\ pc = "idle"
  /\ stage' = "ask" /\ caller' = "shell"
  /\ UNCHANGED <<vars, marker, tail, target, lba, verdict, unmarked>>

Leave(installed) ==
  /\ NoWizard
  /\ verdict' = IF installed THEN "installed" ELSE "failed"
  /\ IF caller = "main" /\ installed THEN stage' = "off" /\ Stop
     ELSE /\ stage' = "run"
          /\ pc' = "idle"
          /\ UNCHANGED <<disk, memory, op, walk, writing, after, res, got>>

(* "no", or a disk number that is not offered.                             *)
Decline ==
  /\ stage = "ask"
  /\ Leave(FALSE)
  /\ UNCHANGED <<marker, tail>>

Choose(d) ==
  /\ stage = "ask"
  /\ stage' = "mark"
  /\ target' = d /\ verdict' = "none"
  /\ UNCHANGED <<vars, marker, tail, caller, lba, unmarked>>

(* write_marker_to: the sector is read, patched and written.               *)
SlipMarkedDisk(d) == "slave"
MarkedDisk(d) == d

Mark ==
  /\ stage = "mark"
  /\ \/ \E w \in WriteOutcomes :
          /\ marker' = IF w = "done"
                       THEN [marker EXCEPT ![MarkedDisk(target)] = tail]
                       ELSE marker
          /\ IF Reported(w)
             THEN /\ stage' = "zero" /\ lba' = 2 /\ unmarked' = (w = "lost")
                  /\ UNCHANGED <<vars, caller, target, verdict>>
             ELSE Leave(FALSE)
     \/ /\ FALSE \in ReadOutcomes
        /\ Leave(FALSE)
        /\ UNCHANGED marker
  /\ UNCHANGED <<tail>>

(* Sectors 2 to ZERO_END, in this order and unchecked.                     *)
SlipZeroesSector(n) ==
  /\ super' = (super /\ n # 2)
  /\ blk' = IF n \in Blocks THEN [blk EXCEPT ![n] = ZeroBlock] ELSE blk
  /\ UNCHANGED dir
ZeroesSector(n) ==
  /\ super' = (super /\ n # 2)
  /\ dir' = IF n = 3 THEN [s \in Slots |-> NoEntry] ELSE dir
  /\ blk' = IF n \in Blocks THEN [blk EXCEPT ![n] = ZeroBlock] ELSE blk

SlipMoreToZero == lba <= ZERO_END + 1
MoreToZero == lba <= ZERO_END

ZeroSector ==
  /\ stage = "zero" /\ MoreToZero
  /\ \E w \in WriteOutcomes :
       IF w = "done" /\ target = "slave" THEN ZeroesSector(lba)
       ELSE UNCHANGED disk
  /\ lba' = lba + 1
  /\ UNCHANGED <<memory, pc, op, walk, writing, after, res, got>>
  /\ UNCHANGED <<marker, tail, stage, caller, target, verdict, unmarked>>

(* The configuration text replaces the superblock.                         *)
WriteConfig ==
  /\ stage = "zero" /\ ~MoreToZero
  /\ \E w \in WriteOutcomes :
       super' = IF w = "done" /\ target = "slave" THEN FALSE ELSE super
  /\ stage' = "verify"
  /\ UNCHANGED <<dir, blk, memory, pc, op, walk, writing, after, res, got>>
  /\ UNCHANGED <<marker, tail, caller, target, lba, verdict, unmarked>>

Verify ==
  /\ stage = "verify"
  /\ \E r \in CheckResults : Leave(r = 1)
  /\ UNCHANGED <<marker, tail>>

(* The machine stops: power, reset, or the shutdown command.               *)
PowerOff ==
  /\ stage # "off"
  /\ stage' = "off"
  /\ Stop /\ NoWizard
  /\ UNCHANGED <<marker, tail, verdict>>

-----------------------------------------------------------------------------
SysInit ==
  /\ Init
  /\ marker = [d \in Disks |-> NoMarker]
  /\ tail \in Tails
  /\ stage = "off" /\ caller = "none" /\ target = "none" /\ lba = 0
  /\ verdict = "none" /\ unmarked = FALSE

InStore(A) ==
  /\ stage = "run"
  /\ A
  /\ UNCHANGED <<marker, tail, flow>>

Wizard == Mark \/ ZeroSector \/ WriteConfig \/ Verify
Kernel == BootSystem \/ BootWizard \/ Wizard \/ InStore(Handler /\ ~CutShort)

SysNext ==
  \/ PowerOn \/ PowerOff
  \/ InstallCommand \/ Decline \/ \E d \in Disks : Choose(d)
  \/ InStore(Command) \/ InStore(Handler)
  \/ Kernel

SysSpec == SysInit /\ [][SysNext]_sysvars /\ WF_sysvars(Kernel)

-----------------------------------------------------------------------------
Stages == {"off", "check", "ask", "mark", "zero", "verify", "run"}

SysTypeOK ==
  /\ TypeOK
  /\ marker \in [Disks -> Tails \cup {NoMarker}]
  /\ tail \in Tails
  /\ stage \in Stages
  /\ caller \in {"none", "main", "shell"}
  /\ target \in Disks \cup {"none"}
  /\ lba \in 0..(ZERO_END + 1)
  /\ verdict \in {"none", "installed", "failed"}
  /\ unmarked \in BOOLEAN

(* The wizard destroys files whole: at every moment, also when it is cut   *)
(* short between two sectors or runs under a mounted store, each entry     *)
(* still on the disk has its blocks, and no other's.                       *)
FilesWholeOrGone == CrashConsistent

(* The mounted store that goes on after "install" still hands out no block *)
(* twice, though its bitmap was built before the disk was wiped.           *)
StaleBitmapIsSafe == NoCrossLink /\ BitmapCovers

(* When the wizard reports success, the disk it worked on bears the marker *)
(* (the write was reported before), or its write was lost unnoticed; and   *)
(* then the other disk has one, which is what the check has seen.          *)
VerifiedDiskIsMarked ==
  [][stage = "verify" /\ verdict' = "installed"
       => \/ Recognised(target)
          \/ unmarked /\ \E d \in Disks \ {target} : Recognised(d)]_sysvars

(* From power on the machine gets to a prompt, the wizard's or the         *)
(* shell's, and an installation that was started comes to its end, unless  *)
(* the power goes.                                                         *)
AtPrompt == stage = "ask" \/ (stage = "run" /\ pc = "idle")
ReachesPrompt == stage # "off" ~> AtPrompt \/ stage = "off"

(* "This will write data to the selected disk.  All existing data on that  *)
(* disk will be lost": the slave is left alone unless it was selected, and *)
(* then it bears the marker first.  Not so: after an installation to the   *)
(* secondary disk the next boot formats the slave.                         *)
OnlySelectedDiskWritten ==
  [][marker["slave"] = NoMarker => UNCHANGED disk]_sysvars

(* After an installation that went to its end, the files saved since are   *)
(* in the store when it is next mounted.  Not so after "install" from the  *)
(* shell: the store stays mounted and takes new files, but its superblock  *)
(* is gone.                                                                *)
SavedFilesSurvive ==
  [][~mounted /\ mounted' /\ verdict = "installed" => dir' = dir]_sysvars
=============================================================================
