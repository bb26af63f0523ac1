----------------------------- MODULE PfsFaults -----------------------------
(***************************************************************************)
(* The store of Pfs with a record of the ATA failures that matter.  Most   *)
(* failures leave the files and the bitmap in order; this module says      *)
(* which ones do not, and that a restart repairs the bitmap all the same.  *)
(*                                                                         *)
(* The two history variables only watch: every behaviour of Pfs is one of  *)
(* this module, and the other way round.                                   *)
(***************************************************************************)
EXTENDS Pfs

VARIABLES
  misread,  \* has a read failed: "never", "once", or in this "mount"
  harmed    \* has a failure let blocks go that a file still holds?

history == <<misread, harmed>>
hvars == <<vars, history>>

(* The store of a disk whose reads succeed: what it cannot do takes a read *)
(* that failed.                                                            *)
Readable == INSTANCE Pfs WITH Faults <- Faults \ {"read"}
ReadFails == ~Readable!Next

(* pfs_delete has freed the blocks of an entry it does not get rid of.     *)
EntryStays == DelEntry /\ UNCHANGED dir /\ dir[slot].start \in Blocks

(* pfs_mount calls every block free in front of the old directory.         *)
FilesStay == FormatDir /\ \E s \in Slots : dir'[s].start \in Blocks

(* pfs_write_file goes on with a block that still has the next pointer of  *)
(* the file it was in before.                                              *)
PointerStays == WBlock /\ pc' # "delete" /\ UNCHANGED blk
                  /\ \E b \in bitmap' \ bitmap : blk[b].next \in Blocks

Watch ==
  IF ReadFails
  THEN /\ misread' = IF mounted' THEN "once" ELSE "mount"
       /\ harmed' = TRUE
  ELSE /\ misread' = IF misread = "mount" /\ (mounted' \/ pc' = "off")
                     THEN "once" ELSE misread
       /\ harmed' = (harmed \/ EntryStays \/ FilesStay \/ PointerStays)

HInit == Init /\ misread = "never" /\ harmed = FALSE
HNext == Next /\ Watch
HSpec == HInit /\ [][HNext]_hvars /\ WF_vars(Handler /\ ~CutShort)

-----------------------------------------------------------------------------
(* Writes that fail or are lost never give a name a second entry: only a   *)
(* read that fails inside pfs_find does, or a name too long for an entry.  *)
UniqueUntilMisread ==
  misread = "never" =>
    \A s, t \in Slots :
      /\ dir[s].name = dir[t].name /\ dir[s].name # NoName
      /\ \A n \in LongNames : Clip[n] # dir[s].name
      => s = t

(* What points to block b: directory entries and blocks of files.          *)
Holders(b) == {<<"entry", s>> : s \in {t \in Slots : dir[t].start = b}}
                \cup {<<"block", c>> : c \in {d \in Reachable : blk[d].next = b}}

(* Three failed writes break the ownership of blocks: of the directory by  *)
(* pfs_delete, of the empty directory by pfs_mount, and of a block that is *)
(* lost without an error.  Otherwise, as long as reads succeed, no command *)
(* that fails halfway leaves two files one block, or a block of a file     *)
(* free to be given away.                                                  *)
OwnedUnlessHarmed ==
  ~harmed =>
    /\ \A b \in Reachable : \A h, g \in Holders(b) : h = g
    /\ pc = "idle" /\ mounted => Reachable \subseteq bitmap

(* A mount that finds the store and can read it computes the bitmap from   *)
(* the files, whatever commands and failures have made of the two before.  *)
MountRepairs ==
  [][pc = "rebuild_slot" /\ pc' = "idle" /\ misread # "mount"
       => bitmap' = Reachable']_hvars
=============================================================================
