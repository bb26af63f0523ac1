---------------------------- MODULE SystemProofs ----------------------------
(***************************************************************************)
(* Theorems about the machine of module System: the store of Pfs, started  *)
(* by the boot flow and overwritten by the installation wizard.            *)
(*                                                                         *)
(* The argument: the store's own steps keep its invariant (PfsProofs,      *)
(* PfsConsistency), so what is left is the wizard.  It runs only while no  *)
(* handler does; it empties the directory before it touches a data block;  *)
(* and a zeroed block points nowhere.  Its return from main leads to a     *)
(* shell without a store, where nothing is known of the bitmap: there the  *)
(* invariant keeps only what concerns the disk.                            *)
(***************************************************************************)
EXTENDS System, PfsConsistency

(***************************************************************************)
(* Part 1.  Types, and the marker, under failures.                         *)
(***************************************************************************)

(* The wizard and the boot flow run between the commands of the store.     *)
Resting == pc \in {"off", "idle"}

FlowOK ==
  /\ stage # "run" => Resting
  /\ stage \in {"off", "check"} => pc = "off"
  /\ pc = "off" => ~mounted

SysTyped == SysTypeOK /\ Typed /\ FlowOK

LEMMA SysInitTyped == SysInit => SysTyped
<1> SUFFICES ASSUME SysInit PROVE SysTyped
  OBVIOUS
<1>1. Typed /\ TypeOK
  BY InitTyped DEF SysInit, Typed
<1>2. SysTypeOK
  <2>1. unmarked \in BOOLEAN
    BY Zenon DEF SysInit
  <2>2. QED
    BY <1>1, <2>1, SystemAssumption DEF SysInit, SysTypeOK, Stages, Disks
<1>3. FlowOK
  BY DEF SysInit, Init, FlowOK, Resting
<1>4. QED
  BY <1>1, <1>2, <1>3 DEF SysTyped

LEMMA StopTyped == Typed /\ Stop => Typed' /\ pc' = "off" /\ ~mounted'
<1> SUFFICES ASSUME Typed, Stop
             PROVE  Typed' /\ pc' = "off" /\ ~mounted'
  OBVIOUS
<1>1. <<>> \in Seq(Payloads)
  OBVIOUS
<1>2. slot' \in 0..PFS_MAX_FILES /\ done' \in 0..MaxChunks
  BY ConstantsAssumption DEF Stop, NoLocals
<1>3. TypeOK'
  BY <1>1, <1>2, BlocksAreUINT16 DEF Stop, NoLocals, Typed, TypeOK, disk
<1>4. LocalsOK' /\ pc' = "off" /\ ~mounted'
  BY DEF Stop, LocalsOK
<1>5. QED
  BY <1>3, <1>4 DEF Typed

(* Only the switch leads to "off", and it forgets the mount.               *)
LEMMA StoreStepFlow ==
  ASSUME Command \/ Handler PROVE pc # "off" /\ pc' # "off"
<1>1. CASE Command
  BY <1>1 DEF Command
<1>2. CASE Mounting
  BY <1>2
  DEF Mounting, MountRead, FormatSuper, FormatDir, RebuildRead, RebuildSlot,
      RebuildChain, RebuildEnd, Mounted
<1>3. CASE Creating
  BY <1>3 DEF Creating, CreateRefused, CreateEntry, CreateReturns, Return
<1>4. CASE Writing
  BY <1>4 DEF Writing, WFind, WFull, WBlock, WLink, WDir, Return
<1>5. CASE Deleting
  BY <1>5 DEF Deleting, DelFind, DelChain, DelEntry, DelReturns, Return
<1>6. CASE Reading
  BY <1>6 DEF Reading, CatFind, CatChain, CatEnd, Return
<1>7. QED
  BY <1>1, <1>2, <1>3, <1>4, <1>5, <1>6 DEF Handler

(* What Leave does to the store: a stop, or the way to the prompt.         *)
ToPrompt ==
  /\ pc' = "idle"
  /\ UNCHANGED <<disk, memory, op, walk, writing, after, res, got>>

LEMMA LeaveSteps ==
  ASSUME NEW ok, Leave(ok)
  PROVE  /\ \/ Stop /\ stage' = "off"
            \/ ToPrompt /\ stage' = "run"
         /\ verdict' \in {"installed", "failed"}
         /\ caller' = "none" /\ target' = "none" /\ lba' = 0
         /\ unmarked' \in BOOLEAN
  BY Zenon DEF Leave, NoWizard, ToPrompt

LEMMA ToPromptTyped == Typed /\ Resting /\ ToPrompt => Typed'
  BY DEF Typed, TypeOK, LocalsOK, Resting, ToPrompt, disk, memory, walk,
         writing

LEMMA ZeroesTyped ==
  ASSUME Typed, NEW n, ZeroesSector(n)
  PROVE  /\ super' \in BOOLEAN
         /\ dir' \in Directories
         /\ blk' \in [Blocks -> BlockSectors]
<1>1. ZeroBlock \in BlockSectors
  BY DEF ZeroBlock, BlockSectors, Payloads
<1>2. QED
  BY <1>1, EmptyDirectory DEF ZeroesSector, Typed, TypeOK

LEMMA DiskWrittenTyped ==
  ASSUME Typed, super' \in BOOLEAN, dir' \in Directories,
         blk' \in [Blocks -> BlockSectors],
         UNCHANGED <<memory, pc, op, walk, writing, after, res, got>>
  PROVE  Typed'
  BY DEF Typed, TypeOK, LocalsOK, memory, walk, writing

LEMMA SysNextTyped == SysTyped /\ [SysNext]_sysvars => SysTyped'
<1> SUFFICES ASSUME SysTyped, [SysNext]_sysvars PROVE SysTyped'
  OBVIOUS
<1> USE DEF flow
<1>0. Typed /\ SysTypeOK /\ FlowOK
  BY DEF SysTyped
<1>1. ASSUME UNCHANGED vars,
             stage' \in Stages, stage # "run" \/ pc = "idle",
             stage' = "check" => stage = "off", stage' # "off",
             marker' = marker, tail' \in Tails,
             caller' \in {"none", "main", "shell"},
             target' \in Disks \cup {"none"},
             verdict' \in {verdict, "none"}, UNCHANGED <<lba, unmarked>>
      PROVE  SysTyped'
  <2>1. Typed' /\ TypeOK'
    BY <1>0, <1>1, NextTyped DEF Typed
  <2>2. UNCHANGED <<pc, mounted>>
    BY <1>1 DEF vars, memory
  <2>3. SysTypeOK'
    BY <1>0, <1>1, <2>1 DEF SysTypeOK
  <2>4. FlowOK'
    BY <1>0, <1>1, <2>2 DEF FlowOK, Resting
  <2>5. QED
    BY <2>1, <2>3, <2>4 DEF SysTyped
<1>2. CASE PowerOn \/ BootWizard \/ InstallCommand
             \/ \E d \in Disks : Choose(d)
  BY <1>0, <1>1, <1>2
  DEF PowerOn, BootWizard, InstallCommand, Choose, SysTypeOK, FlowOK, Stages
<1>3. ASSUME NEW ok, Leave(ok), stage # "run",
             marker' \in [Disks -> Tails \cup {NoMarker}], tail' = tail
      PROVE  SysTyped'
  <2>1. /\ verdict' \in {"installed", "failed"}
        /\ caller' = "none" /\ target' = "none" /\ lba' = 0
        /\ unmarked' \in BOOLEAN
        /\ \/ Stop /\ stage' = "off"
           \/ ToPrompt /\ stage' = "run"
    BY <1>3, LeaveSteps
  <2>2. Typed'
    BY <1>0, <1>3, <2>1, StopTyped, ToPromptTyped DEF FlowOK
  <2>3. FlowOK'
    BY <1>0, <2>1, StopTyped DEF FlowOK, Resting, ToPrompt
  <2>4. SysTypeOK'
    BY <1>0, <1>3, <2>1, <2>2, SystemAssumption
    DEF SysTypeOK, Stages, Typed
  <2>5. QED
    BY <2>2, <2>3, <2>4 DEF SysTyped
<1>4. CASE Decline \/ Verify
  BY <1>0, <1>3, <1>4 DEF Decline, Verify, SysTypeOK
<1>5. CASE Mark
  <2>1. marker' \in [Disks -> Tails \cup {NoMarker}]
    BY <1>0, <1>5 DEF Mark, MarkedDisk, SysTypeOK
  <2>2. CASE \E ok \in BOOLEAN : Leave(ok)
    BY <1>3, <1>5, <2>1, <2>2 DEF Mark
  <2>3. CASE /\ stage' = "zero" /\ lba' = 2 /\ unmarked' \in BOOLEAN
             /\ UNCHANGED <<vars, caller, target, verdict>>
    <3>1. Typed' /\ TypeOK'
      BY <1>0, <2>3, NextTyped DEF Typed
    <3>2. UNCHANGED <<pc, mounted>>
      BY <2>3 DEF vars, memory
    <3>3. SysTypeOK'
      BY <1>0, <1>5, <2>1, <2>3, <3>1, SystemAssumption
      DEF Mark, SysTypeOK, Stages
    <3>4. FlowOK'
      BY <1>0, <1>5, <2>3, <3>2 DEF Mark, FlowOK, Resting
    <3>5. QED
      BY <3>1, <3>3, <3>4 DEF SysTyped
  <2>4. QED
    BY <1>5, <2>2, <2>3 DEF Mark
<1>6. CASE ZeroSector \/ WriteConfig
  <2>1. /\ stage \in {"zero"} /\ stage' \in {"zero", "verify"}
        /\ UNCHANGED <<memory, pc, op, walk, writing, after, res, got>>
        /\ UNCHANGED <<marker, tail, caller, target, verdict, unmarked>>
    BY <1>6 DEF ZeroSector, WriteConfig
  <2>2. /\ super' \in BOOLEAN /\ dir' \in Directories
        /\ blk' \in [Blocks -> BlockSectors]
    BY <1>0, <1>6, ZeroesTyped
    DEF ZeroSector, WriteConfig, Typed, TypeOK, disk
  <2>3. Typed' /\ TypeOK'
    BY <1>0, <2>1, <2>2, DiskWrittenTyped DEF Typed
  <2>4. lba' \in 0..(ZERO_END + 1)
    <3>1. lba \in 0..(ZERO_END + 1) /\ ZERO_END \in Nat
      BY <1>0, SystemAssumption DEF SysTypeOK
    <3>2. lba' = lba \/ (lba' = lba + 1 /\ lba <= ZERO_END)
      BY <1>6 DEF ZeroSector, WriteConfig, MoreToZero
    <3>3. QED
      BY <3>1, <3>2
  <2>5. SysTypeOK'
    BY <1>0, <2>1, <2>3, <2>4 DEF SysTypeOK, Stages
  <2>6. FlowOK'
    BY <1>0, <2>1 DEF FlowOK, Resting, memory
  <2>7. QED
    BY <2>3, <2>5, <2>6 DEF SysTyped
<1>7. CASE PowerOff
  <2>1. Typed' /\ TypeOK' /\ pc' = "off" /\ ~mounted'
    BY <1>0, <1>7, StopTyped DEF PowerOff, Typed
  <2>0. unmarked' \in BOOLEAN
    BY <1>7, Zenon DEF PowerOff, NoWizard
  <2>2. SysTypeOK'
    BY <1>0, <1>7, <2>0, <2>1, SystemAssumption
    DEF PowerOff, NoWizard, SysTypeOK, Stages
  <2>3. QED
    BY <1>7, <2>1, <2>2 DEF PowerOff, SysTyped, FlowOK, Resting
<1>8. CASE BootSystem
  <2>1. Typed' /\ TypeOK' /\ pc' = "mount" /\ stage' = "run"
        /\ UNCHANGED <<marker, tail, caller, target, lba, verdict, unmarked>>
    BY <1>0, <1>8, NextTyped DEF BootSystem, Boot, Next, Typed
  <2>2. QED
    BY <1>0, <2>1 DEF SysTyped, SysTypeOK, Stages, FlowOK
<1>9. CASE InStore(Command) \/ InStore(Handler)
  <2>1. /\ Command \/ Handler
        /\ stage = "run" /\ UNCHANGED <<marker, tail, flow>>
    BY <1>9 DEF InStore
  <2>2. Typed' /\ TypeOK'
    BY <1>0, <2>1, NextTyped DEF Next, Typed
  <2>3. QED
    BY <1>0, <2>1, <2>2, StoreStepFlow DEF SysTyped, SysTypeOK, FlowOK
<1>10. CASE UNCHANGED sysvars
  <2>1. UNCHANGED vars /\ UNCHANGED <<marker, tail, flow>>
    BY <1>10 DEF sysvars
  <2>2. Typed' /\ TypeOK'
    BY <1>0, <2>1, NextTyped DEF Typed
  <2>3. QED
    BY <1>0, <2>1, <2>2 DEF SysTyped, SysTypeOK, FlowOK, Resting, vars, memory
<1>11. QED
  BY <1>2, <1>4, <1>5, <1>6, <1>7, <1>8, <1>9, <1>10
  DEF SysNext, Kernel, Wizard, InStore

(* Every value of the machine stays in range, on every disk and under      *)
(* every failure, and the wizard never counts past its last sector.        *)
THEOREM SysTypeCorrect == SysSpec => []SysTypeOK
<1>1. SysTyped => SysTypeOK
  BY DEF SysTyped
<1>2. QED
  BY <1>1, SysInitTyped, SysNextTyped, PTL DEF SysSpec

(***************************************************************************)
(* The disk the wizard works on bears the marker from the moment it zeroes *)
(* its first sector, unless the marker's write was lost: then the wizard   *)
(* does not know, but the history variable does.                           *)
(***************************************************************************)
TargetMarked ==
  stage \in {"zero", "verify"}
    => target \in Disks /\ (Recognised(target) \/ unmarked)

(* While the wizard writes it has a disk, and has not returned.            *)
AtWork == {"mark", "zero", "verify"}
Chosen ==
  /\ stage = "mark" => target \in Disks
  /\ stage \in AtWork => verdict = "none"

LEMMA NextMarked ==
  SysTyped /\ Chosen /\ TargetMarked /\ [SysNext]_sysvars
    => Chosen' /\ TargetMarked'
<1> SUFFICES ASSUME SysTyped, Chosen, TargetMarked, [SysNext]_sysvars
             PROVE  Chosen' /\ TargetMarked'
  OBVIOUS
<1>1. CASE Mark
  <2>1. CASE \E ok \in BOOLEAN : Leave(ok)
    BY <2>1, LeaveSteps DEF Chosen, AtWork, TargetMarked
  <2>2. ASSUME NEW w \in WriteOutcomes, Reported(w),
               marker' = IF w = "done"
                         THEN [marker EXCEPT ![MarkedDisk(target)] = tail]
                         ELSE marker,
               stage' = "zero", unmarked' = (w = "lost"),
               UNCHANGED <<vars, caller, target, verdict>>
        PROVE  Chosen' /\ TargetMarked'
    <3>1. target' \in Disks /\ target' = target /\ tail' = tail
      BY <1>1, <2>2 DEF Mark, Chosen
    <3>0. Chosen'
      BY <1>1, <2>2 DEF Mark, Chosen, AtWork
    <3>2. CASE w = "done"
      <4>1. marker' = [marker EXCEPT ![target] = tail]
        BY <2>2, <3>2 DEF MarkedDisk
      <4>2. QED
        BY <2>2, <3>0, <3>1, <4>1
        DEF TargetMarked, Recognised, SysTyped, SysTypeOK
    <3>3. CASE w = "lost"
      BY <2>2, <3>0, <3>1, <3>3 DEF TargetMarked
    <3>4. QED
      BY <2>2, <3>2, <3>3 DEF WriteOutcomes, Reported
  <2>3. QED
    BY <1>1, <2>1, <2>2 DEF Mark
<1>2. CASE Decline \/ Verify
  BY <1>2, LeaveSteps DEF Decline, Verify, Chosen, AtWork, TargetMarked
<1>3. CASE ZeroSector \/ WriteConfig
  BY <1>3
  DEF ZeroSector, WriteConfig, Chosen, AtWork, TargetMarked, Recognised
<1>4. CASE UNCHANGED <<marker, tail, flow>>
  BY <1>4 DEF flow, Chosen, AtWork, TargetMarked, Recognised
<1>5. CASE PowerOn \/ PowerOff \/ BootSystem \/ BootWizard \/ InstallCommand
             \/ \E d \in Disks : Choose(d)
  BY <1>5
  DEF PowerOn, PowerOff, BootSystem, BootWizard, InstallCommand, Choose,
      Chosen, AtWork, TargetMarked
<1>6. QED
  BY <1>1, <1>2, <1>3, <1>4, <1>5
  DEF SysNext, Kernel, Wizard, InStore, sysvars

(* The check of step 4 has seen a marker on one of the two disks.          *)
LEMMA CheckedDisk ==
  ASSUME SysTyped, TargetMarked, Verify, verdict' = "installed"
  PROVE  \/ Recognised(target)
         \/ unmarked /\ \E d \in Disks \ {target} : Recognised(d)
<1>1. 1 \in CheckResults
  BY DEF Verify, Leave, CheckResults
<1>2. PICK d \in Disks : Recognised(d)
  BY <1>1 DEF CheckResults
<1>3. QED
  BY <1>2 DEF Verify, TargetMarked

(* "Installation Complete!" is said, whatever fails or is lost, only of a  *)
(* disk that bears the marker, or of one whose marker write was lost       *)
(* unnoticed while the other disk has a marker: no failed read, no failed  *)
(* write and no loss of another sector can bring it about.                 *)
THEOREM InstalledDiskIsMarked == SysSpec => VerifiedDiskIsMarked
<1> DEFINE Safe == \/ Recognised(target)
                   \/ unmarked /\ \E d \in Disks \ {target} : Recognised(d)
<1>1. SysInit => Chosen /\ TargetMarked
  BY DEF SysInit, Chosen, AtWork, TargetMarked
<1>2. SysTyped /\ Chosen /\ TargetMarked /\ [SysNext]_sysvars
        => [stage = "verify" /\ verdict' = "installed" => Safe]_sysvars
  <2> SUFFICES ASSUME SysTyped, Chosen, TargetMarked, SysNext,
                      stage = "verify", verdict' = "installed"
               PROVE  Safe
    BY DEF sysvars
  <2>1. Verify
    BY DEF Chosen, AtWork, SysNext, PowerOn, PowerOff, InstallCommand,
           Decline, Choose, InStore, Kernel, BootSystem, BootWizard, Wizard,
           Mark, ZeroSector, WriteConfig, flow
  <2>2. QED
    BY <2>1, CheckedDisk
<1>3. QED
  BY <1>1, <1>2, SysInitTyped, SysNextTyped, NextMarked, PTL
  DEF SysSpec, VerifiedDiskIsMarked

(***************************************************************************)
(* Part 2.  Blocks and files, when ATA calls succeed.                      *)
(***************************************************************************)

(* A shell without a store: the wizard was called by main and gave up.     *)
Storeless == pc = "idle" /\ ~mounted

Emptied == \A s \in Slots : dir[s] = NoEntry

StoreOK ==
  /\ Ascending /\ Consistent
  /\ \E R \in SUBSET Blocks : DiskOwned(R)
  /\ ~Storeless => Ownership

SysInv ==
  /\ SysTyped /\ StoreOK
  /\ stage = "zero" => lba >= 2
  /\ stage = "zero" /\ target = "slave" /\ lba > 3 => Emptied

LEMMA StoreServed ==
  ASSUME SysTyped, StoreOK, Command \/ Handler PROVE Inv
<1>1. ~Storeless
  <2>1. CASE Command
    BY <2>1 DEF Command, Storeless
  <2>2. CASE Handler
    BY <2>2
    DEF Handler, Mounting, MountRead, FormatSuper, FormatDir, RebuildRead,
        RebuildSlot, RebuildChain, RebuildEnd, Creating, CreateRefused,
        CreateEntry, Writing, WFind, WFull, WBlock, WLink, WDir, Deleting,
        DelFind, DelChain, DelEntry, Reading, CatFind, CatChain, CatEnd,
        Storeless
  <2>3. QED
    BY <2>1, <2>2
<1>2. QED
  BY <1>1 DEF SysTyped, StoreOK, Inv

LEMMA StoreSteps ==
  ASSUME Faults = {}, Inv, Consistent, Next PROVE StoreOK'
<1>1. Inv' /\ Consistent'
  BY NextOwned, NextConsistent
<1>2. QED
  BY <1>1 DEF Inv, Ownership, StoreOK

LEMMA StopOwned ==
  ASSUME Ascending, Consistent, NEW R \in SUBSET Blocks, DiskOwned(R), Stop
  PROVE  StoreOK'
<1>1. DiskOwned(R)' /\ pc' = "off" /\ slot' = 0 /\ done' = 0
      /\ first' = 0 /\ prev' = 0 /\ after' = "none"
      /\ UNCHANGED <<dir, blk>>
  BY DEF Stop, NoLocals, DiskOwned, disk
<1>2. Ownership' /\ Consistent'
  BY <1>1 DEF Ownership, Serving, Filling, Consistent
<1>3. Ascending'
  BY <1>1 DEF Ascending, ChainsAscend, WritePosition
<1>4. QED
  BY <1>1, <1>2, <1>3 DEF StoreOK

(* From the shell the wizard returns to what it interrupted; from main it  *)
(* finds no store to return to.                                            *)
LEMMA ToPromptOwned ==
  ASSUME SysTyped, StoreOK, stage # "run", ToPrompt
  PROVE  StoreOK'
<1>1. PICK R \in SUBSET Blocks : DiskOwned(R)
  BY DEF StoreOK
<1>2. /\ Resting /\ pc' = "idle"
      /\ UNCHANGED <<dir, blk, bitmap, mounted, slot, cur, first, prev, done,
                     op, after>>
      /\ pc = "off" => ~mounted
  BY DEF SysTyped, FlowOK, ToPrompt, disk, memory, walk, writing
<1>3. DiskOwned(R)'
  BY <1>1, <1>2 DEF DiskOwned
<1>4. Ascending' /\ Consistent'
  BY <1>2
  DEF StoreOK, Ascending, ChainsAscend, WritePosition, Consistent, Resting,
      Filling
<1>5. ~Storeless' => Ownership'
  <2> SUFFICES ASSUME ~Storeless' PROVE Ownership'
    OBVIOUS
  <2>1. pc = "idle" /\ ~Storeless
    BY <1>2 DEF Storeless, Resting
  <2>2. Owned(dir, blk, bitmap)
    BY <2>1 DEF StoreOK, Ownership, Serving
  <2>3. bitmap' \in SUBSET Blocks /\ Owned(dir', blk', bitmap')
    BY <1>2, <2>2 DEF SysTyped, Typed, TypeOK
  <2>4. QED
    BY <1>2, <2>3, OwnedAgain DEF Serving, Filling
<1>6. QED
  BY <1>3, <1>4, <1>5 DEF StoreOK

(* Zeroing a sector under the store, or without one.                       *)
LEMMA EmptiedOwned ==
  ASSUME NEW D, NEW B, NEW S, Owned(D, B, S), NEW E,
         \A s \in Slots : E[s].start \notin Blocks
  PROVE  Owned(E, B, S)
  BY DEF Owned, RootsIn, RootsDistinct, RootsUnlinked

LEMMA ZeroedOwned ==
  ASSUME NEW D, NEW B \in [Blocks -> BlockSectors], NEW S \in SUBSET Blocks,
         Owned(D, B, S), NEW n \in Blocks
  PROVE  Owned(D, [B EXCEPT ![n] = ZeroBlock], S)
<1> DEFINE C == [B EXCEPT ![n] = ZeroBlock]
<1>1. \A b \in S : C[b].next = B[b].next \/ C[b].next = 0
  BY DEF ZeroBlock
<1> HIDE DEF C
<1>2. Owned(D, C, S)
  BY <1>1, BlockNumbers
  DEF Owned, RootsIn, Closed, RootsDistinct, LinksDistinct, RootsUnlinked
<1>3. QED
  BY <1>2 DEF C

LEMMA RestingWiped ==
  ASSUME SysTyped, StoreOK, stage # "run",
         UNCHANGED <<memory, pc, op, walk, writing, after, res, got>>,
         ChainsAscend', Whole(dir', blk'),
         \A S \in SUBSET Blocks : Owned(dir, blk, S) => Owned(dir', blk', S)
  PROVE  StoreOK'
<1>1. PICK R \in SUBSET Blocks : DiskOwned(R)
  BY DEF StoreOK
<1>2. /\ Resting /\ pc' = pc
      /\ UNCHANGED <<bitmap, mounted, slot, cur, first, prev, done, op, after>>
      /\ bitmap \in SUBSET Blocks
  BY DEF SysTyped, FlowOK, memory, walk, writing, Typed, TypeOK
<1>3. DiskOwned(R)'
  BY <1>1, <1>2 DEF DiskOwned
<1>4. Ascending' /\ Consistent'
  BY <1>2
  DEF StoreOK, Ascending, WritePosition, FilledUpTo, Consistent, Resting,
      Filling
<1>5. ~Storeless' => Ownership'
  <2> SUFFICES ASSUME ~Storeless' PROVE Ownership'
    OBVIOUS
  <2>1. Ownership
    BY <1>2 DEF StoreOK, Storeless
  <2>2. pc \in Serving => Owned(dir', blk', bitmap)
    BY <1>2, <2>1 DEF Ownership
  <2>3. CASE pc = "idle"
    BY <1>2, <2>2, <2>3, OwnedAgain DEF Serving, Filling
  <2>4. CASE pc = "off"
    BY <1>2, <1>3, <2>1, <2>4 DEF Ownership, Serving, Filling
  <2>5. QED
    BY <1>2, <2>3, <2>4 DEF Resting
<1>6. QED
  BY <1>3, <1>4, <1>5 DEF StoreOK

LEMMA EmptiedWhole ==
  ASSUME NEW D, NEW B, \A s \in Slots : D[s] = NoEntry PROVE Whole(D, B)
  BY DEF Whole, NoEntry

LEMMA ZeroesOwned ==
  ASSUME SysInv, stage = "zero", target = "slave", ZeroesSector(lba),
         UNCHANGED <<memory, pc, op, walk, writing, after, res, got>>
  PROVE  StoreOK' /\ (lba >= 3 => Emptied')
<1>1. /\ SysTyped /\ StoreOK /\ lba \in Nat /\ lba >= 2
      /\ lba > 3 => Emptied
      /\ dir \in Directories /\ blk \in [Blocks -> BlockSectors]
      /\ ChainsAscend /\ Whole(dir, blk)
  BY SystemAssumption
  DEF SysInv, SysTyped, SysTypeOK, Typed, TypeOK, StoreOK, Ascending,
      Consistent
<1>2. \A b \in Blocks : b > 3
  BY ConstantsAssumption DEF Blocks, PFS_DATA_START
<1>3. CASE lba = 2
  <2>1. UNCHANGED <<dir, blk>>
    BY <1>2, <1>3 DEF ZeroesSector
  <2>2. QED
    BY <1>1, <1>3, <2>1, RestingWiped DEF ChainsAscend
<1>4. CASE lba = 3
  <2>1. blk' = blk /\ dir' = [s \in Slots |-> NoEntry]
    BY <1>2, <1>4 DEF ZeroesSector
  <2>2. \A s \in Slots : dir'[s] = NoEntry /\ dir'[s].start \notin Blocks
    BY <2>1, BlockNumbers DEF NoEntry
  <2>3. \A S \in SUBSET Blocks :
          Owned(dir, blk, S) => Owned(dir', blk', S)
    BY <2>1, <2>2, EmptiedOwned
  <2>4. Whole(dir', blk') /\ ChainsAscend' /\ Emptied'
    BY <1>1, <2>1, <2>2, EmptiedWhole DEF ChainsAscend, Emptied
  <2>5. QED
    BY <1>1, <2>3, <2>4, RestingWiped
<1>5. CASE lba > 3
  <2>1. /\ dir' = dir
        /\ blk' = IF lba \in Blocks THEN [blk EXCEPT ![lba] = ZeroBlock]
                  ELSE blk
    BY <1>5 DEF ZeroesSector
  <2>2. Emptied' /\ Whole(dir', blk')
    BY <1>1, <1>5, <2>1, EmptiedWhole DEF Emptied
  <2>3. ChainsAscend'
    BY <1>1, <2>1, BlockNumbers DEF ChainsAscend, ZeroBlock
  <2>4. \A S \in SUBSET Blocks :
          Owned(dir, blk, S) => Owned(dir', blk', S)
    BY <1>1, <2>1, ZeroedOwned
  <2>5. QED
    BY <1>1, <2>2, <2>3, <2>4, RestingWiped
<1>6. QED
  BY <1>1, <1>3, <1>4, <1>5

(* What a step leaves of the wizard's progress when it does not zero.      *)
Progress ==
  /\ stage = "zero" => lba >= 2
  /\ stage = "zero" /\ target = "slave" /\ lba > 3 => Emptied

LEMMA SysNextOwned ==
  ASSUME Faults = {} PROVE SysInv /\ [SysNext]_sysvars => SysInv'
<1> SUFFICES ASSUME SysInv, [SysNext]_sysvars PROVE StoreOK' /\ Progress'
  BY SysNextTyped DEF SysInv, Progress
<1>0. SysTyped /\ StoreOK
  BY DEF SysInv
<1>1. PICK R \in SUBSET Blocks : DiskOwned(R)
  BY <1>0 DEF StoreOK
<1>2. ASSUME UNCHANGED vars,
             \/ stage' # "zero"
             \/ lba' = 2
             \/ lba' >= 2 /\ target' # "slave"
             \/ UNCHANGED <<stage, target, lba>>
      PROVE  StoreOK' /\ Progress'
  <2>1. UNCHANGED <<dir, blk, bitmap, mounted, pc, slot, cur, first, prev,
                    done, op, after>>
    BY <1>2 DEF vars, disk, memory, walk, writing
  <2>2. Ascending' /\ Consistent' /\ DiskOwned(R)'
    BY <1>0, <1>1, <2>1
    DEF StoreOK, Ascending, ChainsAscend, WritePosition, FilledUpTo,
        Consistent, Building, Built, DiskOwned
  <2>3. ~Storeless' => Ownership'
    BY <1>0, <2>1 DEF StoreOK, Storeless, Ownership, DiskOwned, Unattached
  <2>4. Progress'
    BY <1>2, <2>1 DEF SysInv, Progress, Emptied
  <2>5. QED
    BY <2>2, <2>3, <2>4 DEF StoreOK
<1>3. ASSUME NEW ok, Leave(ok), stage # "run"
      PROVE  StoreOK' /\ Progress'
  <2>1. \/ Stop /\ stage' = "off"
        \/ ToPrompt /\ stage' = "run"
    BY <1>3, LeaveSteps
  <2>2. QED
    BY <1>0, <1>1, <1>3, <2>1, StopOwned, ToPromptOwned
    DEF StoreOK, Progress
<1>4. CASE Decline \/ Verify
  BY <1>3, <1>4 DEF Decline, Verify
<1>5. CASE Mark
  BY <1>2, <1>3, <1>5 DEF Mark
<1>6. CASE ZeroSector
  <2>1. /\ stage = "zero" /\ stage' = "zero" /\ target' = target
        /\ lba' = lba + 1 /\ lba \in Nat
        /\ UNCHANGED <<memory, pc, op, walk, writing, after, res, got>>
    BY <1>0, <1>6, SystemAssumption
    DEF ZeroSector, SysTyped, SysTypeOK
  <2>2. CASE target = "slave"
    <3>1. ZeroesSector(lba)
      BY <1>6, <2>2, NoFaults DEF ZeroSector
    <3>2. StoreOK' /\ (lba >= 3 => Emptied')
      BY <2>1, <2>2, <3>1, ZeroesOwned
    <3>3. QED
      BY <2>1, <3>2 DEF SysInv, Progress
  <2>3. CASE target # "slave"
    <3>1. UNCHANGED vars
      BY <1>6, <2>1, <2>3 DEF ZeroSector, vars
    <3>2. lba' >= 2 /\ target' # "slave"
      BY <2>1, <2>3 DEF SysInv
    <3>3. QED
      BY <1>2, <3>1, <3>2
  <2>4. QED
    BY <2>2, <2>3
<1>7. CASE WriteConfig
  <2>1. /\ stage = "zero" /\ stage' = "verify" /\ UNCHANGED <<dir, blk>>
        /\ UNCHANGED <<memory, pc, op, walk, writing, after, res, got>>
    BY <1>7 DEF WriteConfig
  <2>2. ChainsAscend' /\ Whole(dir', blk')
    BY <1>0, <2>1 DEF StoreOK, Ascending, ChainsAscend, Consistent
  <2>3. StoreOK'
    BY <1>0, <2>1, <2>2, RestingWiped
  <2>4. QED
    BY <2>1, <2>3 DEF Progress
<1>8. CASE PowerOff
  BY <1>0, <1>1, <1>8, StopOwned DEF PowerOff, StoreOK, Progress
<1>9. CASE BootSystem
  <2>1. Boot /\ pc = "off" /\ stage' = "run"
    BY <1>9 DEF BootSystem, Boot
  <2>2. Inv /\ Consistent
    BY <1>0, <2>1 DEF StoreOK, Storeless, SysTyped, Inv
  <2>3. QED
    BY <2>1, <2>2, StoreSteps DEF Next, Progress
<1>10. CASE InStore(Command) \/ InStore(Handler)
  <2>1. (Command \/ Handler) /\ stage = "run" /\ stage' = "run"
    BY <1>10 DEF InStore, flow
  <2>2. Inv /\ Consistent
    BY <1>0, <2>1, StoreServed DEF StoreOK
  <2>3. QED
    BY <2>1, <2>2, StoreSteps DEF Next, Progress
<1>11. CASE PowerOn \/ BootWizard \/ InstallCommand
              \/ (\E d \in Disks : Choose(d)) \/ UNCHANGED sysvars
  BY <1>2, <1>11
  DEF PowerOn, BootWizard, InstallCommand, Choose, sysvars, flow
<1>12. QED
  BY <1>4, <1>5, <1>6, <1>7, <1>8, <1>9, <1>10, <1>11
  DEF SysNext, Kernel, Wizard, InStore

LEMMA SysInitOwned == SysInit => SysInv
<1> SUFFICES ASSUME SysInit PROVE SysInv
  OBVIOUS
<1>1. Init
  BY DEF SysInit
<1>2. Ascending /\ Consistent /\ Ownership
  BY <1>1, InitAscending, InitConsistent, InitOwned
<1>3. StoreOK
  BY <1>2 DEF StoreOK, Ownership
<1>4. QED
  BY <1>3, SysInitTyped DEF SysInit, SysInv

(* Whatever the wizard zeroes and wherever it is cut short, an entry still *)
(* on the disk has its blocks with the data of one write, and no other     *)
(* entry's: the directory is gone before the first block is.               *)
THEOREM WizardLeavesFilesWhole ==
  ASSUME Faults = {}, Data # {} PROVE SysSpec => []FilesWholeOrGone
<1>1. SysInv => FilesWholeOrGone
  BY ConsistentFiles DEF SysInv, SysTyped, StoreOK, FilesWholeOrGone
<1>2. QED
  BY <1>1, SysInitOwned, SysNextOwned, PTL DEF SysSpec

(* A store that stays mounted while the wizard wipes its disk never hands  *)
(* out a block that a file on the disk uses: its bitmap, which nothing     *)
(* rebuilds, still covers every chain.                                     *)
THEOREM StaleBitmapStaysSafe ==
  ASSUME Faults = {} PROVE SysSpec => []StaleBitmapIsSafe
<1>1. SysInv => StaleBitmapIsSafe
  <2> SUFFICES ASSUME SysInv PROVE NoCrossLink /\ BitmapCovers
    BY DEF StaleBitmapIsSafe
  <2>1. PICK R \in SUBSET Blocks : Owned(dir, blk, R) /\ bitmap \subseteq R
    BY DEF SysInv, StoreOK, DiskOwned
  <2>2. NoCrossLink
    BY <2>1
    DEF NoCrossLink, Owned, RootsDistinct, LinksDistinct, RootsUnlinked
  <2>3. BitmapCovers
    BY DEF SysInv, StoreOK, Storeless, Ownership, Serving, BitmapCovers,
           Owned, RootsIn, Closed
  <2>4. QED
    BY <2>2, <2>3
<1>2. QED
  BY <1>1, SysInitOwned, SysNextOwned, PTL DEF SysSpec
=============================================================================
