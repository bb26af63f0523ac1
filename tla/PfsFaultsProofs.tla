-------------------------- MODULE PfsFaultsProofs --------------------------
(***************************************************************************)
(* Theorems about the store on a disk that fails, whatever the constant    *)
(* Faults allows.                                                          *)
(***************************************************************************)
EXTENDS PfsFaults, PfsConsistency

LEMMA ReadableReads == Readable!ReadOutcomes = {TRUE}
  BY DEF Readable!ReadOutcomes

(* The history variables have no part in a step of the store.              *)
LEMMA StoreSteps == [HNext]_hvars => [Next]_vars
  BY DEF HNext, hvars

LEMMA StoreTyped ==
  ASSUME Typed, Ascending, [HNext]_hvars PROVE Typed' /\ Ascending'
  BY StoreSteps, NextTyped, NextAscending

(***************************************************************************)
(* A mount whose reads succeed marks what the files use.                   *)
(***************************************************************************)
MountPcs == {"off", "mount", "format", "format_unread", "format_dir",
             "rebuild", "rebuild_slot", "rebuild_chain"}

(* Where the kernel is in a mount.                                         *)
Order ==
  /\ pc \in MountPcs => ~mounted
  /\ pc \in {"off", "mount", "rebuild"} => slot = 0

(* What has been marked, as long as no read of this mount has failed.      *)
SweptSoFar ==
  /\ pc = "rebuild_slot" => Swept(dir, bitmap, slot) /\ Closed(blk, bitmap)
  /\ pc = "rebuild_chain" => Sweeping(dir, blk, bitmap, slot, cur)
  /\ Marking

Repairing == Order /\ (misread # "mount" => SweptSoFar)

LEMMA InitRepairing == HInit => Repairing
  BY DEF HInit, Init, Repairing, Order, SweptSoFar, Marking, MountPcs

LEMMA NextOrder == Typed /\ Order /\ [Next]_vars => Order'
<1> SUFFICES ASSUME Typed, Order, [Next]_vars PROVE Order'
  OBVIOUS
<1>1. CASE UNCHANGED vars
  BY <1>1 DEF vars, Order, memory, walk
<1>2. CASE Crash
  BY <1>2 DEF Crash, Stop, NoLocals, Order
<1>3. CASE Boot \/ Mounting
  <2>1. /\ pc \in MountPcs
        /\ pc' \in {"mount", "rebuild"} => pc \in {"off", "mount"}
        /\ pc' # "off"
    BY <1>3
    DEF Boot, Mounting, MountRead, FormatSuper, FormatDir, RebuildRead,
        RebuildSlot, RebuildChain, RebuildEnd, Mounted, MountPcs
  <2>2. pc \in {"off", "mount"} => slot' = slot
    BY <1>3
    DEF Boot, Mounting, MountRead, FormatSuper, FormatDir, RebuildRead,
        RebuildSlot, RebuildChain, RebuildEnd, walk
  <2>3. mounted' = mounted \/ pc' = "idle"
    BY <1>3
    DEF Boot, Mounting, MountRead, FormatSuper, FormatDir, RebuildRead,
        RebuildSlot, RebuildChain, RebuildEnd, Mounted, memory
  <2>4. pc' \in MountPcs => ~mounted'
    BY <2>1, <2>3 DEF Order, MountPcs
  <2>5. QED
    BY <2>1, <2>2, <2>4 DEF Order
<1>4. CASE pc' \notin MountPcs
  BY <1>4 DEF Order, MountPcs
<1>5. ASSUME Command \/ Creating PROVE pc' \notin MountPcs
  BY <1>5
  DEF Command, Creating, CreateRefused, CreateEntry, CreateReturns, Return,
      MountPcs
<1>6. ASSUME Writing PROVE pc' \notin MountPcs
  BY <1>6
  DEF Writing, WFind, WFull, WBlock, WLink, WDir, Return, MountPcs
<1>7. ASSUME Deleting PROVE pc' \notin MountPcs
  BY <1>7 DEF Deleting, DelFind, DelReturns, DelChain, DelEntry, Return, MountPcs
<1>8. ASSUME Reading PROVE pc' \notin MountPcs
  BY <1>8 DEF Reading, CatFind, CatChain, CatEnd, Return, MountPcs
<1>9. QED
  BY <1>1, <1>2, <1>3, <1>4, <1>5, <1>6, <1>7, <1>8 DEF Next, Handler

(* A chain is followed as far as it goes when its blocks can be read.      *)
LEMMA ReadableChain ==
  ASSUME Readable!Next, pc = "rebuild_chain", blk[cur].next \in Blocks
  PROVE  pc' = "off" \/ (cur' = blk[cur].next /\ UNCHANGED <<pc, slot>>)
<1>1. CASE Readable!Crash
  BY <1>1 DEF Readable!Crash, Readable!Stop
<1>2. CASE Readable!RebuildChain
  <2>1. PICK ok \in Readable!ReadOutcomes :
          IF ok /\ blk[cur].next \in Blocks
          THEN cur' = blk[cur].next /\ UNCHANGED <<pc, slot>>
          ELSE TRUE
    BY <1>2
    DEF Readable!RebuildChain, Readable!Blocks, Blocks,
        Readable!PFS_DATA_START, PFS_DATA_START
  <2>2. ok = TRUE
    BY ReadableReads
  <2>3. QED
    BY <2>1, <2>2
<1>3. QED
  BY <1>1, <1>2
  DEF Readable!Next, Readable!Boot, Readable!Command, Readable!Handler,
      Readable!Mounting, Readable!Creating, Readable!Writing,
      Readable!Deleting, Readable!Reading, Readable!MountRead,
      Readable!FormatSuper, Readable!FormatDir, Readable!RebuildRead,
      Readable!RebuildSlot, Readable!RebuildEnd, Readable!CreateRefused,
      Readable!CreateEntry, Readable!WFind, Readable!WFull, Readable!WBlock,
      Readable!WLink, Readable!WDir, Readable!DelFind, Readable!DelChain,
      Readable!DelEntry, Readable!CatFind, Readable!CatChain, Readable!CatEnd

LEMMA SlotSwept ==
  ASSUME Typed, SweptSoFar, RebuildSlot PROVE SweptSoFar'
<1>1. /\ pc = "rebuild_slot" /\ slot \in Slots
      /\ Swept(dir, bitmap, slot) /\ Closed(blk, bitmap)
      /\ \A b \in bitmap : Reached(dir, blk, b)
      /\ UNCHANGED <<dir, blk, bitmap>>
  BY DEF RebuildSlot, SweptSoFar, Marking, disk, memory
<1>2. CASE HasChain(dir[slot])
  <2>1. pc' = "rebuild_chain" /\ cur' = dir[slot].start /\ slot' = slot
    BY <1>2 DEF RebuildSlot
  <2>2. cur' \in Blocks /\ cur' \in Roots(dir)
    BY <1>1, <1>2, <2>1 DEF HasChain, Roots
  <2>3. Reached(dir, blk, cur')
    BY <2>2, RootReached
  <2>4. Sweeping(dir, blk, bitmap, slot, cur)'
    BY <1>1, <2>1 DEF Sweeping, Swept, Closed
  <2>5. QED
    BY <1>1, <2>1, <2>3, <2>4 DEF SweptSoFar, Marking
<1>3. CASE ~HasChain(dir[slot])
  <2>1. pc' = "rebuild_slot" /\ slot' = slot + 1
    BY <1>1, <1>3 DEF RebuildSlot
  <2>2. \A t \in Slots : t < slot + 1 => t < slot \/ t = slot
    BY <1>1, BlockNumbers
  <2>3. Swept(dir, bitmap, slot)' /\ Closed(blk, bitmap)'
    BY <1>1, <1>3, <2>1, <2>2 DEF Swept, Closed, HasChain
  <2>4. QED
    BY <1>1, <2>1, <2>3 DEF SweptSoFar, Marking
<1>4. QED
  BY <1>2, <1>3

LEMMA ChainSwept ==
  ASSUME Typed, Ascending, SweptSoFar, RebuildChain, Readable!Next
  PROVE  SweptSoFar'
<1>1. /\ pc = "rebuild_chain" /\ slot \in Slots /\ cur \in Blocks
      /\ Sweeping(dir, blk, bitmap, slot, cur)
      /\ Reached(dir, blk, cur)
      /\ \A b \in bitmap : Reached(dir, blk, b)
      /\ UNCHANGED <<dir, blk>> /\ bitmap' = bitmap \cup {cur}
  BY DEF RebuildChain, Marked, SweptSoFar, Marking, Typed, LocalsOK, disk
<1>2. \A b \in bitmap' : Reached(dir, blk, b)
  BY <1>1
<1>3. CASE blk[cur].next \in Blocks
  <2>1. pc' = "off" \/ (cur' = blk[cur].next /\ UNCHANGED <<pc, slot>>)
    BY <1>1, <1>3, ReadableChain
  <2>2. CASE pc' = "off"
    BY <2>2 DEF SweptSoFar, Marking
  <2>3. CASE cur' = blk[cur].next /\ UNCHANGED <<pc, slot>>
    <3>1. cur < blk[cur].next
      BY <1>1, <1>3 DEF Ascending, ChainsAscend
    <3>2. Reached(dir, blk, cur')
      BY <1>1, <1>3, <2>3, <3>1, NextReached
    <3>3. Sweeping(dir, blk, bitmap, slot, cur)'
      BY <1>1, <2>3 DEF Sweeping, Swept
    <3>4. QED
      BY <1>1, <1>2, <2>3, <3>2, <3>3 DEF SweptSoFar, Marking
  <2>4. QED
    BY <2>1, <2>2, <2>3
<1>4. CASE blk[cur].next \notin Blocks
  <2>1. pc' = "rebuild_slot" /\ slot' = slot + 1
    BY <1>4 DEF RebuildChain
  <2>2. \A t \in Slots : t < slot + 1 => t < slot \/ t = slot
    BY <1>1, BlockNumbers
  <2>3. Swept(dir, bitmap, slot)' /\ Closed(blk, bitmap)'
    BY <1>1, <1>4, <2>1, <2>2 DEF Sweeping, Swept, Closed
  <2>4. QED
    BY <1>1, <1>2, <2>1, <2>3 DEF SweptSoFar, Marking
<1>5. QED
  BY <1>3, <1>4

LEMMA NextRepairing ==
  Typed /\ Ascending /\ Repairing /\ [HNext]_hvars => Repairing'
<1> SUFFICES ASSUME Typed, Ascending, Repairing, [HNext]_hvars
             PROVE  Repairing'
  OBVIOUS
<1>1. Order' /\ Order
  BY NextOrder, StoreSteps DEF Repairing
<1>2. CASE UNCHANGED hvars
  BY <1>1, <1>2
  DEF hvars, history, vars, disk, memory, walk, Repairing, SweptSoFar, Marking,
      Swept, Closed, Sweeping
<1>3. CASE HNext /\ pc' \notin {"rebuild_slot", "rebuild_chain"}
  BY <1>1, <1>3 DEF Repairing, SweptSoFar, Marking
<1>4. CASE HNext /\ pc' \in {"rebuild_slot", "rebuild_chain"}
           /\ misread' # "mount"
  <2>1. ~mounted'
    BY <1>1, <1>4 DEF Order, MountPcs
  <2>2. ~ReadFails /\ misread # "mount"
    BY <1>4, <2>1 DEF HNext, Watch
  <2>3. Readable!Next /\ SweptSoFar /\ Next
    BY <1>4, <2>2 DEF ReadFails, Repairing, HNext
  <2>4. RebuildRead \/ RebuildSlot \/ RebuildChain
    BY <1>4, <2>3
    DEF Next, Handler, Mounting, Creating, Writing, Deleting, Reading, Boot,
        Command, Crash, Stop, MountRead, FormatSuper, FormatDir, RebuildEnd,
        Mounted, CreateRefused, CreateEntry, CreateReturns, Return, WFind,
        WFull, WBlock, WLink, WDir, DelFind, DelReturns, DelChain, DelEntry,
        CatFind, CatChain, CatEnd
  <2>5. CASE RebuildRead
    <3>1. /\ pc = "rebuild" /\ pc' # "rebuild_chain" /\ bitmap' = {}
          /\ slot' = slot
      BY <2>5 DEF RebuildRead, Mounted, walk
    <3>2. slot' = 0
      BY <1>1, <3>1 DEF Order
    <3>3. Swept(dir, bitmap, slot)' /\ Closed(blk, bitmap)'
      BY <3>1, <3>2, BlockNumbers DEF Swept, Closed, Slots
    <3>4. QED
      BY <1>1, <3>1, <3>3 DEF Repairing, SweptSoFar, Marking
  <2>6. QED
    BY <1>1, <2>3, <2>4, <2>5, SlotSwept, ChainSwept DEF Repairing
<1>5. CASE HNext /\ misread' = "mount"
  BY <1>1, <1>5 DEF Repairing
<1>6. QED
  BY <1>2, <1>3, <1>4, <1>5

(* Whatever failed before, and however often, a mount that finds the store *)
(* and can read it marks exactly the blocks that the files on the disk use.*)
THEOREM RestartRepairs == HSpec => MountRepairs
<1>1. ASSUME Typed, Repairing, [HNext]_hvars, pc = "rebuild_slot",
             pc' = "idle", misread # "mount"
      PROVE  Exact'
  <2>1. RebuildEnd
    BY <1>1, StoreSteps
    DEF Next, Handler, Mounting, Creating, Writing, Deleting, Reading, Boot,
        Command, Crash, Stop, MountRead, FormatSuper, FormatDir, RebuildRead,
        RebuildSlot, RebuildChain, CreateRefused, CreateEntry, WFind, WFull,
        WBlock, WLink, WDir, DelFind, DelChain, DelEntry, CatFind, CatChain,
        CatEnd, vars
  <2>2. UNCHANGED <<dir, blk, bitmap>> /\ slot = PFS_MAX_FILES
    BY <2>1 DEF RebuildEnd, disk
  <2>3. RootsIn(dir, bitmap) /\ Closed(blk, bitmap)
    BY <1>1, <2>2, ConstantsAssumption
    DEF Repairing, SweptSoFar, Swept, RootsIn, Slots
  <2>4. Complete'
    BY <1>1, <2>2, <2>3
    DEF Complete, RootsIn, Closed, Repairing, SweptSoFar, Marking, Typed, TypeOK
  <2>5. QED
    BY <2>4, SweptIsExactNext
<1>2. Typed /\ Repairing /\ [HNext]_hvars =>
        [pc = "rebuild_slot" /\ pc' = "idle" /\ misread # "mount"
           => bitmap' = Reachable']_hvars
  <2>1. Exact' => bitmap' = Reachable'
    BY DEF Exact
  <2>2. QED
    BY <1>1, <2>1
<1>3. HInit => Typed /\ Ascending /\ Repairing
  BY InitTyped, InitAscending, InitRepairing DEF HInit
<1>4. Typed /\ Ascending /\ Repairing /\ [HNext]_hvars
        => (Typed /\ Ascending /\ Repairing)'
  BY StoreTyped, NextRepairing
<1>5. QED
  BY <1>2, <1>3, <1>4, PTL DEF HSpec, MountRepairs

(***************************************************************************)
(* A name has one entry as long as reads succeed.                          *)
(***************************************************************************)
(* Names whose entry may have been made for another, longer name.          *)
Ambiguous(n) == \E l \in LongNames : Clip[l] = n
UniqueShort ==
  \A s, t \in Slots :
    dir[s].name = dir[t].name /\ dir[s].name # NoName
      /\ ~Ambiguous(dir[s].name) => s = t

LEMMA ShortNamesTakenAway ==
  ASSUME UniqueShort, \A s \in Slots : dir'[s].name \in {dir[s].name, NoName}
  PROVE  UniqueShort'
  BY DEF UniqueShort, Ambiguous

LEMMA CreateReadable ==
  ASSUME Typed, UniqueShort, Readable!CreateEntry PROVE UniqueShort'
<1>1. PICK s \in Slots, w \in Readable!WriteOutcomes :
        dir' = IF w = "done" THEN [dir EXCEPT ![s] = Readable!Created(op.name)]
               ELSE dir
  BY DEF Readable!CreateEntry, Readable!Slots, Slots
<1>2. \A t \in Slots : dir[t].name # NoName => dir[t].name # op.name
  BY ReadableReads
  DEF Readable!CreateEntry, Readable!Exists, Readable!NotFound,
      Readable!Matches, Readable!Slots, Slots
<1>3. pc = "create"
  BY DEF Readable!CreateEntry
<1>4. op.name \in Names
  BY <1>3 DEF Typed, LocalsOK, Ops, PlainOps, WriteOps
<1>5. PICK e : e = Readable!Created(op.name)
  OBVIOUS
<1>6. e.name = op.name \/ Ambiguous(e.name)
  BY <1>4, <1>5 DEF Readable!Created, Readable!Stored, Ambiguous
<1>7. CASE dir' = dir
  BY <1>7 DEF UniqueShort, Ambiguous
<1>8. CASE dir' = [dir EXCEPT ![s] = e]
  <2>1. dir \in [Slots -> RawEntries]
    BY RawTyped
  <2>2. \A t \in Slots : dir'[t] = IF t = s THEN e ELSE dir[t]
    BY <1>8, <2>1
  <2>3. QED
    BY <1>2, <1>6, <2>2 DEF UniqueShort, Ambiguous
<1>9. QED
  BY <1>1, <1>5, <1>7, <1>8

LEMMA FillReadable ==
  ASSUME Typed, UniqueShort, Readable!WDir PROVE UniqueShort'
<1>1. PICK w \in Readable!WriteOutcomes, ok \in Readable!ReadOutcomes :
      \E d \in IF ok THEN {dir} ELSE Garbage \cup {dir} :
        dir' = IF w = "done"
               THEN [d EXCEPT ![slot] = Readable!Filled(d[slot])] ELSE dir
  BY DEF Readable!WDir
<1>2. ok = TRUE
  BY ReadableReads
<1>3. dir \in [Slots -> RawEntries] /\ slot \in Slots
  BY RawTyped DEF Readable!WDir, Typed, TypeOK, LocalsOK
<1>4. Readable!Filled(dir[slot]).name = dir[slot].name
  BY <1>3 DEF Readable!Filled, RawEntries
<1>5. QED
  BY <1>1, <1>2, <1>3, <1>4, ShortNamesTakenAway

LEMMA ReadableUnique ==
  ASSUME Typed, UniqueShort, Readable!Next PROVE UniqueShort'
<1>1. CASE Readable!FormatDir
  <2>1. \A s \in Slots : dir'[s].name \in {dir[s].name, NoName}
    BY <1>1
    DEF Readable!FormatDir, Readable!NoEntry, Readable!Slots, Slots
  <2>2. QED
    BY <2>1, ShortNamesTakenAway
<1>2. CASE Readable!CreateEntry
  BY <1>2, CreateReadable
<1>3. CASE Readable!WDir
  BY <1>3, FillReadable
<1>4. CASE Readable!DelEntry
  <2>1. \A s \in Slots : dir'[s].name \in {dir[s].name, NoName}
    BY <1>4
    DEF Readable!DelEntry, Readable!Cleared, Readable!NoEntry, Typed, TypeOK
  <2>2. QED
    BY <2>1, ShortNamesTakenAway
<1>5. CASE dir' = dir
  BY <1>5 DEF UniqueShort, Ambiguous
<1>6. QED
  BY <1>1, <1>2, <1>3, <1>4, <1>5
  DEF Readable!Next, Readable!Boot, Readable!Command, Readable!Handler,
      Readable!Mounting, Readable!Creating, Readable!Writing,
      Readable!Deleting, Readable!Reading, Readable!MountRead,
      Readable!FormatSuper, Readable!RebuildRead, Readable!RebuildSlot,
      Readable!RebuildChain, Readable!RebuildEnd, Readable!CreateRefused,
      Readable!WFind, Readable!WFull, Readable!WBlock, Readable!WLink,
      Readable!DelFind, Readable!DelChain, Readable!CatFind,
      Readable!CatChain, Readable!CatEnd, Readable!Crash, Readable!Stop,
      Readable!disk

(* Whatever writes fail or are lost, a name whose entry cannot be that of  *)
(* a longer name never has two entries before a read fails.                *)
THEOREM NamesUniqueUntilMisread == HSpec => []UniqueUntilMisread
<1> DEFINE I == misread = "never" => UniqueShort
<1>1. HInit => I
  BY DEF HInit, Init, UniqueShort, NoEntry
<1>2. Typed /\ I /\ [HNext]_hvars => I'
  <2> SUFFICES ASSUME Typed, I, [HNext]_hvars, misread' = "never"
               PROVE  UniqueShort'
    OBVIOUS
  <2>1. CASE UNCHANGED hvars
    BY <2>1 DEF hvars, history, vars, disk, UniqueShort, Ambiguous
  <2>2. CASE HNext
    <3>1. Readable!Next /\ misread = "never"
      BY <2>2 DEF HNext, Watch, ReadFails
    <3>2. QED
      BY <3>1, ReadableUnique
  <2>3. QED
    BY <2>1, <2>2
<1>3. I => UniqueUntilMisread
  BY DEF UniqueUntilMisread, UniqueShort, Ambiguous
<1>4. HInit => Typed /\ Ascending
  BY InitTyped, InitAscending DEF HInit
<1>5. Typed /\ Ascending /\ [HNext]_hvars => (Typed /\ Ascending)'
  BY StoreTyped
<1> HIDE DEF I
<1>6. QED
  BY <1>1, <1>2, <1>3, <1>4, <1>5, PTL DEF HSpec

(***************************************************************************)
(* Blocks have one owner until one of the failures of Watch.               *)
(*                                                                         *)
(* Blocks may be marked that no file has: what a failed write took.  So    *)
(* the set that is owned is not the bitmap, as it is without failures, but *)
(* a part V of it: the blocks of files and of the file being written.  The *)
(* entries on the disk may still hold more, R, while one is deleted or the *)
(* bitmap is rebuilt.                                                      *)
(***************************************************************************)
Rebuilding == {"rebuild_slot", "rebuild_chain"}
Hanging(V, x) == x \in V /\ Loose(dir, blk, V, x)

Held(R, V) ==
  /\ Owned(dir, blk, R)
  /\ pc \in Rebuilding => bitmap \subseteq R
  /\ pc = "rebuild_chain" => cur \in R
  /\ pc \in Serving => V \subseteq bitmap /\ Owned(dir, blk, V)
  /\ pc = "del_chain" => V \subseteq bitmap /\ Detached(dir, blk, V, slot, cur)
  /\ pc \in Filling /\ first # 0 => Hanging(V, first)
  /\ pc \in Filling /\ prev # 0 => prev \in V /\ first # 0
  /\ pc = "w_link" => Hanging(V, cur) /\ cur # first

SomeHeld == \E R \in SUBSET Blocks : \E V \in SUBSET R : Held(R, V)
Unharmed == ~harmed => misread = "never" /\ SomeHeld
Kept == Typed /\ Ascending /\ Repairing

(* What a step does that harms nothing.                                    *)
Harmless ==
  /\ Next /\ Readable!Next /\ ~EntryStays /\ ~FilesStay /\ ~PointerStays
  /\ misread = "never"

LEMMA HeldOnDisk ==
  ASSUME NEW R \in SUBSET Blocks, Owned(dir, blk, R)',
         pc' \notin Rebuilding \cup Serving \cup {"del_chain"}
  PROVE  SomeHeld'
<1>1. Held(R, {})'
  BY DEF Held, Rebuilding, Serving, Filling
<1>2. QED
  BY <1>1 DEF SomeHeld

LEMMA HeldAgain ==
  ASSUME NEW V \in SUBSET Blocks, V \subseteq bitmap', Owned(dir', blk', V),
         pc' \in Serving \ Filling
  PROVE  SomeHeld'
<1>1. Held(V, V)'
  BY DEF Held, Rebuilding, Serving, Filling
<1>2. QED
  BY <1>1 DEF SomeHeld

LEMMA NothingOwned ==
  ASSUME NEW D, NEW B, \A s \in Slots : D[s].start \notin Blocks
  PROVE  Owned(D, B, {})
  BY DEF Owned, RootsIn, Closed, RootsDistinct, LinksDistinct, RootsUnlinked

LEMMA InitUnharmed == HInit => Unharmed
<1> SUFFICES ASSUME HInit PROVE misread = "never" /\ SomeHeld
  BY DEF Unharmed
<1>1. Owned(dir, blk, {})
  BY NothingOwned, BlockNumbers DEF HInit, Init, NoEntry
<1>2. Held({}, {})
  BY <1>1 DEF Held, HInit, Init, Rebuilding, Serving, Filling
<1>3. QED
  BY <1>2 DEF SomeHeld, HInit

(* A mount whose first read succeeds goes on to the directory.             *)
LEMMA ReadableRebuild ==
  ASSUME Readable!Next, pc = "rebuild"
  PROVE  Readable!Crash \/ pc' = "rebuild_slot"
<1>1. CASE Readable!RebuildRead
  BY <1>1, ReadableReads DEF Readable!RebuildRead
<1>2. QED
  BY <1>1
  DEF Readable!Next, Readable!Boot, Readable!Command, Readable!Handler,
      Readable!Mounting, Readable!Creating, Readable!Writing,
      Readable!Deleting, Readable!Reading, Readable!MountRead,
      Readable!FormatSuper, Readable!FormatDir, Readable!RebuildChain,
      Readable!RebuildSlot, Readable!RebuildEnd, Readable!CreateRefused,
      Readable!CreateEntry, Readable!WFind, Readable!WFull, Readable!WBlock,
      Readable!WLink, Readable!WDir, Readable!DelFind, Readable!DelChain,
      Readable!DelEntry, Readable!CatFind, Readable!CatChain, Readable!CatEnd

(* A delete whose reads succeed frees every block of the chain.            *)
LEMMA ReadableDetach ==
  ASSUME Readable!Next, pc = "del_chain", cur \in Blocks, pc' = "del_chain"
  PROVE  bitmap' = bitmap \ {cur} /\ cur' = blk[cur].next
<1>1. CASE Readable!DelChain
  BY <1>1, ReadableReads DEF Readable!DelChain, Readable!Freed
<1>2. CASE Readable!DelEntry
  BY <1>2
  DEF Readable!DelEntry, Readable!Blocks, Blocks, Readable!PFS_DATA_START,
      PFS_DATA_START
<1>3. QED
  BY <1>1, <1>2
  DEF Readable!Next, Readable!Boot, Readable!Command, Readable!Handler,
      Readable!Mounting, Readable!Creating, Readable!Writing,
      Readable!Deleting, Readable!Reading, Readable!MountRead,
      Readable!FormatSuper, Readable!FormatDir, Readable!RebuildRead,
      Readable!RebuildChain, Readable!RebuildSlot, Readable!RebuildEnd,
      Readable!CreateRefused, Readable!CreateEntry, Readable!WFind,
      Readable!WFull, Readable!WBlock, Readable!WLink, Readable!WDir,
      Readable!DelFind, Readable!CatFind, Readable!CatChain,
      Readable!CatEnd, Readable!Crash, Readable!Stop

(* A write ends with the directory it has read.                            *)
LEMMA ReadableFill ==
  ASSUME Readable!Next, pc = "w_loop", done = op.n, pc' = "idle"
  PROVE  Readable!WDir
  BY ReadableReads
  DEF Readable!Next, Readable!Boot, Readable!Command, Readable!Handler,
      Readable!Mounting, Readable!Creating, Readable!Writing,
      Readable!Deleting, Readable!Reading, Readable!MountRead,
      Readable!FormatSuper, Readable!FormatDir, Readable!RebuildRead,
      Readable!RebuildChain, Readable!RebuildSlot, Readable!RebuildEnd,
      Readable!CreateRefused, Readable!CreateEntry, Readable!WFind,
      Readable!WFull, Readable!WBlock, Readable!WLink,
      Readable!DelFind, Readable!DelChain, Readable!DelEntry,
      Readable!CatFind, Readable!CatChain,
      Readable!CatEnd, Readable!Crash, Readable!Stop

LEMMA MountingHeld ==
  ASSUME Kept, SomeHeld, Harmless, Mounting PROVE SomeHeld'
<1> USE DEF disk, memory, walk, writing
<1>a. PICK R \in SUBSET Blocks : \E V \in SUBSET R : Held(R, V)
  BY DEF SomeHeld
<1>0. PICK V \in SUBSET R : Held(R, V)
  BY <1>a
<1>1. CASE MountRead \/ FormatSuper
  <2>1. Owned(dir, blk, R)'
    BY <1>0, <1>1 DEF MountRead, FormatSuper, Held
  <2>2. pc' \in {"rebuild", "format", "format_unread", "format_dir"}
    BY <1>1 DEF MountRead, FormatSuper
  <2>3. QED
    BY <2>1, <2>2, HeldOnDisk DEF Rebuilding, Serving
<1>2. CASE FormatDir
  <2>1. \A s \in Slots : dir'[s].start \notin Blocks
    BY <1>2 DEF Harmless, FilesStay
  <2>2. Owned(dir', blk', {})
    BY <2>1, NothingOwned
  <2>3. pc' = "idle"
    BY <1>2 DEF FormatDir
  <2>4. QED
    BY <2>2, <2>3, HeldAgain DEF Serving, Filling
<1>3. CASE RebuildRead
  <2>1. CASE Readable!Crash
    <3>1. Owned(dir, blk, R)' /\ pc' = "off"
      BY <1>0, <2>1 DEF Readable!Crash, Readable!Stop, Readable!disk, Held
    <3>2. QED
      BY <3>1, HeldOnDisk DEF Rebuilding, Serving
  <2>2. CASE pc' = "rebuild_slot"
    <3>1. bitmap' = {} /\ UNCHANGED <<dir, blk>>
      BY <1>3 DEF RebuildRead
    <3>2. Held(R, {})'
      BY <1>0, <2>2, <3>1 DEF Held, Rebuilding, Serving, Filling
    <3>3. QED
      BY <3>2 DEF SomeHeld
  <2>3. QED
    BY <1>3, <2>1, <2>2, ReadableRebuild DEF Harmless, RebuildRead
<1>4. CASE RebuildSlot
  <2>1. /\ pc = "rebuild_slot" /\ pc' \in Rebuilding
        /\ UNCHANGED <<dir, blk, bitmap>>
        /\ pc' = "rebuild_chain" => cur' = dir[slot].start /\ cur' \in Blocks
                                      /\ slot \in Slots
    BY <1>4 DEF RebuildSlot, HasChain, Rebuilding
  <2>2. Held(R, V)'
    BY <1>0, <2>1
    DEF Held, Rebuilding, Serving, Filling, Owned, RootsIn
  <2>3. QED
    BY <2>2 DEF SomeHeld
<1>5. CASE RebuildChain
  <2>1. /\ pc = "rebuild_chain" /\ pc' \in Rebuilding
        /\ UNCHANGED <<dir, blk>> /\ bitmap' = bitmap \cup {cur}
        /\ pc' = "rebuild_chain" => cur' = cur \/ cur' = blk[cur].next
        /\ pc' = "rebuild_chain" => cur' \in Blocks
    BY <1>5 DEF RebuildChain, Marked, Rebuilding
  <2>2. cur \in R /\ bitmap \subseteq R /\ Closed(blk, R)
    BY <1>0, <2>1 DEF Held, Rebuilding, Owned
  <2>3. Held(R, V)'
    BY <1>0, <2>1, <2>2
    DEF Held, Rebuilding, Serving, Filling, Closed
  <2>4. QED
    BY <2>3 DEF SomeHeld
<1>6. CASE RebuildEnd
  <2>1. /\ pc = "rebuild_slot" /\ slot = PFS_MAX_FILES
        /\ UNCHANGED <<dir, blk, bitmap>> /\ pc' = "idle"
    BY <1>6 DEF RebuildEnd, Mounted
  <2>2. RootsIn(dir, bitmap) /\ Closed(blk, bitmap)
    BY <2>1, ConstantsAssumption
    DEF Harmless, Kept, Repairing, SweptSoFar, Swept, RootsIn, Slots
  <2>3. Owned(dir, blk, bitmap) /\ bitmap \in SUBSET Blocks
    BY <1>0, <2>1, <2>2, OwnedShrinks DEF Held, Rebuilding
  <2>4. QED
    BY <2>1, <2>3, HeldAgain DEF Serving, Filling
<1>7. QED
  BY <1>1, <1>2, <1>3, <1>4, <1>5, <1>6 DEF Mounting

LEMMA CreatingHeld ==
  ASSUME Kept, SomeHeld, Creating PROVE SomeHeld'
<1>a. PICK R \in SUBSET Blocks : \E V \in SUBSET R : Held(R, V)
  BY DEF SomeHeld
<1>0. PICK V \in SUBSET R : Held(R, V)
  BY <1>a
<1>1. PICK ok \in BOOLEAN :
        pc = "create" /\ bitmap' = bitmap /\ blk' = blk /\ CreateReturns(ok)
  BY DEF Creating, CreateRefused, CreateEntry, Reported, disk, memory
<1>2. \A t \in Slots : dir'[t].start \in {dir[t].start, 0}
  <2>1. CASE dir' = dir
    BY <2>1
  <2>2. CASE \E s \in Slots : dir' = [dir EXCEPT ![s] = Created(op.name)]
    <3>1. Created(op.name).start = 0
      BY DEF Created
    <3>2. QED
      BY <2>2, <3>1 DEF Kept, Typed, TypeOK
  <2>3. QED
    BY <2>1, <2>2 DEF Creating, CreateRefused, CreateEntry, disk
<1>3. Owned(dir, blk, V) /\ V \subseteq bitmap
  BY <1>0, <1>1 DEF Held, Serving
<1>4. Owned(dir', blk', V) /\ V \subseteq bitmap'
  BY <1>1, <1>2, <1>3, OwnedDropsRoot
<1>5. pc' \in {"w_find", "idle"}
  BY <1>1 DEF CreateReturns, Return
<1>6. QED
  BY <1>4, <1>5, HeldAgain DEF Serving, Filling

LEMMA WBlockHeld ==
  ASSUME Kept, SomeHeld, Harmless, WBlock PROVE SomeHeld'
<1> USE DEF disk, memory, walk, writing
<1>a. PICK R \in SUBSET Blocks : \E V \in SUBSET R : Held(R, V)
  BY DEF SomeHeld
<1>0. PICK V \in SUBSET R : Held(R, V)
  BY <1>a
<1>1. Owned(dir, blk, V) /\ V \subseteq bitmap /\ pc = "w_loop"
  BY <1>0 DEF WBlock, Held, Serving
<1>2. PICK b \in Blocks, w \in WriteOutcomes :
        /\ FirstFree(b)
        /\ bitmap' = bitmap \cup {b}
        /\ first' = IF first = 0 THEN b ELSE first
        /\ blk' = IF w = "done"
                  THEN [blk EXCEPT ![b] = Fresh(op.data, done + 1)]
                  ELSE blk
        /\ IF ~Reported(w)
           THEN pc' = "delete"
           ELSE IF prev = 0
                THEN prev' = b /\ UNCHANGED <<cur, pc>>
                ELSE cur' = b /\ pc' = "w_link" /\ UNCHANGED prev
  BY DEF WBlock, Allocated
<1>3. dir' = dir
  BY DEF WBlock
<1>4. b \in Blocks \ V /\ b \notin bitmap
  BY <1>1, <1>2 DEF FirstFree
<1>5. CASE ~Reported(w)
  <2>1. blk' = blk /\ pc' = "delete"
    BY <1>2, <1>5 DEF Reported
  <2>2. QED
    BY <1>1, <1>2, <1>3, <2>1, HeldAgain DEF Serving, Filling
<1>6. CASE Reported(w)
  <2>1. blk \in [Blocks -> BlockSectors]
    BY DEF Kept, Typed, TypeOK
  <2>2. PICK x : x.next \notin Blocks /\ blk' = [blk EXCEPT ![b] = x]
    <3>1. CASE w = "done"
      <4>1. PICK y : y = Fresh(op.data, done + 1)
        OBVIOUS
      <4>2. y.next \notin Blocks
        BY <4>1, BlockNumbers DEF Fresh
      <4>3. blk' = [blk EXCEPT ![b] = y]
        BY <1>2, <3>1, <4>1
      <4>4. QED
        BY <4>2, <4>3
    <3>2. CASE w # "done"
      <4>1. blk' = blk /\ b \in bitmap' \ bitmap
        BY <1>2, <1>4, <3>2
      <4>2. pc' # "delete"
        BY <1>1, <1>2, <1>6
      <4>3. blk[b].next \notin Blocks
        BY <4>1, <4>2 DEF Harmless, PointerStays
      <4>4. blk' = [blk EXCEPT ![b] = blk[b]]
        BY <2>1, <4>1
      <4>5. QED
        BY <4>3, <4>4
    <3>3. QED
      BY <3>1, <3>2
  <2>3. PICK W : W = V \cup {b}
    OBVIOUS
  <2>4. /\ Owned(dir', blk', W)
        /\ Loose(dir', blk', W, b)
        /\ \A a \in V : Loose(dir, blk, V, a) => Loose(dir', blk', W, a)
    BY <1>1, <1>3, <1>4, <2>1, <2>2, <2>3, OwnedTakesBlock
  <2>5. /\ first # 0 => first \in V /\ Loose(dir, blk, V, first)
        /\ prev # 0 => prev \in V /\ first # 0
    BY <1>0, <1>1 DEF Held, Hanging, Filling
  <2>6. Hanging(W, first)' /\ first' # 0
    BY <1>2, <2>3, <2>4, <2>5, BlockNumbers DEF Hanging
  <2>7. W \in SUBSET Blocks /\ W \subseteq bitmap'
    BY <1>1, <1>2, <1>4, <2>3
  <2>8. CASE prev = 0
    <3>1. prev' = b /\ pc' = "w_loop"
      BY <1>1, <1>2, <1>6, <2>8
    <3>2. Held(W, W)'
      BY <2>3, <2>4, <2>6, <2>7, <3>1
      DEF Held, Rebuilding, Serving, Filling
    <3>3. QED
      BY <2>7, <3>2 DEF SomeHeld
  <2>9. CASE prev # 0
    <3>1. pc' = "w_link" /\ cur' = b /\ prev' = prev /\ prev \in W
      BY <1>2, <1>6, <2>3, <2>5, <2>9
    <3>2. Hanging(W, cur)' /\ cur' # first'
      BY <1>2, <1>4, <2>3, <2>4, <2>5, <2>9, <3>1 DEF Hanging
    <3>3. Held(W, W)'
      BY <2>4, <2>6, <2>7, <3>1, <3>2
      DEF Held, Rebuilding, Serving, Filling
    <3>4. QED
      BY <2>7, <3>3 DEF SomeHeld
  <2>10. QED
    BY <2>8, <2>9
<1>7. QED
  BY <1>5, <1>6

LEMMA WLinkHeld ==
  ASSUME Kept, SomeHeld, WLink PROVE SomeHeld'
<1> USE DEF disk, memory, walk, writing
<1>a. PICK R \in SUBSET Blocks : \E V \in SUBSET R : Held(R, V)
  BY DEF SomeHeld
<1>0. PICK V \in SUBSET R : Held(R, V)
  BY <1>a
<1>1. /\ UNCHANGED <<dir, bitmap, first>> /\ prev' = cur
      /\ pc = "w_link" /\ pc' = "w_loop"
  BY DEF WLink
<1>2. /\ Owned(dir, blk, V) /\ V \subseteq bitmap
      /\ prev \in V /\ first # 0 /\ cur # first
      /\ first \in V /\ Loose(dir, blk, V, first)
      /\ cur \in V /\ Loose(dir, blk, V, cur)
  BY <1>0, <1>1, BlockNumbers
  DEF Kept, Typed, LocalsOK, Held, Hanging, Serving, Filling
<1>3. Owned(dir', blk', V) /\ Loose(dir', blk', V, first')
  <2>1. CASE blk' = blk
    BY <1>1, <1>2, <2>1
  <2>2. CASE \E p : blk' = [blk EXCEPT ![prev] = Linked(cur, p)]
    <3>1. PICK p : blk' = [blk EXCEPT ![prev] = Linked(cur, p)]
      BY <2>2
    <3>2. PICK x : x = Linked(cur, p)
      OBVIOUS
    <3>3. x.next = cur /\ blk' = [blk EXCEPT ![prev] = x]
      BY <3>1, <3>2 DEF Linked
    <3>4. blk \in [Blocks -> BlockSectors]
      BY DEF Kept, Typed, TypeOK
    <3>5. QED
      BY <1>1, <1>2, <3>3, <3>4, OwnedLinks
  <2>3. QED
    BY <2>1, <2>2 DEF WLink
<1>4. Held(V, V)'
  BY <1>1, <1>2, <1>3
  DEF Held, Hanging, Rebuilding, Serving, Filling
<1>5. QED
  BY <1>4 DEF SomeHeld

LEMMA WDirHeld ==
  ASSUME Kept, SomeHeld, Readable!WDir, WDir PROVE SomeHeld'
<1> USE DEF disk, memory, walk, writing
<1>a. PICK R \in SUBSET Blocks : \E V \in SUBSET R : Held(R, V)
  BY DEF SomeHeld
<1>0. PICK V \in SUBSET R : Held(R, V)
  BY <1>a
<1>1. /\ UNCHANGED <<blk, bitmap>> /\ slot \in Slots /\ pc = "w_loop"
      /\ dir \in [Slots -> RawEntries] /\ pc' = "idle"
  BY RawTyped DEF WDir, Return, Kept, Typed, TypeOK, LocalsOK
<1>2. /\ Owned(dir, blk, V) /\ V \subseteq bitmap
      /\ first = 0 \/ (first \in V /\ Loose(dir, blk, V, first))
  BY <1>0, <1>1 DEF Held, Hanging, Serving, Filling
<1>3. CASE dir' = dir
  BY <1>1, <1>2, <1>3, HeldAgain DEF Serving, Filling
<1>4. CASE dir' = [dir EXCEPT ![slot] = Readable!Filled(dir[slot])]
  <2>1. Readable!Filled(dir[slot]).start = first
    BY <1>1 DEF Readable!Filled, Entries
  <2>2. Owned(dir', blk, V)
    BY <1>1, <1>2, <1>4, <2>1, OwnedAddsRoot
  <2>3. QED
    BY <1>1, <1>2, <2>2, HeldAgain DEF Serving, Filling
<1>5. dir' = dir \/ dir' = [dir EXCEPT ![slot] = Readable!Filled(dir[slot])]
  <2>1. PICK w \in Readable!WriteOutcomes, ok \in Readable!ReadOutcomes :
        \E d \in IF ok THEN {dir} ELSE Garbage \cup {dir} :
          dir' = IF w = "done"
                 THEN [d EXCEPT ![slot] = Readable!Filled(d[slot])] ELSE dir
    BY DEF Readable!WDir
  <2>2. ok = TRUE
    BY ReadableReads
  <2>3. QED
    BY <2>1, <2>2
<1>6. QED
  BY <1>3, <1>4, <1>5

LEMMA WritingHeld ==
  ASSUME Kept, SomeHeld, Harmless, Writing PROVE SomeHeld'
<1> USE DEF disk, memory, walk, writing
<1>a. PICK R \in SUBSET Blocks : \E V \in SUBSET R : Held(R, V)
  BY DEF SomeHeld
<1>0. PICK V \in SUBSET R : Held(R, V)
  BY <1>a
<1>1. CASE WFind
  <2>1. /\ UNCHANGED <<dir, blk, bitmap>>
        /\ Owned(dir, blk, V) /\ V \subseteq bitmap
    BY <1>0, <1>1 DEF WFind, Held, Serving
  <2>2. CASE pc' = "w_loop" /\ UNCHANGED writing
    <3>1. first' = 0 /\ prev' = 0
      BY <1>1, <2>2 DEF WFind, Kept, Ascending, WritePosition
    <3>2. Held(V, V)'
      BY <2>1, <2>2, <3>1 DEF Held, Rebuilding, Serving, Filling
    <3>3. QED
      BY <3>2 DEF SomeHeld
  <2>3. CASE Return(FALSE)
    BY <2>1, <2>3, HeldAgain DEF Return, Serving, Filling
  <2>4. QED
    BY <1>1, <2>2, <2>3 DEF WFind
<1>2. CASE WFull
  <2>1. /\ UNCHANGED <<dir, blk, bitmap>> /\ pc' = "delete"
        /\ Owned(dir, blk, V) /\ V \subseteq bitmap
    BY <1>0, <1>2 DEF WFull, Held, Serving
  <2>2. QED
    BY <2>1, HeldAgain DEF Serving, Filling
<1>3. CASE WDir
  <2>1. pc = "w_loop" /\ done = op.n /\ pc' = "idle"
    BY <1>3 DEF WDir, Return
  <2>2. Readable!WDir
    BY <2>1, ReadableFill DEF Harmless
  <2>3. QED
    BY <1>3, <2>2, WDirHeld
<1>4. QED
  BY <1>1, <1>2, <1>3, WBlockHeld, WLinkHeld DEF Writing

LEMMA DeletingHeld ==
  ASSUME Kept, SomeHeld, Harmless, Deleting PROVE SomeHeld'
<1> USE DEF disk, memory, walk, writing
<1>a. PICK R \in SUBSET Blocks : \E V \in SUBSET R : Held(R, V)
  BY DEF SomeHeld
<1>0. PICK V \in SUBSET R : Held(R, V)
  BY <1>a
<1>1. CASE DelFind
  <2>1. /\ Owned(dir, blk, V) /\ V \subseteq bitmap
        /\ UNCHANGED <<dir, blk, bitmap>>
    BY <1>0, <1>1 DEF DelFind, Held, Serving
  <2>2. CASE DelReturns(FALSE)
    <3>1. pc' \in {"create", "idle"}
      BY <2>2 DEF DelReturns, Return
    <3>2. QED
      BY <2>1, <3>1, HeldAgain DEF Serving, Filling
  <2>3. ASSUME NEW s \in Slots, slot' = s, cur' = dir[s].start,
               pc' = "del_chain"
        PROVE  SomeHeld'
    <3>1. Detached(dir', blk', V, slot', cur')
      BY <2>1, <2>3, DetachStarts
    <3>2. Held(V, V)'
      BY <2>1, <2>3, <3>1 DEF Held, Rebuilding, Serving, Filling
    <3>3. QED
      BY <3>2 DEF SomeHeld
  <2>4. QED
    BY <1>1, <2>2, <2>3 DEF DelFind
<1>2. CASE DelChain
  <2>1. /\ bitmap' = bitmap \ {cur} /\ cur' = blk[cur].next
        /\ UNCHANGED <<dir, blk, slot, pc>> /\ pc = "del_chain"
        /\ cur \in Blocks
    BY <1>2, ReadableDetach DEF Harmless, DelChain, Freed
  <2>2. /\ slot \in Slots /\ Detached(dir, blk, V, slot, cur)
        /\ Owned(dir, blk, R) /\ V \subseteq bitmap
    BY <1>0, <2>1 DEF Kept, Typed, LocalsOK, Held
  <2>3. PICK W : W = V \ {cur}
    OBVIOUS
  <2>4. Detached(dir', blk', W, slot', cur') /\ Owned(dir', blk', R)
    BY <2>1, <2>2, <2>3, DetachGoesOn
  <2>5. W \subseteq bitmap' /\ W \in SUBSET R /\ pc' = "del_chain"
    BY <2>1, <2>2, <2>3
  <2>6. Held(R, W)'
    BY <2>4, <2>5 DEF Held, Rebuilding, Serving, Filling
  <2>7. QED
    BY <2>5, <2>6 DEF SomeHeld
<1>3. CASE DelEntry
  <2>1. /\ UNCHANGED <<blk, bitmap>> /\ pc = "del_chain" /\ cur \notin Blocks
        /\ pc' \in {"create", "idle"}
    BY <1>3 DEF DelEntry, DelReturns, Return
  <2>2. /\ slot \in Slots /\ Detached(dir, blk, V, slot, cur)
        /\ dir \in [Slots -> RawEntries]
        /\ Owned(dir, blk, R) /\ V \subseteq bitmap
    BY <1>0, <2>1, RawTyped DEF Kept, Typed, TypeOK, LocalsOK, Held
  <2>3. Owned(dir', blk', V)
    <3>1. CASE dir' = dir
      <4>1. dir[slot].start \notin Blocks
        BY <1>3, <3>1 DEF Harmless, EntryStays
      <4>2. RootsIn(dir, V) /\ Closed(blk, V)
        BY <2>2, <4>1 DEF Detached, RootsIn
      <4>3. QED
        BY <2>1, <2>2, <3>1, <4>2, OwnedShrinks
    <3>2. CASE dir' = [dir EXCEPT ![slot] = NoEntry]
      <4>1. /\ \A t \in Slots \ {slot} : dir'[t] = dir[t]
            /\ dir'[slot].start = 0
        BY <2>2, <3>2 DEF NoEntry
      <4>2. QED
        BY <2>1, <2>2, <4>1, DetachEnds
    <3>3. QED
      BY <1>3, <3>1, <3>2 DEF DelEntry, Cleared
  <2>4. QED
    BY <2>1, <2>2, <2>3, HeldAgain DEF Serving, Filling
<1>4. QED
  BY <1>1, <1>2, <1>3 DEF Deleting

LEMMA ReadingHeld ==
  ASSUME SomeHeld, Reading PROVE SomeHeld'
<1>a. PICK R \in SUBSET Blocks : \E V \in SUBSET R : Held(R, V)
  BY DEF SomeHeld
<1>0. PICK V \in SUBSET R : Held(R, V)
  BY <1>a
<1>1. pc' \in {"cat_chain", "idle"} /\ UNCHANGED <<dir, blk, bitmap>>
  BY DEF Reading, CatFind, CatChain, CatEnd, Return, disk, memory
<1>2. Owned(dir, blk, V) /\ V \subseteq bitmap
  BY <1>0 DEF Reading, CatFind, CatChain, CatEnd, Held, Serving
<1>3. QED
  BY <1>1, <1>2, HeldAgain DEF Serving, Filling

LEMMA HarmlessHeld ==
  ASSUME Kept, SomeHeld, Harmless PROVE SomeHeld'
<1> USE DEF disk, memory, walk, writing
<1>a. PICK R \in SUBSET Blocks : \E V \in SUBSET R : Held(R, V)
  BY DEF SomeHeld
<1>0. PICK V \in SUBSET R : Held(R, V)
  BY <1>a
<1>1. CASE Boot \/ Crash
  <2>1. Owned(dir, blk, R)' /\ pc' \in {"off", "mount"}
    BY <1>0, <1>1 DEF Boot, Crash, Stop, Held
  <2>2. QED
    BY <2>1, HeldOnDisk DEF Rebuilding, Serving
<1>2. CASE Command
  <2>1. /\ Owned(dir, blk, V) /\ V \subseteq bitmap
        /\ UNCHANGED <<dir, blk, bitmap>>
    BY <1>0, <1>2 DEF Command, Held, Serving
  <2>2. pc' \in {"create", "cat", "delete"}
    BY <1>2 DEF Command
  <2>3. QED
    BY <2>1, <2>2, HeldAgain DEF Serving, Filling
<1>3. QED
  BY <1>1, <1>2, MountingHeld, CreatingHeld, WritingHeld, DeletingHeld,
     ReadingHeld
  DEF Harmless, Next, Handler

LEMMA NextUnharmed ==
  ASSUME Kept, Unharmed, [HNext]_hvars PROVE Unharmed'
<1> SUFFICES ASSUME ~harmed' PROVE misread' = "never" /\ SomeHeld'
  BY DEF Unharmed
<1>1. CASE UNCHANGED hvars
  BY <1>1
  DEF hvars, history, vars, disk, memory, walk, writing, Unharmed, SomeHeld,
      Held, Hanging
<1>2. CASE HNext
  <2>1. ~ReadFails /\ ~harmed /\ ~EntryStays /\ ~FilesStay /\ ~PointerStays
    BY <1>2 DEF HNext, Watch
  <2>2. misread = "never" /\ SomeHeld
    BY <2>1 DEF Unharmed
  <2>3. Harmless
    BY <1>2, <2>1, <2>2 DEF Harmless, HNext, ReadFails
  <2>4. misread' = "never"
    BY <1>2, <2>1, <2>2 DEF HNext, Watch
  <2>5. QED
    BY <2>2, <2>3, <2>4, HarmlessHeld
<1>3. QED
  BY <1>1, <1>2

(* What the entries hold is all that the disk reaches.                     *)
LEMMA ReachableHeld ==
  ASSUME NEW S, RootsIn(dir, S), Closed(blk, S)
  PROVE  Reachable \subseteq S
<1>0. Distance \in Nat
  BY DistanceOfBlocks
<1>1. PICK r : IsReach(dir, blk, r, Distance) /\ Reachable = r[Distance]
  BY ReachableIsReach
<1> DEFINE T == {k \in 0..Distance : r[k] \subseteq S}
<1>2. 0 \in T
  <2>1. r[0] = Roots(dir) /\ 0 \in 0..Distance
    BY <1>0, <1>1 DEF IsReach
  <2>2. Roots(dir) \subseteq S
    BY DEF Roots, RootsIn
  <2>3. QED
    BY <2>1, <2>2
<1>3. \A k \in 0..Distance : k < Distance /\ k \in T => k + 1 \in T
  <2> SUFFICES ASSUME NEW k \in 0..Distance, k < Distance, k \in T
               PROVE  k + 1 \in T
    OBVIOUS
  <2>1. k + 1 \in 0..Distance /\ k + 1 # 0 /\ (k + 1) - 1 = k
    BY <1>0
  <2>2. r[k + 1] = r[k] \cup Successors(blk, r[k])
    BY <1>1, <2>1 DEF IsReach
  <2>3. Successors(blk, r[k]) \subseteq S
    BY DEF Successors, Closed
  <2>4. QED
    BY <2>1, <2>2, <2>3
<1> HIDE DEF T
<1>4. \A k \in 0..Distance : k \in T
  BY <1>0, <1>2, <1>3, IntervalInduction
<1>5. QED
  BY <1>0, <1>1, <1>4 DEF T

LEMMA HeldOnce ==
  ASSUME Typed, NEW R \in SUBSET Blocks, Owned(dir, blk, R),
         NEW b \in Reachable, NEW h \in Holders(b), NEW g \in Holders(b)
  PROVE  h = g
<1>1. Reachable \subseteq R
  BY ReachableHeld DEF Owned
<1>2. b \in Blocks
  BY <1>1
<1>3. \A s, t \in Slots : dir[s].start = b /\ dir[t].start = b => s = t
  BY <1>2 DEF Owned, RootsDistinct
<1>4. \A c, d \in Reachable : blk[c].next = b /\ blk[d].next = b => c = d
  BY <1>1, <1>2 DEF Owned, LinksDistinct
<1>5. \A s \in Slots, c \in Reachable :
        ~(dir[s].start = b /\ blk[c].next = b)
  BY <1>1, <1>2 DEF Owned, RootsUnlinked
<1>6. \A k \in Holders(b) :
        \/ \E s \in Slots : dir[s].start = b /\ k = <<"entry", s>>
        \/ \E c \in Reachable : blk[c].next = b /\ k = <<"block", c>>
  BY DEF Holders
<1>7. QED
  BY <1>3, <1>4, <1>5, <1>6

(* As long as reads succeed and none of three writes fails, no block has   *)
(* two owners and no block of a file is free, whatever else fails.         *)
THEOREM BlocksOwnedUnlessHarmed == HSpec => []OwnedUnlessHarmed
<1>1. ASSUME Typed, Unharmed PROVE OwnedUnlessHarmed
  <2> SUFFICES ASSUME ~harmed
               PROVE  /\ \A b \in Reachable : \A h, g \in Holders(b) : h = g
                      /\ pc = "idle" /\ mounted => Reachable \subseteq bitmap
    BY DEF OwnedUnlessHarmed
  <2>1. PICK R \in SUBSET Blocks : \E V \in SUBSET R : Held(R, V)
    BY <1>1 DEF Unharmed, SomeHeld
  <2>2. PICK V \in SUBSET R : Held(R, V)
    BY <2>1
  <2>3. \A b \in Reachable : \A h, g \in Holders(b) : h = g
    BY <1>1, <2>2, HeldOnce DEF Held
  <2>4. pc = "idle" => RootsIn(dir, V) /\ Closed(blk, V) /\ V \subseteq bitmap
    BY <2>2 DEF Held, Serving, Owned
  <2>5. pc = "idle" => Reachable \subseteq V
    BY <2>4, ReachableHeld
  <2>6. QED
    BY <2>3, <2>4, <2>5
<1>2. HInit => Kept /\ Unharmed
  BY InitTyped, InitAscending, InitRepairing, InitUnharmed DEF HInit, Kept
<1>3. Kept /\ Unharmed /\ [HNext]_hvars => (Kept /\ Unharmed)'
  BY StoreTyped, NextRepairing, NextUnharmed DEF Kept
<1>4. Kept /\ Unharmed => OwnedUnlessHarmed
  BY <1>1 DEF Kept
<1>5. QED
  BY <1>2, <1>3, <1>4, PTL DEF HSpec
=============================================================================
