-------------------------------- MODULE Pfs --------------------------------
(***************************************************************************)
(* The persistent file store of TinyOS (src/src/pfs.cpp): a superblock, a  *)
(* directory sector of fixed size and chains of data blocks on the primary *)
(* slave disk, with an allocation bitmap that exists only in memory.       *)
(*                                                                         *)
(* The kernel is single-threaded and its disk driver polls, so a handler   *)
(* is interrupted by one thing only: the machine stops.  Every step of     *)
(* this module therefore holds at most one sector write, and Crash may     *)
(* fall between any two of them.  Each ATA call may also fail, or lose a   *)
(* write silently, as far as the constant Faults allows.                   *)
(*                                                                         *)
(* A file's bytes are counted in chunks of PFS_DATA_SIZE: chunk i of a     *)
(* file written with data d is the pair <<d, i>>.                          *)
(***************************************************************************)
EXTENDS Naturals, Sequences, FiniteSets

CONSTANTS
  PFS_MAX_FILES,  \* slots of the directory sector (16 in the code)
  PFS_DATA_END,   \* last data block (999 in the code)
  ShortNames,     \* file names that fit an entry: at most 23 characters
  LongNames,      \* longer ones; only their first 24 characters are told apart
  Clip,           \* [LongNames -> ShortNames]: the first 23 characters
  NoName,         \* name[0] = 0: the mark of an empty directory slot
  Data,           \* what a caller may ask to write
  MaxChunks,      \* largest file asked for, in chunks
  BufChunks,      \* size of the buffer pfs_read_file is given, in chunks
  Faults,         \* the kinds of ATA failure that may happen
  Garbage         \* what an uninitialised directory buffer may happen to hold

EOC == 65535                              \* 0xFFFF, end of a block chain
UINT16 == 0..EOC
PFS_DATA_START == 4
Blocks == PFS_DATA_START..PFS_DATA_END
Slots == 0..(PFS_MAX_FILES - 1)
Names == ShortNames \cup LongNames

Blank == <<>>                             \* the payload of a zeroed sector
Chunks == Data \X (1..MaxChunks)
Payloads == Chunks \cup {Blank}
(* What the store puts into an entry, and what any 32 bytes can be read as *)
(* by it: a name field that no zero ends, too, and numbers of any size.    *)
Entries == [name: ShortNames \cup {NoName}, size: 0..MaxChunks,
            start: Blocks \cup {0}]
RawEntries == [name: Names \cup {NoName}, size: Nat, start: UINT16]
Directories == {d \in [Slots -> RawEntries] :
                  "read" \notin Faults => d \in [Slots -> Entries]}
NoEntry == [name |-> NoName, size |-> 0, start |-> 0]
BlockSectors == [next: Blocks \cup {0, EOC}, data: Payloads]

ASSUME ConstantsAssumption ==
  /\ PFS_MAX_FILES \in Nat \ {0}
  /\ PFS_DATA_END \in Nat
  /\ PFS_DATA_START <= PFS_DATA_END
  /\ PFS_DATA_END < EOC
  /\ Clip \in [LongNames -> ShortNames]
  /\ ShortNames \cap LongNames = {}
  /\ NoName \notin Names
  /\ MaxChunks \in Nat
  /\ BufChunks \in Nat
  /\ Faults \subseteq {"read", "write", "lost"}
  /\ Garbage \subseteq [Slots -> RawEntries]
ZeroBlock == [next |-> 0, data |-> Blank]

NoOp == [kind |-> "none"]
PlainOps == [kind: {"mkfile", "pfrm", "pfcat"}, name: Names]
WriteOps == [kind: {"pfwrite"}, name: Names, data: Data, n: 0..MaxChunks]
Ops == PlainOps \cup WriteOps

VARIABLES
  super,    \* sector 2: does it hold the magic?
  dir,      \* sector 3: the root directory
  blk,      \* sectors 4..PFS_DATA_END: next pointer and payload
  mounted,  \* g_pfs_mounted
  bitmap,   \* g_bitmap, as the set of blocks marked allocated
  pc,       \* where the kernel is; "off" while the machine is down
  op,       \* the command being served
  slot,     \* directory index a handler works on (e, idx)
  cur,      \* block a chain walk has reached
  first,    \* first_block of pfs_write_file
  prev,     \* prev_block of pfs_write_file
  done,     \* chunks pfs_write_file has taken from the caller
  after,    \* who called pfs_delete
  res,      \* what the last command returned
  got       \* chunks pfs_read_file has copied out

disk == <<super, dir, blk>>
memory == <<mounted, bitmap>>
walk == <<slot, cur>>
writing == <<first, prev, done>>
vars == <<disk, memory, pc, op, walk, writing, after, res, got>>

(***************************************************************************)
(* The disk driver, as far as the store sees it (src/src/ata.cpp).  A read *)
(* succeeds or fails before any byte is stored; a write replaces the whole *)
(* sector, reports an error and leaves it alone, or times out waiting for  *)
(* the device and still reports success.                                   *)
(***************************************************************************)
ReadOutcomes == IF "read" \in Faults THEN BOOLEAN ELSE {TRUE}
WriteOutcomes == {"done"} \cup (Faults \cap {"write", "lost"})
Reported(w) == w # "write"

(***************************************************************************)
(* Directory and bitmap helpers.  An operator named Slip... is a plausible *)
(* slip in the code of the operator below it: nothing here uses it, and    *)
(* the properties at the end are tested by putting it in that one's place. *)
(***************************************************************************)
(* str_eq_n over 24 bytes: a name the store has put down ends within 24    *)
(* bytes, so a longer one never equals it.                                 *)
Matches(e, n) == e.name # NoName /\ e.name = n

FoundAt(n, s) ==
  /\ Matches(dir[s], n)
  /\ \A t \in Slots : t < s => ~Matches(dir[t], n)
NotFound(n) == \A s \in Slots : ~Matches(dir[s], n)
SlipExists(n) == FALSE
Exists(n) == ~NotFound(n)

FreeSlot(s) ==
  /\ dir[s].name = NoName
  /\ \A t \in Slots : t < s => dir[t].name # NoName
DirFull == \A s \in Slots : dir[s].name # NoName

Stored(n) == IF n \in LongNames THEN Clip[n] ELSE n

SlipFirstFree(b) ==
  /\ b \in Blocks \ bitmap
  /\ \A c \in Blocks \ bitmap : c <= b
FirstFree(b) ==
  /\ b \in Blocks \ bitmap
  /\ \A c \in Blocks \ bitmap : b <= c
Full == Blocks \subseteq bitmap
SlipAllocated(b) == bitmap
Allocated(b) == bitmap \cup {b}
SlipMarked(b) == IF blk[b].next = EOC THEN bitmap ELSE bitmap \cup {b}
Marked(b) == bitmap \cup {b}
SlipHasChain(e) == e.start \in Blocks /\ e.start > PFS_DATA_START
HasChain(e) == e.start \in Blocks
Freed(b) == bitmap \ {b}
SlipCleared(e) == [e EXCEPT !.name = NoName]
Cleared(e) == NoEntry

NoLocals ==
  /\ slot' = 0 /\ cur' = 0 /\ first' = 0 /\ prev' = 0 /\ done' = 0
  /\ after' = "none"

Return(ok) ==
  /\ pc' = "idle"
  /\ op' = NoOp
  /\ res' = IF ok THEN "ok" ELSE "fail"
  /\ NoLocals

(***************************************************************************)
(* pfs_mount: read the superblock, then rebuild the bitmap or format.      *)
(***************************************************************************)
Boot ==
  /\ pc = "off"
  /\ pc' = "mount"
  /\ UNCHANGED <<disk, memory, op, walk, writing, after, res, got>>

MountRead ==
  /\ pc = "mount"
  /\ \E ok \in ReadOutcomes :
       pc' = CASE ok /\ super  -> "rebuild"
               [] ok /\ ~super -> "format"
               [] OTHER        -> "format_unread"
  /\ UNCHANGED <<disk, memory, op, walk, writing, after, res, got>>

(* The jump from the failed read skips the initialisation of magic, so     *)
(* what is then written as the magic is up to the build.                   *)
FormatSuper ==
  /\ pc \in {"format", "format_unread"}
  /\ \E w \in WriteOutcomes, m \in IF pc = "format" THEN {TRUE} ELSE BOOLEAN :
       super' = IF w = "done" THEN m ELSE super
  /\ pc' = "format_dir"
  /\ UNCHANGED <<dir, blk, memory, op, walk, writing, after, res, got>>

FormatDir ==
  /\ pc = "format_dir"
  /\ \E w \in WriteOutcomes :
       dir' = IF w = "done" THEN [s \in Slots |-> NoEntry] ELSE dir
  /\ bitmap' = {}
  /\ mounted' = TRUE
  /\ pc' = "idle"
  /\ UNCHANGED <<super, blk, op, walk, writing, after, res, got>>

Mounted ==
  /\ mounted' = TRUE
  /\ pc' = "idle"

RebuildRead ==
  /\ pc = "rebuild"
  /\ bitmap' = {}
  /\ \/ /\ pc' = "rebuild_slot"
        /\ UNCHANGED mounted
     \/ /\ FALSE \in ReadOutcomes
        /\ Mounted
  /\ UNCHANGED <<disk, op, walk, writing, after, res, got>>

RebuildSlot ==
  /\ pc = "rebuild_slot"
  /\ slot \in Slots
  /\ IF HasChain(dir[slot])
     THEN /\ cur' = dir[slot].start
          /\ pc' = "rebuild_chain"
          /\ UNCHANGED slot
     ELSE /\ slot' = slot + 1
          /\ UNCHANGED <<cur, pc>>
  /\ UNCHANGED <<disk, memory, op, writing, after, res, got>>

RebuildChain ==
  /\ pc = "rebuild_chain"
  /\ bitmap' = Marked(cur)
  /\ \E ok \in ReadOutcomes :
       IF ok /\ blk[cur].next \in Blocks
       THEN /\ cur' = blk[cur].next
            /\ UNCHANGED <<pc, slot>>
       ELSE /\ pc' = "rebuild_slot"
            /\ slot' = slot + 1
            /\ cur' = 0
  /\ UNCHANGED <<disk, mounted, op, writing, after, res, got>>

RebuildEnd ==
  /\ pc = "rebuild_slot"
  /\ slot = PFS_MAX_FILES
  /\ Mounted
  /\ slot' = 0
  /\ UNCHANGED <<disk, bitmap, op, cur, writing, after, res, got>>

(***************************************************************************)
(* The shell's pf* commands, which refuse to run before a mount, and the   *)
(* handlers they call.  A write may have any size pfs_write_file takes;    *)
(* cmd_pfwrite passes one word, which fits a block.                        *)
(***************************************************************************)
Command ==
  /\ pc = "idle" /\ mounted
  /\ \E o \in Ops :
       /\ op' = o
       /\ pc' = CASE o.kind = "mkfile" -> "create"
                 [] o.kind = "pfcat"  -> "cat"
                 [] OTHER             -> "delete"
       /\ after' = CASE o.kind = "pfrm"    -> "pfrm"
                    [] o.kind = "pfwrite" -> "create"
                    [] OTHER              -> "none"
  /\ res' = "none"
  /\ got' = <<>>
  /\ UNCHANGED <<disk, memory, walk, writing>>

(* pfs_create.  A failed read inside pfs_find counts as "not found"; the   *)
(* directory is then read again, and that failure is an error.             *)
Created(n) == [name |-> Stored(n), size |-> 0, start |-> 0]

CreateReturns(ok) ==
  IF op.kind = "pfwrite" /\ ok
  THEN /\ pc' = "w_find"
       /\ UNCHANGED <<op, walk, writing, after, res>>
  ELSE Return(ok)

CreateRefused ==
  /\ pc = "create"
  /\ Exists(op.name) \/ DirFull \/ FALSE \in ReadOutcomes
  /\ CreateReturns(FALSE)
  /\ UNCHANGED <<disk, memory, got>>

CreateEntry ==
  /\ pc = "create"
  /\ ~Exists(op.name) \/ FALSE \in ReadOutcomes
  /\ \E s \in Slots, w \in WriteOutcomes :
       /\ FreeSlot(s)
       /\ dir' = IF w = "done" THEN [dir EXCEPT ![s] = Created(op.name)]
                 ELSE dir
       /\ CreateReturns(Reported(w))
  /\ UNCHANGED <<super, blk, memory, got>>

(* pfs_write_file, once the old file is deleted and a new entry created.   *)
WFind ==
  /\ pc = "w_find"
  /\ \/ \E s \in Slots :
          /\ FoundAt(op.name, s)
          /\ slot' = s
          /\ pc' = "w_loop"
          /\ UNCHANGED <<op, cur, writing, after, res>>
     \/ /\ NotFound(op.name) \/ FALSE \in ReadOutcomes
        /\ Return(FALSE)
  /\ UNCHANGED <<disk, memory, got>>

(* bitmap_alloc finds nothing: pfs_delete(name), then false.               *)
WFull ==
  /\ pc = "w_loop" /\ done < op.n
  /\ Full
  /\ pc' = "delete"
  /\ after' = "fail"
  /\ UNCHANGED <<disk, memory, op, walk, writing, res, got>>

Fresh(d, i) == [next |-> EOC, data |-> <<d, i>>]

WBlock ==
  /\ pc = "w_loop" /\ done < op.n
  /\ \E b \in Blocks, w \in WriteOutcomes :
       /\ FirstFree(b)
       /\ bitmap' = Allocated(b)
       /\ first' = IF first = 0 THEN b ELSE first
       /\ blk' = IF w = "done"
                 THEN [blk EXCEPT ![b] = Fresh(op.data, done + 1)]
                 ELSE blk
       /\ IF ~Reported(w)
          THEN /\ pc' = "delete"
               /\ after' = "fail"
               /\ UNCHANGED <<cur, prev, done>>
          ELSE /\ done' = done + 1
               /\ IF prev = 0
                  THEN prev' = b /\ UNCHANGED <<cur, pc>>
                  ELSE cur' = b /\ pc' = "w_link" /\ UNCHANGED prev
               /\ UNCHANGED after
  /\ UNCHANGED <<super, dir, mounted, op, slot, res, got>>

(* The previous block is read, given its next pointer and written back;    *)
(* neither call is checked, so a failed read writes 510 bytes of stack.    *)
SlipLinked(b, p) == [next |-> EOC, data |-> p]
SlipLinkedIndex(b, p) == [next |-> b - PFS_DATA_START, data |-> p]
Linked(b, p) == [next |-> b, data |-> p]

WLink ==
  /\ pc = "w_link"
  /\ \E w \in WriteOutcomes, ok \in ReadOutcomes :
     \E p \in IF ok THEN {blk[prev].data} ELSE Payloads :
       blk' = IF w = "done" THEN [blk EXCEPT ![prev] = Linked(cur, p)]
              ELSE blk
  /\ prev' = cur
  /\ cur' = 0
  /\ pc' = "w_loop"
  /\ UNCHANGED <<super, dir, memory, op, slot, first, done, after, res, got>>

(* The directory is read (unchecked: the buffer may be uninitialised and   *)
(* hold any bytes, or an earlier copy of it), patched and written          *)
(* (unchecked).                                                            *)
Filled(e) == [e EXCEPT !.size = op.n, !.start = first]

WDir ==
  /\ pc = "w_loop" /\ done = op.n
  /\ \E w \in WriteOutcomes, ok \in ReadOutcomes :
     \E d \in IF ok THEN {dir} ELSE Garbage \cup {dir} :
       dir' = IF w = "done" THEN [d EXCEPT ![slot] = Filled(d[slot])] ELSE dir
  /\ Return(TRUE)
  /\ UNCHANGED <<super, blk, memory, got>>

(* pfs_delete, called by pfrm, by pfs_write_file before it creates (which  *)
(* ignores the answer) and again when pfs_write_file gives up.             *)
DelReturns(ok) ==
  IF after = "create"
  THEN /\ pc' = "create"
       /\ after' = "none"
       /\ slot' = 0 /\ cur' = 0
       /\ UNCHANGED <<op, writing, res>>
  ELSE Return(ok /\ after = "pfrm")

DelFind ==
  /\ pc = "delete"
  /\ \/ \E s \in Slots :
          /\ FoundAt(op.name, s)
          /\ slot' = s
          /\ cur' = dir[s].start
          /\ pc' = "del_chain"
          /\ UNCHANGED <<op, writing, after, res>>
     \/ /\ NotFound(op.name) \/ FALSE \in ReadOutcomes
        /\ DelReturns(FALSE)
  /\ UNCHANGED <<disk, memory, got>>

DelChain ==
  /\ pc = "del_chain" /\ cur \in Blocks
  /\ \/ /\ bitmap' = Freed(cur)
        /\ cur' = blk[cur].next
     \/ /\ FALSE \in ReadOutcomes
        /\ cur' = 0
        /\ UNCHANGED bitmap
  /\ UNCHANGED <<disk, mounted, pc, op, slot, writing, after, res, got>>

DelEntry ==
  /\ pc = "del_chain" /\ cur \notin Blocks
  /\ \E w \in WriteOutcomes :
       /\ dir' = IF w = "done" THEN [dir EXCEPT ![slot] = Cleared(dir[slot])]
                 ELSE dir
       /\ DelReturns(Reported(w))
  /\ UNCHANGED <<super, blk, memory, got>>

(* pfs_read_file.                                                          *)
CatFind ==
  /\ pc = "cat"
  /\ \/ \E s \in Slots :
          /\ FoundAt(op.name, s)
          /\ slot' = s
          /\ cur' = dir[s].start
          /\ pc' = "cat_chain"
          /\ UNCHANGED <<op, writing, after, res>>
     \/ /\ NotFound(op.name) \/ FALSE \in ReadOutcomes
        /\ Return(FALSE)
  /\ UNCHANGED <<disk, memory, got>>

SlipCatMore ==
  /\ cur \in Blocks
  /\ Len(got) < dir[slot].size
CatMore ==
  /\ cur \in Blocks
  /\ Len(got) < dir[slot].size /\ Len(got) < BufChunks

CatChain ==
  /\ pc = "cat_chain" /\ CatMore
  /\ \/ /\ got' = Append(got, blk[cur].data)
        /\ cur' = blk[cur].next
     \/ /\ FALSE \in ReadOutcomes
        /\ cur' = 0
        /\ UNCHANGED got
  /\ UNCHANGED <<disk, memory, pc, op, slot, writing, after, res>>

CatEnd ==
  /\ pc = "cat_chain" /\ ~CatMore
  /\ Return(got # <<>>)
  /\ UNCHANGED <<disk, memory, got>>

(* The machine stops: shutdown, reset or power loss, at any point.         *)
Stop ==
  /\ pc' = "off"
  /\ mounted' = FALSE /\ bitmap' = {}
  /\ op' = NoOp /\ NoLocals
  /\ res' = "none" /\ got' = <<>>
  /\ UNCHANGED disk
Crash == pc # "off" /\ Stop

(***************************************************************************)
(* The disk starts as tools/create_disk.py makes it and the installer      *)
(* leaves it: zeroes where the store will be.                              *)
(***************************************************************************)
Init ==
  /\ super = FALSE
  /\ dir = [s \in Slots |-> NoEntry]
  /\ blk = [b \in Blocks |-> ZeroBlock]
  /\ mounted = FALSE /\ bitmap = {}
  /\ pc = "off" /\ op = NoOp
  /\ slot = 0 /\ cur = 0 /\ first = 0 /\ prev = 0 /\ done = 0
  /\ after = "none" /\ res = "none" /\ got = <<>>

Mounting == MountRead \/ FormatSuper \/ FormatDir \/ RebuildRead
              \/ RebuildSlot \/ RebuildChain \/ RebuildEnd
Creating == CreateRefused \/ CreateEntry
Writing == WFind \/ WFull \/ WBlock \/ WLink \/ WDir
Deleting == DelFind \/ DelChain \/ DelEntry
Reading == CatFind \/ CatChain \/ CatEnd

(* One step of the handler that is running.                                *)
Handler == Mounting \/ Creating \/ Writing \/ Deleting \/ Reading

Next == Boot \/ Command \/ Handler \/ Crash

(* A failed read ends a walk along a chain before the chain ends.          *)
CutShort ==
  /\ pc \in {"rebuild_chain", "del_chain", "cat_chain"}
  /\ cur \in Blocks /\ blk[cur].next \in Blocks
  /\ cur' = 0 /\ op' = op

(* The kernel runs a handler to its end: there is nothing else to run.     *)
(* Users, power and the firmware owe us nothing, and the disk need not     *)
(* fail to get a handler out of a loop.                                    *)
Spec == Init /\ [][Next]_vars /\ WF_vars(Handler /\ ~CutShort)

-----------------------------------------------------------------------------
(***************************************************************************)
(* What the store promises.                                                *)
(***************************************************************************)
Handlers == {"mount", "format", "format_unread", "format_dir", "rebuild",
             "rebuild_slot", "rebuild_chain", "create", "w_find", "w_loop",
             "w_link", "delete", "del_chain", "cat", "cat_chain"}

(* Every variable keeps to its declared range: whatever the disk does and  *)
(* whatever bytes a failed read of the directory has put into it, no block *)
(* outside 4..999 is marked, freed or linked.  Without such a read the     *)
(* directory has names that fit and block numbers of the store only.       *)
TypeOK ==
  /\ super \in BOOLEAN
  /\ dir \in Directories
  /\ blk \in [Blocks -> BlockSectors]
  /\ mounted \in BOOLEAN
  /\ bitmap \in SUBSET Blocks
  /\ pc \in Handlers \cup {"off", "idle"}
  /\ op \in Ops \cup {NoOp}
  /\ slot \in 0..PFS_MAX_FILES
  /\ cur \in UINT16
  /\ first \in Blocks \cup {0}
  /\ prev \in Blocks \cup {0}
  /\ done \in 0..MaxChunks
  /\ after \in {"none", "pfrm", "create", "fail"}
  /\ res \in {"none", "ok", "fail"}
  /\ got \in Seq(Payloads)

(* A next pointer never leads back: it names a higher block, or ends the   *)
(* chain.  Chains therefore have no cycle on the disk, whatever reads and  *)
(* writes fail and wherever the machine stops; the loops of bitmap_rebuild,*)
(* pfs_delete and pfs_read_file, which have no bound, rest on it.          *)
ChainsAscend ==
  \A b \in Blocks : blk[b].next \in Blocks => b < blk[b].next

(* A block in use has at most one owner: one directory entry or one block  *)
(* in use points to it.  (Without ATA failures; crashes anywhere.)         *)
NoCrossLink ==
  /\ \A s, t \in Slots :
       /\ dir[s].start = dir[t].start
       /\ dir[s].start \in bitmap
       => s = t
  /\ \A b, c \in bitmap :
       /\ blk[b].next = blk[c].next
       /\ blk[b].next \in bitmap
       => b = c
  /\ \A s \in Slots, b \in bitmap :
       dir[s].start = blk[b].next => dir[s].start \notin bitmap

(* Between commands every block some file reaches is marked allocated, so  *)
(* bitmap_alloc cannot hand it out a second time.  (Without ATA failures.) *)
BitmapCovers ==
  pc = "idle" /\ mounted =>
    /\ \A s \in Slots : dir[s].start \in Blocks => dir[s].start \in bitmap
    /\ \A b \in bitmap : blk[b].next \in Blocks => blk[b].next \in bitmap

(* No two entries have the same name.  (Without ATA failures and for names *)
(* that fit an entry; pfs_create: "Fails if the file already exists".)     *)
UniqueNames ==
  \A s, t \in Slots :
    dir[s].name = dir[t].name /\ dir[s].name # NoName => s = t

(* The k-th block of the chain that starts at b.                           *)
Chain(b) ==
  LET c[k \in 0..MaxChunks] ==
        IF k = 0 THEN b
        ELSE IF c[k - 1] \in Blocks THEN blk[c[k - 1]].next ELSE 0
  IN  c

(* At every moment, in the middle of every command and after every crash,  *)
(* each entry on the disk has exactly the blocks its size asks for, they   *)
(* end with 0xFFFF, hold what one single write put there, in order, and    *)
(* belong to no other entry.  (Without ATA failures.)                      *)
CrashConsistent ==
  \A s \in Slots :
    LET c == Chain(dir[s].start)
        size == dir[s].size
    IN  /\ c[size] = IF size = 0 THEN 0 ELSE EOC
        /\ \E d \in Data : \A k \in 1..size :
             c[k - 1] \in Blocks /\ blk[c[k - 1]].data = <<d, k>>
        /\ \A t \in Slots \ {s} : \A k \in 1..size, l \in 1..dir[t].size :
             c[k - 1] # Chain(dir[t].start)[l - 1]

(* Blocks that some directory entry reaches.                               *)
Reachable ==
  LET r[k \in 0..Cardinality(Blocks)] ==
        IF k = 0 THEN {dir[s].start : s \in Slots} \cap Blocks
        ELSE r[k - 1] \cup ({blk[b].next : b \in r[k - 1]} \cap Blocks)
  IN  r[Cardinality(Blocks)]

(* A mount computes the bitmap exactly: all that the files on the disk     *)
(* use, and nothing left behind by a command that was cut short.           *)
MountExact ==
  [][~mounted /\ mounted' => bitmap' = Reachable']_vars

(* pfs_free_blocks counts the clear bits; between commands it should count *)
(* the blocks no file uses ("Get the number of free data blocks            *)
(* remaining").  It does not after a write whose block or directory sector *)
(* fails, or that runs out of space: the blocks it took belong to nobody.  *)
pfs_free_blocks == Cardinality(Blocks \ bitmap)
FreeBlocksExact ==
  pc = "idle" => pfs_free_blocks = Cardinality(Blocks \ Reachable)

(* Every command and every mount comes to an end (or the machine stops),   *)
(* however the disk behaves: no chain can trap a handler.                  *)
CommandsTerminate ==
  pc \in Handlers ~> pc \in {"idle", "off"}
=============================================================================
