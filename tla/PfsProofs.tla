----------------------------- MODULE PfsProofs -----------------------------
(***************************************************************************)
(* Theorems about the store of Pfs, for every size of the disk and of the  *)
(* directory, every set of names and contents.                             *)
(***************************************************************************)
EXTENDS Pfs, TLAPS

(***************************************************************************)
(* Part 1.  Types and chains, whatever the disk does.                      *)
(***************************************************************************)

(* What the locals of a handler hold while it is at work.                  *)
LocalsOK ==
  /\ pc \in {"create", "delete", "del_chain", "cat", "cat_chain", "w_find",
             "w_loop", "w_link"} => op \in Ops
  /\ pc \in {"w_find", "w_loop", "w_link"} => op \in WriteOps
  /\ pc \in {"w_loop", "w_link", "del_chain", "cat_chain", "rebuild_chain"}
       => slot \in Slots
  /\ pc \in {"w_link", "rebuild_chain"} => cur \in Blocks
  /\ pc = "w_link" => prev \in Blocks

Typed == TypeOK /\ LocalsOK

(* Zero is not a block, nor is the end mark.                               *)
LEMMA BlockNumbers ==
  /\ 0 \notin Blocks /\ EOC \notin Blocks
  /\ Blocks \subseteq Nat /\ 0 \in Slots /\ Slots \subseteq Nat
  BY ConstantsAssumption DEF Blocks, EOC, PFS_DATA_START, Slots

LEMMA EntriesTyped ==
  /\ NoEntry \in Entries
  /\ \A n \in Names : Created(n) \in Entries
  BY ConstantsAssumption
  DEF Entries, NoEntry, Created, Stored, Names

LEMMA BlocksAreUINT16 == Blocks \cup {0, EOC} \subseteq UINT16
<1>1. Blocks \subseteq UINT16
  <2>1. EOC \in Nat /\ 4 \in Nat
    BY DEF EOC
  <2>2. ASSUME NEW b \in Blocks PROVE b \in 0..EOC
    <3>1. b \in Nat /\ 4 <= b /\ b <= PFS_DATA_END
      BY <2>2, ConstantsAssumption DEF Blocks, PFS_DATA_START
    <3>2. QED
      BY <2>1, <3>1, ConstantsAssumption
  <2>3. QED
    BY <2>2 DEF UINT16
<1>2. {0, EOC} \subseteq UINT16
  BY DEF UINT16, EOC
<1>3. QED
  BY <1>1, <1>2

(* What the store puts into an entry is what any bytes may be.             *)
LEMMA EntriesAreRaw ==
  /\ Entries \subseteq RawEntries
  /\ \A e \in RawEntries : e.start \in UINT16
  BY ConstantsAssumption, BlocksAreUINT16 DEF Entries, RawEntries, Names

LEMMA EmptyDirectory == [s \in Slots |-> NoEntry] \in Directories
  BY EntriesTyped, EntriesAreRaw DEF Directories

(* The store may replace any entry of any directory.                       *)
LEMMA DirectoryUpdate ==
  ASSUME NEW d \in Directories, NEW s, NEW e \in Entries
  PROVE  [d EXCEPT ![s] = e] \in Directories
  BY EntriesAreRaw DEF Directories

LEMMA DirectoryStarts ==
  ASSUME NEW d \in Directories, NEW s \in Slots
  PROVE  d[s].start \in UINT16
  BY EntriesAreRaw DEF Directories

(* As long as no read fails the directory holds what the store put there.  *)
LEMMA DirectoryOfStore ==
  ASSUME "read" \notin Faults, NEW d \in Directories
  PROVE  d \in [Slots -> Entries]
  BY DEF Directories

(* Whatever bytes a failed read has put there, it has names and numbers.   *)
LEMMA RawTyped == Typed => dir \in [Slots -> RawEntries]
  BY DEF Typed, TypeOK, Directories

LEMMA GoodEntries ==
  ASSUME "read" \notin Faults, Typed PROVE dir \in [Slots -> Entries]
  BY DirectoryOfStore DEF Typed, TypeOK

LEMMA InitTyped == Init => Typed
<1> SUFFICES ASSUME Init PROVE Typed
  OBVIOUS
<1> USE DEF Init
<1>1. dir \in Directories
  BY EmptyDirectory
<1>2. blk \in [Blocks -> BlockSectors]
  BY DEF BlockSectors, Payloads, ZeroBlock
<1>3. got \in Seq(Payloads)
  OBVIOUS
<1>4. slot \in 0..PFS_MAX_FILES /\ done \in 0..MaxChunks
  BY ConstantsAssumption
<1>5. QED
  BY <1>1, <1>2, <1>3, <1>4, BlocksAreUINT16 DEF Typed, TypeOK, LocalsOK

LEMMA MountingTyped == Typed /\ Mounting => Typed'
<1> SUFFICES ASSUME Typed, Mounting PROVE Typed'
  OBVIOUS
<1> USE DEF Typed, TypeOK, LocalsOK, Handlers, disk, memory, walk, writing
<1>1. CASE MountRead
  BY <1>1 DEF MountRead
<1>2. CASE FormatSuper
  BY <1>2 DEF FormatSuper
<1>3. CASE FormatDir
  BY <1>3, EmptyDirectory DEF FormatDir
<1>4. CASE RebuildRead
  BY <1>4 DEF RebuildRead, Mounted
<1>5. CASE RebuildSlot
  BY <1>5, ConstantsAssumption, BlocksAreUINT16
  DEF RebuildSlot, HasChain, Slots
<1>6. CASE RebuildChain
  BY <1>6, ConstantsAssumption, BlocksAreUINT16
  DEF RebuildChain, Marked, Slots, BlockSectors
<1>7. CASE RebuildEnd
  BY <1>7, BlockNumbers DEF RebuildEnd, Mounted, Slots
<1>8. QED
  BY <1>1, <1>2, <1>3, <1>4, <1>5, <1>6, <1>7 DEF Mounting

LEMMA ReturnTyped ==
  ASSUME NEW ok, Typed, Return(ok),
         super' \in BOOLEAN, dir' \in Directories,
         blk' \in [Blocks -> BlockSectors], mounted' \in BOOLEAN,
         bitmap' \in SUBSET Blocks, got' \in Seq(Payloads)
  PROVE  Typed'
  BY ConstantsAssumption, BlockNumbers, BlocksAreUINT16
  DEF Return, NoLocals, Typed, TypeOK, LocalsOK, Handlers

LEMMA CreatingTyped == Typed /\ Creating => Typed'
<1> SUFFICES ASSUME Typed, Creating PROVE Typed'
  OBVIOUS
<1>1. ASSUME NEW ok, pc = "create", CreateReturns(ok),
             dir' \in Directories, UNCHANGED <<super, blk, memory, got>>
      PROVE  Typed'
  <2>1. CASE op.kind = "pfwrite" /\ ok
    <3>1. op \in WriteOps
      BY <1>1, <2>1 DEF Typed, LocalsOK, Ops, PlainOps
    <3>2. QED
      BY <1>1, <2>1, <3>1
      DEF CreateReturns, Typed, TypeOK, LocalsOK, Handlers, memory, walk,
          writing
  <2>2. CASE ~(op.kind = "pfwrite" /\ ok)
    BY <1>1, <2>2, ReturnTyped DEF CreateReturns, memory, Typed, TypeOK
  <2>3. QED
    BY <2>1, <2>2
<1>2. CASE CreateRefused
  BY <1>1, <1>2 DEF CreateRefused, disk, Typed, TypeOK
<1>3. CASE CreateEntry
  <2>1. Created(op.name) \in Entries
    BY <1>3, EntriesTyped
    DEF CreateEntry, Typed, LocalsOK, Ops, PlainOps, WriteOps
  <2>2. dir' \in Directories
    <3>1. \A s : [dir EXCEPT ![s] = Created(op.name)] \in Directories
      BY <2>1, DirectoryUpdate DEF Typed, TypeOK
    <3>2. QED
      BY <1>3, <3>1 DEF CreateEntry, Typed, TypeOK
  <2>3. QED
    BY <1>1, <1>3, <2>2 DEF CreateEntry
<1>4. QED
  BY <1>2, <1>3 DEF Creating

LEMMA WritingTyped == Typed /\ Writing => Typed'
<1> SUFFICES ASSUME Typed, Writing PROVE Typed'
  OBVIOUS
<1> USE DEF disk, memory, walk, writing
<1>1. CASE WFind
  <2>1. CASE pc' = "w_loop"
    BY <1>1, <2>1, ConstantsAssumption
    DEF WFind, Return, Typed, TypeOK, LocalsOK, Handlers, Slots
  <2>2. CASE Return(FALSE)
    BY <1>1, <2>2, ReturnTyped DEF WFind, Typed, TypeOK
  <2>3. QED
    BY <1>1, <2>1, <2>2 DEF WFind
<1>2. CASE WFull
  BY <1>2 DEF WFull, Typed, TypeOK, LocalsOK, Handlers
<1>3. CASE WBlock
  <2>1. PICK b \in Blocks, w \in WriteOutcomes :
          /\ bitmap' = Allocated(b)
          /\ first' = IF first = 0 THEN b ELSE first
          /\ blk' = IF w = "done"
                    THEN [blk EXCEPT ![b] = Fresh(op.data, done + 1)]
                    ELSE blk
          /\ IF ~Reported(w)
             THEN /\ pc' = "delete"
                  /\ after' = "fail"
                  /\ UNCHANGED <<cur, prev, done>>
             ELSE /\ done' = done + 1
                  /\ IF prev = 0
                     THEN prev' = b /\ UNCHANGED <<cur, pc>>
                     ELSE cur' = b /\ pc' = "w_link" /\ UNCHANGED prev
                  /\ UNCHANGED after
    BY <1>3 DEF WBlock
  <2>2. op \in WriteOps /\ done + 1 \in 1..MaxChunks
    BY <1>3, ConstantsAssumption
    DEF WBlock, Typed, TypeOK, LocalsOK, WriteOps
  <2>3. Fresh(op.data, done + 1) \in BlockSectors
    BY <2>2 DEF Fresh, BlockSectors, Payloads, Chunks, WriteOps
  <2>4. blk' \in [Blocks -> BlockSectors]
    BY <2>1, <2>3 DEF Typed, TypeOK
  <2>5. QED
    BY <1>3, <2>1, <2>2, <2>4, BlocksAreUINT16
    DEF WBlock, Typed, TypeOK, LocalsOK, Handlers, Allocated
<1>4. CASE WLink
  <2>1. PICK w \in WriteOutcomes, ok \in ReadOutcomes :
        \E p \in IF ok THEN {blk[prev].data} ELSE Payloads :
          blk' = IF w = "done" THEN [blk EXCEPT ![prev] = Linked(cur, p)]
                 ELSE blk
    BY <1>4 DEF WLink
  <2>2. prev \in Blocks /\ cur \in Blocks /\ blk[prev].data \in Payloads
    BY <1>4 DEF WLink, Typed, TypeOK, LocalsOK, BlockSectors
  <2>3. \A p \in Payloads : Linked(cur, p) \in BlockSectors
    BY <2>2 DEF Linked, BlockSectors
  <2>4. blk' \in [Blocks -> BlockSectors]
    BY <2>1, <2>2, <2>3 DEF Typed, TypeOK
  <2>5. QED
    BY <1>4, <2>2, <2>4, BlocksAreUINT16
    DEF WLink, Typed, TypeOK, LocalsOK, Handlers
<1>5. CASE WDir
  <2>1. PICK w \in WriteOutcomes, ok \in ReadOutcomes :
        \E d \in IF ok THEN {dir} ELSE Garbage \cup {dir} :
          dir' = IF w = "done"
                 THEN [d EXCEPT ![slot] = Filled(d[slot])] ELSE dir
    BY <1>5 DEF WDir
  <2>2. slot \in Slots /\ op.n \in 0..MaxChunks /\ first \in Blocks \cup {0}
    BY <1>5 DEF WDir, Typed, TypeOK, LocalsOK, WriteOps
  <2>3. \A e \in Entries : Filled(e) \in Entries
    BY <2>2 DEF Filled, Entries
  <2>4. \A e \in RawEntries : Filled(e) \in RawEntries
    <3>1. op.n \in Nat /\ first \in UINT16
      BY <2>2, BlocksAreUINT16, ConstantsAssumption
    <3>2. QED
      BY <3>1 DEF Filled, RawEntries
  <2>5. ASSUME NEW d \in Directories
        PROVE  [d EXCEPT ![slot] = Filled(d[slot])] \in Directories
    BY <2>2, <2>3, <2>4 DEF Directories
  <2>6. "read" \in Faults => Garbage \subseteq Directories
    BY ConstantsAssumption DEF Directories
  <2>7. dir' \in Directories
    BY <2>1, <2>5, <2>6 DEF ReadOutcomes, Typed, TypeOK
  <2>8. QED
    BY <1>5, <2>7, ReturnTyped DEF WDir, Typed, TypeOK
<1>6. QED
  BY <1>1, <1>2, <1>3, <1>4, <1>5 DEF Writing

LEMMA DeletingTyped == Typed /\ Deleting => Typed'
<1> SUFFICES ASSUME Typed, Deleting PROVE Typed'
  OBVIOUS
<1> USE DEF disk, memory, walk, writing
<1>1. ASSUME NEW ok \in BOOLEAN, DelReturns(ok),
             pc \in {"delete", "del_chain"},
             dir' \in Directories, UNCHANGED <<super, blk, memory, got>>
      PROVE  Typed'
  <2>1. CASE after = "create"
    BY <1>1, <2>1, ConstantsAssumption, BlocksAreUINT16
    DEF DelReturns, Typed, TypeOK, LocalsOK, Handlers
  <2>2. CASE after # "create"
    BY <1>1, <2>2, ReturnTyped DEF DelReturns, Typed, TypeOK
  <2>3. QED
    BY <2>1, <2>2
<1>2. CASE DelFind
  <2>1. ASSUME NEW s \in Slots, slot' = s, cur' = dir[s].start,
               pc' = "del_chain", UNCHANGED <<op, writing, after, res>>
        PROVE  Typed'
    <3>1. slot' \in 0..PFS_MAX_FILES /\ cur' \in UINT16
      BY <2>1, ConstantsAssumption, DirectoryStarts DEF Typed, TypeOK, Slots
    <3>2. QED
      BY <1>2, <2>1, <3>1 DEF DelFind, Typed, TypeOK, LocalsOK, Handlers
  <2>2. CASE DelReturns(FALSE)
    <3>1. /\ pc = "delete" /\ dir' \in Directories
          /\ UNCHANGED <<super, blk, memory, got>>
      BY <1>2 DEF DelFind, Typed, TypeOK
    <3>2. QED
      BY <1>1, <2>2, <3>1
  <2>3. QED
    BY <1>2, <2>1, <2>2 DEF DelFind
<1>3. CASE DelChain
  BY <1>3, BlocksAreUINT16
  DEF DelChain, Freed, Typed, TypeOK, LocalsOK, Handlers, BlockSectors
<1>4. CASE DelEntry
  <2>1. dir' \in Directories
    <3>1. [dir EXCEPT ![slot] = Cleared(dir[slot])] \in Directories
      BY EntriesTyped, DirectoryUpdate DEF Cleared, Typed, TypeOK
    <3>2. QED
      BY <1>4, <3>1 DEF DelEntry, Typed, TypeOK
  <2>2. QED
    BY <1>1, <1>4, <2>1 DEF DelEntry, Reported
<1>5. QED
  BY <1>2, <1>3, <1>4 DEF Deleting

LEMMA ReadingTyped == Typed /\ Reading => Typed'
<1> SUFFICES ASSUME Typed, Reading PROVE Typed'
  OBVIOUS
<1> USE DEF disk, memory, walk, writing
<1>1. CASE CatFind
  <2>1. ASSUME NEW s \in Slots, slot' = s, cur' = dir[s].start,
               pc' = "cat_chain", UNCHANGED <<op, writing, after, res>>
        PROVE  Typed'
    <3>1. slot' \in 0..PFS_MAX_FILES /\ cur' \in UINT16
      BY <2>1, ConstantsAssumption, DirectoryStarts DEF Typed, TypeOK, Slots
    <3>2. QED
      BY <1>1, <2>1, <3>1 DEF CatFind, Typed, TypeOK, LocalsOK, Handlers
  <2>2. CASE Return(FALSE)
    BY <1>1, <2>2, ReturnTyped DEF CatFind, Typed, TypeOK
  <2>3. QED
    BY <1>1, <2>1, <2>2 DEF CatFind
<1>2. CASE CatChain
  <2>1. /\ blk[cur].next \in Blocks \cup {0, EOC}
        /\ blk[cur].data \in Payloads
    BY <1>2 DEF CatChain, CatMore, Typed, TypeOK, BlockSectors
  <2>2. got \in Seq(Payloads)
    BY DEF Typed, TypeOK
  <2>3. Append(got, blk[cur].data) \in Seq(Payloads)
    BY <2>1, <2>2
  <2>4. cur' \in UINT16 /\ got' \in Seq(Payloads)
    BY <1>2, <2>1, <2>2, <2>3, BlocksAreUINT16 DEF CatChain
  <2>5. QED
    BY <1>2, <2>4 DEF CatChain, Typed, TypeOK, LocalsOK, Handlers
<1>3. CASE CatEnd
  BY <1>3, ReturnTyped DEF CatEnd, Typed, TypeOK
<1>4. QED
  BY <1>1, <1>2, <1>3 DEF Reading

LEMMA NextTyped == Typed /\ [Next]_vars => Typed'
<1> SUFFICES ASSUME Typed, [Next]_vars PROVE Typed'
  OBVIOUS
<1> USE DEF disk, memory, walk, writing
<1>1. CASE Boot
  BY <1>1 DEF Boot, Typed, TypeOK, LocalsOK, Handlers
<1>2. CASE Command
  <2>1. <<>> \in Seq(Payloads)
    OBVIOUS
  <2>2. QED
    BY <1>2, <2>1 DEF Command, Typed, TypeOK, LocalsOK, Handlers
<1>3. CASE Crash
  <2>1. <<>> \in Seq(Payloads)
    OBVIOUS
  <2>2. slot' \in 0..PFS_MAX_FILES /\ done' \in 0..MaxChunks
    BY <1>3, ConstantsAssumption DEF Crash, Stop, NoLocals
  <2>3. TypeOK'
    BY <1>3, <2>1, <2>2, BlocksAreUINT16
    DEF Crash, Stop, NoLocals, Typed, TypeOK
  <2>4. LocalsOK'
    BY <1>3 DEF Crash, Stop, LocalsOK
  <2>5. QED
    BY <2>3, <2>4 DEF Typed
<1>4. CASE UNCHANGED vars
  BY <1>4 DEF vars, Typed, TypeOK, LocalsOK
<1>5. QED
  BY <1>1, <1>2, <1>3, <1>4, MountingTyped, CreatingTyped, WritingTyped,
     DeletingTyped, ReadingTyped
  DEF Next, Handler

(* Every value the store computes stays in range, on every disk and under  *)
(* every failure, whatever bytes a failed read of the directory leaves.    *)
THEOREM TypeCorrect == Spec => []TypeOK
<1>1. Typed => TypeOK
  BY DEF Typed
<1>2. QED
  BY <1>1, InitTyped, NextTyped, PTL DEF Spec

(***************************************************************************)
(* While pfs_write_file runs, nothing is freed and the lowest free block   *)
(* is always taken: all blocks up to the one in hand are allocated, so the *)
(* next one is higher.                                                     *)
(***************************************************************************)
FilledUpTo(x) == \A c \in Blocks : c <= x => c \in bitmap

WritePosition ==
  /\ after # "fail" /\ pc \notin {"w_loop", "w_link"}
       => prev = 0 /\ first = 0
  /\ after = "fail" => pc \in {"delete", "del_chain"}
  /\ pc = "w_loop" /\ prev # 0 => FilledUpTo(prev)
  /\ pc = "w_link" => prev < cur /\ FilledUpTo(cur)

Ascending == ChainsAscend /\ WritePosition

LEMMA InitAscending == Init => Ascending
  BY BlockNumbers
  DEF Init, ZeroBlock, Ascending, ChainsAscend, WritePosition

LEMMA ReturnAscending ==
  ASSUME NEW ok, Ascending, Return(ok), blk' = blk
  PROVE  Ascending'
  BY DEF Return, NoLocals, Ascending, ChainsAscend, WritePosition

(* Steps of handlers that write no data block.                             *)
LEMMA QuietAscending ==
  ASSUME Ascending, blk' = blk, UNCHANGED <<first, prev, after>>,
         pc \notin {"w_loop", "w_link"}, pc' \notin {"w_loop", "w_link"},
         after = "fail" => pc' \in {"delete", "del_chain"}
  PROVE  Ascending'
  BY DEF Ascending, ChainsAscend, WritePosition

LEMMA MountingAscending == Ascending /\ Mounting => Ascending'
  BY QuietAscending
  DEF Mounting, MountRead, FormatSuper, FormatDir, RebuildRead, RebuildSlot,
      RebuildChain, RebuildEnd, Mounted, disk, memory, writing, Ascending,
      WritePosition

LEMMA CreatingAscending == Ascending /\ Creating => Ascending'
<1> SUFFICES ASSUME Ascending, Creating PROVE Ascending'
  OBVIOUS
<1>1. PICK ok \in BOOLEAN :
        pc = "create" /\ blk' = blk /\ CreateReturns(ok)
  BY DEF Creating, CreateRefused, CreateEntry, Reported, disk
<1>2. CASE op.kind = "pfwrite" /\ ok
  BY <1>1, <1>2, QuietAscending
  DEF CreateReturns, writing, Ascending, WritePosition
<1>3. CASE ~(op.kind = "pfwrite" /\ ok)
  BY <1>1, <1>3, ReturnAscending DEF CreateReturns
<1>4. QED
  BY <1>2, <1>3

LEMMA DeletingAscending == Ascending /\ Deleting => Ascending'
<1> SUFFICES ASSUME Ascending, Deleting PROVE Ascending'
  OBVIOUS
<1>1. ASSUME NEW ok \in BOOLEAN, DelReturns(ok), blk' = blk,
             pc \in {"delete", "del_chain"}
      PROVE  Ascending'
  <2>1. CASE after = "create"
    BY <1>1, <2>1
    DEF DelReturns, writing, Ascending, ChainsAscend, WritePosition
  <2>2. CASE after # "create"
    BY <1>1, <2>2, ReturnAscending DEF DelReturns
  <2>3. QED
    BY <2>1, <2>2
<1>2. CASE DelFind
  BY <1>1, <1>2, QuietAscending DEF DelFind, disk, writing
<1>3. CASE DelChain
  BY <1>3, QuietAscending DEF DelChain, disk, writing
<1>4. CASE DelEntry
  BY <1>1, <1>4 DEF DelEntry, Reported
<1>5. QED
  BY <1>2, <1>3, <1>4 DEF Deleting

LEMMA ReadingAscending == Ascending /\ Reading => Ascending'
<1> SUFFICES ASSUME Ascending, Reading PROVE Ascending'
  OBVIOUS
<1>1. CASE CatFind
  BY <1>1, QuietAscending, ReturnAscending
  DEF CatFind, disk, writing, Ascending, WritePosition
<1>2. CASE CatChain
  BY <1>2, QuietAscending
  DEF CatChain, disk, writing, Ascending, WritePosition
<1>3. CASE CatEnd
  BY <1>3, ReturnAscending DEF CatEnd, disk
<1>4. QED
  BY <1>1, <1>2, <1>3 DEF Reading

LEMMA WritingAscending == Typed /\ Ascending /\ Writing => Ascending'
<1> SUFFICES ASSUME Typed, Ascending, Writing PROVE Ascending'
  OBVIOUS
<1>1. CASE WFind
  <2>1. CASE pc' = "w_loop" /\ UNCHANGED <<writing, after>>
    BY <1>1, <2>1
    DEF WFind, disk, writing, Ascending, ChainsAscend, WritePosition
  <2>2. CASE Return(FALSE)
    BY <1>1, <2>2, ReturnAscending DEF WFind, disk
  <2>3. QED
    BY <1>1, <2>1, <2>2 DEF WFind
<1>2. CASE WFull
  BY <1>2 DEF WFull, disk, Ascending, ChainsAscend, WritePosition
<1>3. CASE WBlock
  <2>1. PICK b \in Blocks, w \in WriteOutcomes :
          /\ FirstFree(b)
          /\ bitmap' = Allocated(b)
          /\ blk' = IF w = "done"
                    THEN [blk EXCEPT ![b] = Fresh(op.data, done + 1)]
                    ELSE blk
          /\ IF ~Reported(w)
             THEN pc' = "delete" /\ after' = "fail"
             ELSE /\ IF prev = 0
                     THEN prev' = b /\ UNCHANGED <<cur, pc>>
                     ELSE cur' = b /\ pc' = "w_link" /\ UNCHANGED prev
                  /\ UNCHANGED after
    BY <1>3 DEF WBlock
  <2>2. ChainsAscend'
    BY <2>1, BlockNumbers DEF Fresh, Ascending, ChainsAscend, Typed, TypeOK
  <2>3. FilledUpTo(b)'
    BY <2>1, BlockNumbers DEF FirstFree, Allocated, FilledUpTo
  <2>4. prev # 0 => prev < b
    BY <1>3, <2>1, BlockNumbers
    DEF WBlock, FirstFree, FilledUpTo, Ascending, WritePosition, Typed, TypeOK
  <2>5. pc = "w_loop" /\ after # "fail"
    BY <1>3 DEF WBlock, Ascending, WritePosition
  <2>6. WritePosition'
    BY <2>1, <2>3, <2>4, <2>5, BlockNumbers DEF WritePosition, FilledUpTo
  <2>7. QED
    BY <2>2, <2>6 DEF Ascending
<1>4. CASE WLink
  <2>1. PICK w \in WriteOutcomes, ok \in ReadOutcomes :
        \E p \in IF ok THEN {blk[prev].data} ELSE Payloads :
          blk' = IF w = "done" THEN [blk EXCEPT ![prev] = Linked(cur, p)]
                 ELSE blk
    BY <1>4 DEF WLink
  <2>2. prev \in Blocks /\ cur \in Blocks /\ prev < cur
    BY <1>4 DEF WLink, Typed, LocalsOK, Ascending, WritePosition
  <2>3. ChainsAscend'
    BY <2>1, <2>2 DEF Linked, Ascending, ChainsAscend, Typed, TypeOK
  <2>4. WritePosition'
    BY <1>4 DEF WLink, memory, Ascending, WritePosition, FilledUpTo
  <2>5. QED
    BY <2>3, <2>4 DEF Ascending
<1>5. CASE WDir
  BY <1>5, ReturnAscending DEF WDir
<1>6. QED
  BY <1>1, <1>2, <1>3, <1>4, <1>5 DEF Writing

LEMMA NextAscending == Typed /\ Ascending /\ [Next]_vars => Ascending'
<1> SUFFICES ASSUME Typed, Ascending, [Next]_vars PROVE Ascending'
  OBVIOUS
<1>1. CASE Boot
  BY <1>1, QuietAscending
  DEF Boot, disk, writing, Ascending, WritePosition
<1>2. CASE Command
  BY <1>2 DEF Command, disk, writing, Ascending, ChainsAscend, WritePosition
<1>3. CASE Crash
  BY <1>3 DEF Crash, Stop, NoLocals, disk, Ascending, ChainsAscend, WritePosition
<1>4. CASE UNCHANGED vars
  BY <1>4
  DEF vars, disk, memory, walk, writing, Ascending, ChainsAscend,
      WritePosition, FilledUpTo
<1>5. QED
  BY <1>1, <1>2, <1>3, <1>4, MountingAscending, CreatingAscending,
     WritingAscending, DeletingAscending, ReadingAscending
  DEF Next, Handler

(* Block chains never turn back, on any disk and whatever calls fail: each *)
(* walk over a chain visits a higher block at each step, so none runs on   *)
(* for ever.                                                               *)
THEOREM ChainsNeverTurnBack == Spec => []ChainsAscend
<1>1. Ascending => ChainsAscend
  BY DEF Ascending
<1>2. QED
  BY <1>1, InitTyped, NextTyped, InitAscending, NextAscending, PTL DEF Spec

(***************************************************************************)
(* Part 2.  Names, when reads succeed and every name fits an entry.        *)
(***************************************************************************)
LEMMA NoFaults ==
  ASSUME Faults = {}
  PROVE  /\ ReadOutcomes = {TRUE} /\ WriteOutcomes = {"done"}
         /\ Reported("done")
  BY DEF ReadOutcomes, WriteOutcomes, Reported

LEMMA ReadsSucceed ==
  ASSUME "read" \notin Faults PROVE ReadOutcomes = {TRUE}
  BY DEF ReadOutcomes

(* Steps that at most take names away.                                     *)
LEMMA NamesTakenAway ==
  ASSUME UniqueNames, \A s \in Slots : dir'[s].name \in {dir[s].name, NoName}
  PROVE  UniqueNames'
  BY DEF UniqueNames

LEMMA CreateKeepsNamesUnique ==
  ASSUME "read" \notin Faults, LongNames = {}, Typed, UniqueNames, CreateEntry
  PROVE  UniqueNames'
<1>1. FALSE \notin ReadOutcomes
  BY ReadsSucceed
<1>2. PICK s \in Slots, w \in WriteOutcomes :
        dir' = IF w = "done" THEN [dir EXCEPT ![s] = Created(op.name)] ELSE dir
  BY DEF CreateEntry
<1>3. \A t \in Slots : dir[t].name # NoName => dir[t].name # op.name
  BY <1>1 DEF CreateEntry, Exists, NotFound, Matches
<1>4. Created(op.name).name = op.name
  BY DEF Created, Stored
<1>5. QED
  BY <1>2, <1>3, <1>4 DEF UniqueNames, Typed, TypeOK

LEMMA FillKeepsNamesUnique ==
  ASSUME "read" \notin Faults, Typed, UniqueNames, WDir
  PROVE  UniqueNames'
<1>1. PICK w \in WriteOutcomes, ok \in ReadOutcomes :
      \E d \in IF ok THEN {dir} ELSE Garbage \cup {dir} :
        dir' = IF w = "done" THEN [d EXCEPT ![slot] = Filled(d[slot])] ELSE dir
  BY DEF WDir
<1>2. ok = TRUE
  BY ReadsSucceed
<1>3. dir \in [Slots -> Entries] /\ slot \in Slots
  BY GoodEntries DEF WDir, Typed, TypeOK, LocalsOK
<1>4. Filled(dir[slot]).name = dir[slot].name
  BY <1>3 DEF Filled, Entries
<1>5. QED
  BY <1>1, <1>2, <1>3, <1>4, NamesTakenAway

LEMMA NextUnique ==
  ASSUME "read" \notin Faults, LongNames = {}
  PROVE  Typed /\ UniqueNames /\ [Next]_vars => UniqueNames'
<1> SUFFICES ASSUME Typed, UniqueNames, [Next]_vars PROVE UniqueNames'
  OBVIOUS
<1>1. CASE FormatDir
  <2>1. \A s \in Slots : dir'[s].name \in {dir[s].name, NoName}
    BY <1>1 DEF FormatDir, NoEntry
  <2>2. QED
    BY <2>1, NamesTakenAway
<1>2. CASE CreateEntry
  BY <1>2, CreateKeepsNamesUnique
<1>3. CASE WDir
  BY <1>3, FillKeepsNamesUnique
<1>4. CASE DelEntry
  <2>1. \A s \in Slots : dir'[s].name \in {dir[s].name, NoName}
    BY <1>4 DEF DelEntry, Cleared, NoEntry, Typed, TypeOK
  <2>2. QED
    BY <2>1, NamesTakenAway
<1>5. CASE dir' = dir
  BY <1>5 DEF UniqueNames
<1>6. QED
  BY <1>1, <1>2, <1>3, <1>4, <1>5
  DEF Next, Handler, Mounting, Creating, Writing, Deleting, Reading, Boot,
      Command, Crash, Stop, MountRead, FormatSuper, RebuildRead, RebuildSlot,
      RebuildChain, RebuildEnd, CreateRefused, WFind, WFull, WBlock, WLink,
      DelFind, DelChain, CatFind, CatChain, CatEnd, vars, disk

LEMMA InitUnique == Init => UniqueNames
  BY DEF Init, UniqueNames, NoEntry

(* Two entries never have one name, whatever writes fail, as long as reads *)
(* succeed and names are at most 23 characters long; both conditions are   *)
(* needed (see the README).                                                *)
THEOREM NamesStayUnique ==
  ASSUME "read" \notin Faults, LongNames = {} PROVE Spec => []UniqueNames
  BY InitUnique, NextUnique, InitTyped, NextTyped, PTL DEF Spec

(***************************************************************************)
(* Part 3.  Who owns a block, when ATA calls succeed and the machine may   *)
(* stop between any two of them.                                           *)
(*                                                                         *)
(* The argument: some set of blocks R always owns the disk, meaning that   *)
(* every chain that starts at a directory entry stays inside R and that no *)
(* block is pointed to twice from the directory and from R.  While a       *)
(* command runs or the shell waits, the bitmap is such a set.  A restart   *)
(* forgets the bitmap but not R, and the rebuild finds a subset of R that  *)
(* is such a set again.                                                    *)
(***************************************************************************)

(***************************************************************************)
(* Directories D and block arrays B, related to a set S of blocks.         *)
(***************************************************************************)
RootsIn(D, S) ==
  \A s \in Slots : D[s].start \in Blocks => D[s].start \in S
Closed(B, S) ==
  \A b \in S : B[b].next \in Blocks => B[b].next \in S
RootsDistinct(D) ==
  \A s, t \in Slots :
    D[s].start \in Blocks /\ D[s].start = D[t].start => s = t
LinksDistinct(B, S) ==
  \A b, c \in S : B[b].next \in Blocks /\ B[b].next = B[c].next => b = c
RootsUnlinked(D, B, S) ==
  \A s \in Slots, b \in S : D[s].start \in Blocks => D[s].start # B[b].next

Owned(D, B, S) ==
  /\ RootsIn(D, S) /\ Closed(B, S)
  /\ RootsDistinct(D) /\ LinksDistinct(B, S) /\ RootsUnlinked(D, B, S)

(* Nothing points to x.                                                    *)
Loose(D, B, S, x) ==
  /\ \A s \in Slots : D[s].start # x
  /\ \A b \in S : B[b].next # x

(* The chain of slot s is being freed: c is the next block to free.        *)
Detached(D, B, S, s, c) ==
  /\ Closed(B, S)
  /\ \A t \in Slots \ {s} :
       D[t].start \in Blocks => D[t].start \in S /\ D[t].start # c
  /\ c \in Blocks => c \in S /\ \A b \in S : B[b].next # c

(* The chains of the slots below e are marked in S, and those of slot e as *)
(* far as the block before c.                                              *)
Swept(D, S, e) ==
  \A t \in Slots : t < e /\ D[t].start \in Blocks => D[t].start \in S
Sweeping(D, B, S, e, c) ==
  /\ Swept(D, S, e)
  /\ D[e].start \in Blocks => D[e].start \in S \cup {c}
  /\ \A b \in S : B[b].next \in Blocks => B[b].next \in S \cup {c}

LEMMA OwnedShrinks ==
  ASSUME NEW D, NEW B, NEW R, NEW S, Owned(D, B, R), S \subseteq R,
         RootsIn(D, S), Closed(B, S)
  PROVE  Owned(D, B, S)
  BY DEF Owned, LinksDistinct, RootsUnlinked

LEMMA OwnedDropsRoot ==
  ASSUME NEW D, NEW B, NEW S, NEW E, Owned(D, B, S),
         \A s \in Slots : E[s].start \in {D[s].start, 0}
  PROVE  Owned(E, B, S)
  BY BlockNumbers DEF Owned, RootsIn, RootsDistinct, RootsUnlinked

LEMMA OwnedTakesBlock ==
  ASSUME NEW D, NEW B \in [Blocks -> BlockSectors], NEW S \in SUBSET Blocks,
         NEW b \in Blocks \ S, NEW x, x.next \notin Blocks, Owned(D, B, S)
  PROVE  LET C == [B EXCEPT ![b] = x]
             T == S \cup {b}
         IN  /\ Owned(D, C, T)
             /\ Loose(D, C, T, b)
             /\ \A a \in S : Loose(D, B, S, a) => Loose(D, C, T, a)
<1> DEFINE C == [B EXCEPT ![b] = x]
           T == S \cup {b}
<1>1. C[b].next \notin Blocks /\ \A c \in S : c # b /\ C[c] = B[c]
  OBVIOUS
<1> HIDE DEF C
<1>2. Owned(D, C, T)
  BY <1>1, BlockNumbers
  DEF Owned, RootsIn, Closed, RootsDistinct, LinksDistinct, RootsUnlinked
<1>3. Loose(D, C, T, b)
  BY <1>1, BlockNumbers DEF Owned, RootsIn, Closed, Loose
<1>4. \A a \in S : Loose(D, B, S, a) => Loose(D, C, T, a)
  BY <1>1, BlockNumbers DEF Loose
<1>5. QED
  BY <1>2, <1>3, <1>4 DEF C

LEMMA OwnedLinks ==
  ASSUME NEW D, NEW B \in [Blocks -> BlockSectors], NEW S \in SUBSET Blocks,
         NEW p \in S, NEW c \in S, NEW x, x.next = c,
         Owned(D, B, S), Loose(D, B, S, c)
  PROVE  LET C == [B EXCEPT ![p] = x]
         IN  /\ Owned(D, C, S)
             /\ \A a \in S : a # c /\ Loose(D, B, S, a) => Loose(D, C, S, a)
<1> DEFINE C == [B EXCEPT ![p] = x]
<1>1. C[p].next = c /\ \A b \in S : b # p => C[b] = B[b]
  OBVIOUS
<1> HIDE DEF C
<1>2. Owned(D, C, S)
  BY <1>1
  DEF Owned, RootsIn, Closed, RootsDistinct, LinksDistinct, RootsUnlinked,
      Loose
<1>3. \A a \in S : a # c /\ Loose(D, B, S, a) => Loose(D, C, S, a)
  BY <1>1 DEF Loose
<1>4. QED
  BY <1>2, <1>3 DEF C

LEMMA OwnedAddsRoot ==
  ASSUME NEW D, NEW B, NEW S \in SUBSET Blocks, NEW E, NEW s \in Slots,
         \A t \in Slots \ {s} : E[t] = D[t],
         E[s].start = 0 \/ (E[s].start \in S /\ Loose(D, B, S, E[s].start)),
         Owned(D, B, S)
  PROVE  Owned(E, B, S)
  BY BlockNumbers
  DEF Owned, RootsIn, RootsDistinct, RootsUnlinked, Loose

LEMMA DetachStarts ==
  ASSUME NEW D, NEW B, NEW S, NEW s \in Slots, Owned(D, B, S)
  PROVE  Detached(D, B, S, s, D[s].start)
  BY DEF Owned, RootsIn, RootsDistinct, RootsUnlinked, Detached

LEMMA DetachGoesOn ==
  ASSUME NEW D, NEW B, NEW R, NEW S, NEW s \in Slots, NEW c \in Blocks,
         Owned(D, B, R), S \subseteq R, Detached(D, B, S, s, c)
  PROVE  Detached(D, B, S \ {c}, s, B[c].next)
  BY DEF Owned, LinksDistinct, RootsUnlinked, Closed, Detached

LEMMA DetachEnds ==
  ASSUME NEW D, NEW B, NEW R, NEW S, NEW s \in Slots, NEW c, c \notin Blocks,
         Owned(D, B, R), S \subseteq R, Detached(D, B, S, s, c),
         NEW E, \A t \in Slots \ {s} : E[t] = D[t], E[s].start = 0
  PROVE  Owned(E, B, S)
  BY BlockNumbers
  DEF Owned, RootsIn, RootsDistinct, LinksDistinct, RootsUnlinked, Detached

(***************************************************************************)
(* The invariant.                                                          *)
(***************************************************************************)
Serving == {"idle", "create", "w_find", "w_loop", "w_link", "delete", "cat",
            "cat_chain"}
Filling == {"w_loop", "w_link"}

DiskOwned(R) ==
  /\ Owned(dir, blk, R)
  /\ bitmap \subseteq R
  /\ pc = "rebuild_chain" => cur \in R

Unattached(x) == x \in bitmap /\ Loose(dir, blk, bitmap, x)

Ownership ==
  /\ \E R \in SUBSET Blocks : DiskOwned(R)
  /\ pc \in Serving => Owned(dir, blk, bitmap)
  /\ pc \in {"off", "mount", "rebuild"} => slot = 0
  /\ pc = "rebuild_slot" => Swept(dir, bitmap, slot) /\ Closed(blk, bitmap)
  /\ pc = "rebuild_chain" => Sweeping(dir, blk, bitmap, slot, cur)
  /\ pc = "del_chain" => Detached(dir, blk, bitmap, slot, cur)
  /\ pc \in Filling /\ first # 0 => Unattached(first)
  /\ pc \in Filling /\ prev # 0 => prev \in bitmap /\ first # 0
  /\ pc = "w_link" => Unattached(cur) /\ cur # first

Inv == Typed /\ Ascending /\ Ownership

LEMMA InitOwned == Init => Ownership
<1> SUFFICES ASSUME Init PROVE Ownership
  OBVIOUS
<1>1. Owned(dir, blk, {})
  BY BlockNumbers
  DEF Init, Owned, RootsIn, Closed, RootsDistinct, LinksDistinct,
      RootsUnlinked, NoEntry
<1>2. DiskOwned({})
  BY <1>1 DEF Init, DiskOwned
<1>3. QED
  BY <1>2 DEF Init, Ownership, Serving, Filling

(* Enough for a step that ends where the bitmap is trusted and no block    *)
(* chain is half built.                                                    *)
LEMMA OwnedAgain ==
  ASSUME pc' \in Serving \ Filling, bitmap' \in SUBSET Blocks,
         Owned(dir', blk', bitmap')
  PROVE  Ownership'
<1>1. DiskOwned(bitmap)'
  BY DEF DiskOwned, Serving
<1>2. QED
  BY <1>1 DEF Ownership, Serving, Filling

LEMMA MountingOwned ==
  ASSUME Faults = {}, Inv, Mounting PROVE Ownership'
<1> USE DEF disk, memory, walk, writing
<1>0. PICK R \in SUBSET Blocks : DiskOwned(R)
  BY DEF Inv, Ownership
<1>1. CASE MountRead \/ FormatSuper
  <2>1. DiskOwned(R)'
    BY <1>0, <1>1, NoFaults DEF MountRead, FormatSuper, DiskOwned
  <2>2. /\ pc' \in {"rebuild", "format", "format_unread", "format_dir"}
        /\ pc' = "rebuild" => slot' = 0
    BY <1>1 DEF MountRead, FormatSuper, Inv, Ownership
  <2>3. QED
    BY <2>1, <2>2 DEF Ownership, Serving, Filling
<1>2. CASE FormatDir
  <2>1. Owned(dir', blk', {})
    BY <1>2, NoFaults, BlockNumbers
    DEF FormatDir, Owned, RootsIn, Closed, RootsDistinct, LinksDistinct,
        RootsUnlinked, NoEntry
  <2>2. QED
    BY <1>2, <2>1, OwnedAgain DEF FormatDir, Serving, Filling
<1>3. CASE RebuildRead
  <2>1. pc' = "rebuild_slot" /\ bitmap' = {} /\ UNCHANGED <<dir, blk, slot>>
    BY <1>3, NoFaults DEF RebuildRead
  <2>2. DiskOwned(R)'
    BY <1>0, <2>1 DEF DiskOwned
  <2>3. Swept(dir, bitmap, slot)' /\ Closed(blk, bitmap)'
    BY <1>3, <2>1, BlockNumbers DEF RebuildRead, Inv, Ownership, Swept, Closed
  <2>4. QED
    BY <2>1, <2>2, <2>3 DEF Ownership, Serving, Filling
<1>4. CASE RebuildSlot
  <2>0. /\ Swept(dir, bitmap, slot) /\ Closed(blk, bitmap)
        /\ slot \in Slots /\ UNCHANGED <<dir, blk, bitmap>>
    BY <1>4 DEF RebuildSlot, Inv, Ownership
  <2>1. CASE HasChain(dir[slot])
    <3>1. pc' = "rebuild_chain" /\ cur' = dir[slot].start /\ slot' = slot
      BY <1>4, <2>1 DEF RebuildSlot
    <3>2. DiskOwned(R)'
      BY <1>0, <2>0, <2>1, <3>1 DEF DiskOwned, Owned, RootsIn, HasChain
    <3>3. Sweeping(dir, blk, bitmap, slot, cur)'
      BY <2>0, <3>1 DEF Sweeping, Swept, Closed
    <3>4. QED
      BY <3>1, <3>2, <3>3 DEF Ownership, Serving, Filling
  <2>2. CASE ~HasChain(dir[slot])
    <3>1. pc' = "rebuild_slot" /\ slot' = slot + 1
      BY <1>4, <2>2 DEF RebuildSlot
    <3>2. DiskOwned(R)'
      BY <1>0, <2>0, <3>1 DEF DiskOwned
    <3>3. \A t \in Slots : t < slot + 1 => t < slot \/ t = slot
      BY <2>0, BlockNumbers
    <3>4. Swept(dir, bitmap, slot)' /\ Closed(blk, bitmap)'
      BY <2>0, <2>2, <3>1, <3>3 DEF Swept, Closed, HasChain
    <3>5. QED
      BY <3>1, <3>2, <3>4 DEF Ownership, Serving, Filling
  <2>3. QED
    BY <2>1, <2>2
<1>5. CASE RebuildChain
  <2>0. /\ Sweeping(dir, blk, bitmap, slot, cur)
        /\ slot \in Slots /\ cur \in Blocks /\ cur \in R
        /\ bitmap' = bitmap \cup {cur} /\ UNCHANGED <<dir, blk>>
    BY <1>0, <1>5
    DEF RebuildChain, Marked, Inv, Ownership, DiskOwned, Typed, LocalsOK
  <2>1. CASE blk[cur].next \in Blocks
    <3>1. pc' = "rebuild_chain" /\ cur' = blk[cur].next /\ slot' = slot
      <4>1. PICK ok \in ReadOutcomes :
              IF ok /\ blk[cur].next \in Blocks
              THEN cur' = blk[cur].next /\ UNCHANGED <<pc, slot>>
              ELSE TRUE
        BY <1>5 DEF RebuildChain
      <4>2. ok = TRUE
        BY NoFaults
      <4>3. QED
        BY <1>5, <2>1, <4>1, <4>2 DEF RebuildChain
    <3>2. DiskOwned(R)'
      BY <1>0, <2>0, <2>1, <3>1 DEF DiskOwned, Owned, Closed
    <3>3. Sweeping(dir, blk, bitmap, slot, cur)'
      BY <2>0, <3>1 DEF Sweeping, Swept
    <3>4. QED
      BY <3>1, <3>2, <3>3 DEF Ownership, Serving, Filling
  <2>2. CASE blk[cur].next \notin Blocks
    <3>1. pc' = "rebuild_slot" /\ slot' = slot + 1
      BY <1>5, <2>2 DEF RebuildChain
    <3>2. DiskOwned(R)'
      BY <1>0, <2>0, <3>1 DEF DiskOwned
    <3>3. \A t \in Slots : t < slot + 1 => t < slot \/ t = slot
      BY <2>0, BlockNumbers
    <3>4. Swept(dir, bitmap, slot)' /\ Closed(blk, bitmap)'
      BY <2>0, <2>2, <3>1, <3>3 DEF Sweeping, Swept, Closed
    <3>5. QED
      BY <3>1, <3>2, <3>4 DEF Ownership, Serving, Filling
  <2>3. QED
    BY <2>1, <2>2
<1>6. CASE RebuildEnd
  <2>1. /\ pc = "rebuild_slot" /\ slot = PFS_MAX_FILES
        /\ UNCHANGED <<dir, blk, bitmap>> /\ pc' = "idle"
    BY <1>6 DEF RebuildEnd, Mounted
  <2>2. RootsIn(dir, bitmap) /\ Closed(blk, bitmap)
    BY <2>1, ConstantsAssumption
    DEF Inv, Ownership, Swept, RootsIn, Slots
  <2>3. Owned(dir, blk, bitmap)
    BY <1>0, <2>2, OwnedShrinks DEF DiskOwned
  <2>4. QED
    BY <2>1, <2>3, OwnedAgain DEF Inv, Typed, TypeOK, Serving, Filling
<1>7. QED
  BY <1>1, <1>2, <1>3, <1>4, <1>5, <1>6 DEF Mounting

LEMMA CreatingOwned ==
  ASSUME Faults = {}, Inv, Creating PROVE Ownership'
<1>1. PICK ok \in BOOLEAN :
        pc = "create" /\ bitmap' = bitmap /\ blk' = blk /\ CreateReturns(ok)
  BY DEF Creating, CreateRefused, CreateEntry, Reported, disk, memory
<1>2. \A t \in Slots : dir'[t].start \in {dir[t].start, 0}
  <2>1. CASE dir' = dir
    BY <2>1
  <2>2. CASE \E s \in Slots : dir' = [dir EXCEPT ![s] = Created(op.name)]
    <3>1. Created(op.name).start = 0
      BY DEF Created
    <3>2. QED
      BY <2>2, <3>1 DEF Inv, Typed, TypeOK
  <2>3. QED
    BY <2>1, <2>2 DEF Creating, CreateRefused, CreateEntry, disk
<1>3. Owned(dir, blk, bitmap) /\ bitmap \in SUBSET Blocks
  BY <1>1 DEF Inv, Ownership, Serving, Typed, TypeOK
<1>4. Owned(dir', blk', bitmap') /\ bitmap' \in SUBSET Blocks
  BY <1>1, <1>2, <1>3, OwnedDropsRoot
<1>5. pc' \in {"w_find", "idle"}
  BY <1>1 DEF CreateReturns, Return
<1>6. QED
  BY <1>4, <1>5, OwnedAgain DEF Serving, Filling

LEMMA WritingOwned ==
  ASSUME Faults = {}, Inv, Writing PROVE Ownership'
<1> USE DEF disk, memory, walk, writing
<1>0. Owned(dir, blk, bitmap) /\ bitmap \in SUBSET Blocks
  BY DEF Writing, WFind, WFull, WBlock, WLink, WDir, Inv, Ownership, Serving,
         Typed, TypeOK
<1>1. CASE WFind
  <2>1. UNCHANGED <<dir, blk, bitmap>>
    BY <1>1 DEF WFind
  <2>2. CASE pc' = "w_loop" /\ UNCHANGED writing
    <3>1. first' = 0 /\ prev' = 0
      BY <1>1, <2>2 DEF WFind, Inv, Ascending, WritePosition
    <3>2. DiskOwned(bitmap)'
      BY <1>0, <2>1, <2>2 DEF DiskOwned
    <3>3. QED
      BY <1>0, <2>1, <2>2, <3>1, <3>2 DEF Ownership, Serving, Filling
  <2>3. CASE Return(FALSE)
    BY <1>0, <2>1, <2>3, OwnedAgain DEF Return, Serving, Filling
  <2>4. QED
    BY <1>1, <2>2, <2>3 DEF WFind
<1>2. CASE WFull
  BY <1>0, <1>2, OwnedAgain DEF WFull, Serving, Filling
<1>3. CASE WBlock
  <2>1. PICK b \in Blocks :
          /\ FirstFree(b)
          /\ bitmap' = bitmap \cup {b}
          /\ first' = IF first = 0 THEN b ELSE first
          /\ blk' = [blk EXCEPT ![b] = Fresh(op.data, done + 1)]
          /\ dir' = dir
          /\ IF prev = 0
             THEN prev' = b /\ UNCHANGED <<cur, pc>>
             ELSE cur' = b /\ pc' = "w_link" /\ UNCHANGED prev
    <3>1. WriteOutcomes = {"done"} /\ Reported("done")
      BY NoFaults
    <3>2. QED
      BY <1>3, <3>1 DEF WBlock, Allocated
  <2>2. b \in Blocks \ bitmap /\ pc = "w_loop"
    BY <1>3, <2>1 DEF WBlock, FirstFree
  <2>3. /\ Owned(dir', blk', bitmap')
        /\ Loose(dir', blk', bitmap', b)
        /\ \A a \in bitmap :
             Loose(dir, blk, bitmap, a) => Loose(dir', blk', bitmap', a)
    BY <1>0, <2>1, <2>2, OwnedTakesBlock, BlockNumbers
    DEF Fresh, Inv, Typed, TypeOK
  <2>4. /\ first # 0 => first \in bitmap /\ Loose(dir, blk, bitmap, first)
        /\ prev # 0 => prev \in bitmap /\ first # 0
    BY <2>2 DEF Inv, Ownership, Unattached, Filling
  <2>5. DiskOwned(bitmap)'
    BY <2>1, <2>2, <2>3 DEF DiskOwned
  <2>6. Unattached(first)' /\ first' # 0
    BY <2>1, <2>3, <2>4, BlockNumbers DEF Unattached
  <2>7. CASE prev = 0
    BY <1>0, <2>1, <2>2, <2>3, <2>5, <2>6, <2>7
    DEF Ownership, Serving, Filling
  <2>8. CASE prev # 0
    <3>1. Unattached(cur)' /\ cur' # first'
      BY <2>1, <2>2, <2>3, <2>4, <2>8 DEF Unattached
    <3>2. pc' = "w_link" /\ prev' \in bitmap'
      BY <2>1, <2>4, <2>8
    <3>3. QED
      BY <1>0, <2>1, <2>3, <2>5, <2>6, <3>1, <3>2
      DEF Ownership, Serving, Filling
  <2>9. QED
    BY <2>7, <2>8
<1>4. CASE WLink
  <2>1. PICK p : blk' = [blk EXCEPT ![prev] = Linked(cur, p)]
    BY <1>4, NoFaults DEF WLink
  <2>2. /\ UNCHANGED <<dir, bitmap, first>> /\ prev' = cur
        /\ pc = "w_link" /\ pc' = "w_loop"
    BY <1>4 DEF WLink
  <2>3. /\ prev \in bitmap /\ first # 0 /\ cur # first
        /\ first \in bitmap /\ Loose(dir, blk, bitmap, first)
        /\ cur \in bitmap /\ Loose(dir, blk, bitmap, cur)
    BY <2>2, BlockNumbers
    DEF Inv, Typed, LocalsOK, Ownership, Unattached, Filling
  <2>4. Owned(dir', blk', bitmap') /\ Loose(dir', blk', bitmap', first')
    BY <1>0, <2>1, <2>2, <2>3, OwnedLinks DEF Linked, Inv, Typed, TypeOK
  <2>5. DiskOwned(bitmap)'
    BY <1>0, <2>2, <2>4 DEF DiskOwned
  <2>6. QED
    BY <1>0, <2>2, <2>3, <2>4, <2>5
    DEF Ownership, Serving, Filling, Unattached
<1>5. CASE WDir
  <2>1. dir' = [dir EXCEPT ![slot] = Filled(dir[slot])]
    <3>1. PICK w \in WriteOutcomes, ok \in ReadOutcomes :
          \E d \in IF ok THEN {dir} ELSE Garbage \cup {dir} :
            dir' = IF w = "done"
                   THEN [d EXCEPT ![slot] = Filled(d[slot])] ELSE dir
      BY <1>5 DEF WDir
    <3>2. w = "done" /\ ok = TRUE
      BY NoFaults
    <3>3. QED
      BY <3>1, <3>2
  <2>2. /\ UNCHANGED <<blk, bitmap>> /\ slot \in Slots /\ pc = "w_loop"
        /\ dir \in [Slots -> Entries] /\ pc' = "idle"
    BY <1>5, GoodEntries DEF WDir, Return, Inv, Typed, TypeOK, LocalsOK
  <2>3. Filled(dir[slot]).start = first
    BY <2>2 DEF Filled, Entries
  <2>4. first = 0 \/ (first \in bitmap /\ Loose(dir, blk, bitmap, first))
    BY <2>2 DEF Inv, Ownership, Unattached, Filling
  <2>5. Owned(dir', blk, bitmap)
    BY <1>0, <2>1, <2>2, <2>3, <2>4, OwnedAddsRoot
  <2>6. QED
    BY <1>0, <2>2, <2>5, OwnedAgain DEF Serving, Filling
<1>6. QED
  BY <1>1, <1>2, <1>3, <1>4, <1>5 DEF Writing

LEMMA DeletingOwned ==
  ASSUME Faults = {}, Inv, Deleting PROVE Ownership'
<1> USE DEF disk, memory, walk, writing
<1>0. PICK R \in SUBSET Blocks : DiskOwned(R)
  BY DEF Inv, Ownership
<1>1. CASE DelFind
  <2>0. /\ Owned(dir, blk, bitmap) /\ bitmap \in SUBSET Blocks
        /\ UNCHANGED <<dir, blk, bitmap>>
    BY <1>1 DEF DelFind, Inv, Ownership, Serving, Typed, TypeOK
  <2>1. CASE DelReturns(FALSE)
    <3>1. pc' \in {"create", "idle"}
      BY <2>1 DEF DelReturns, Return
    <3>2. QED
      BY <2>0, <3>1, OwnedAgain DEF Serving, Filling
  <2>2. ASSUME NEW s \in Slots, slot' = s, cur' = dir[s].start,
               pc' = "del_chain"
        PROVE  Ownership'
    <3>1. Detached(dir', blk', bitmap', slot', cur')
      BY <2>0, <2>2, DetachStarts
    <3>2. DiskOwned(bitmap)'
      BY <2>0, <2>2 DEF DiskOwned
    <3>3. QED
      BY <2>0, <2>2, <3>1, <3>2 DEF Ownership, Serving, Filling
  <2>3. QED
    BY <1>1, <2>1, <2>2 DEF DelFind
<1>2. CASE DelChain
  <2>1. /\ bitmap' = bitmap \ {cur} /\ cur' = blk[cur].next
        /\ UNCHANGED <<dir, blk, slot, pc>> /\ pc = "del_chain"
        /\ cur \in Blocks
    <3>1. FALSE \notin ReadOutcomes
      BY NoFaults
    <3>2. QED
      BY <1>2, <3>1 DEF DelChain, Freed
  <2>2. slot \in Slots /\ Detached(dir, blk, bitmap, slot, cur)
    BY <2>1 DEF Inv, Ownership, Typed, LocalsOK
  <2>3. Detached(dir', blk', bitmap', slot', cur')
    BY <1>0, <2>1, <2>2, DetachGoesOn DEF DiskOwned
  <2>4. DiskOwned(R)'
    BY <1>0, <2>1 DEF DiskOwned
  <2>5. QED
    BY <2>1, <2>3, <2>4 DEF Ownership, Serving, Filling
<1>3. CASE DelEntry
  <2>1. /\ dir' = [dir EXCEPT ![slot] = NoEntry]
        /\ UNCHANGED <<blk, bitmap>> /\ pc = "del_chain"
        /\ cur \notin Blocks
    BY <1>3, NoFaults DEF DelEntry, Cleared
  <2>2. /\ slot \in Slots /\ Detached(dir, blk, bitmap, slot, cur)
        /\ dir \in [Slots -> Entries] /\ bitmap \in SUBSET Blocks
    BY <2>1, GoodEntries DEF Inv, Ownership, Typed, TypeOK, LocalsOK
  <2>3. /\ \A t \in Slots \ {slot} : dir'[t] = dir[t]
        /\ dir'[slot].start = 0
    BY <2>1, <2>2 DEF NoEntry
  <2>4. Owned(dir', blk, bitmap)
    BY <1>0, <2>1, <2>2, <2>3, DetachEnds DEF DiskOwned
  <2>5. pc' \in {"create", "idle"}
    BY <1>3 DEF DelEntry, DelReturns, Return
  <2>6. QED
    BY <2>1, <2>2, <2>4, <2>5, OwnedAgain DEF Serving, Filling
<1>4. QED
  BY <1>1, <1>2, <1>3 DEF Deleting

LEMMA ReadingOwned ==
  ASSUME Inv, Reading PROVE Ownership'
<1>1. pc' \in {"cat_chain", "idle"} /\ UNCHANGED <<dir, blk, bitmap>>
  BY DEF Reading, CatFind, CatChain, CatEnd, Return, disk, memory
<1>2. Owned(dir, blk, bitmap) /\ bitmap \in SUBSET Blocks
  BY DEF Reading, CatFind, CatChain, CatEnd, Inv, Ownership, Serving, Typed,
         TypeOK
<1>3. QED
  BY <1>1, <1>2, OwnedAgain DEF Serving, Filling

LEMMA NextOwned ==
  ASSUME Faults = {} PROVE Inv /\ [Next]_vars => Inv'
<1> SUFFICES ASSUME Inv, [Next]_vars PROVE Ownership'
  BY NextTyped, NextAscending DEF Inv
<1> USE DEF disk, memory, walk, writing
<1>0. PICK R \in SUBSET Blocks : DiskOwned(R)
  BY DEF Inv, Ownership
<1>1. CASE Boot
  <2>1. DiskOwned(R)' /\ pc' = "mount" /\ slot' = 0
    BY <1>0, <1>1 DEF Boot, DiskOwned, Inv, Ownership
  <2>2. QED
    BY <2>1 DEF Ownership, Serving, Filling
<1>2. CASE Command
  <2>1. /\ Owned(dir, blk, bitmap) /\ bitmap \in SUBSET Blocks
        /\ UNCHANGED <<dir, blk, bitmap>>
    BY <1>2 DEF Command, Inv, Ownership, Serving, Typed, TypeOK
  <2>2. pc' \in {"create", "cat", "delete"}
    BY <1>2 DEF Command
  <2>3. QED
    BY <2>1, <2>2, OwnedAgain DEF Serving, Filling
<1>3. CASE Crash
  <2>1. DiskOwned(R)' /\ pc' = "off" /\ slot' = 0
    BY <1>0, <1>3 DEF Crash, Stop, NoLocals, DiskOwned
  <2>2. QED
    BY <2>1 DEF Ownership, Serving, Filling
<1>4. CASE UNCHANGED vars
  BY <1>4
  DEF vars, Inv, Ownership, DiskOwned, Unattached
<1>5. QED
  BY <1>1, <1>2, <1>3, <1>4, MountingOwned, CreatingOwned, WritingOwned,
     DeletingOwned, ReadingOwned
  DEF Next, Handler

(* Without ATA failures no block ever has two owners, wherever the machine *)
(* stops and however often it restarts.                                    *)
THEOREM BlocksHaveOneOwner ==
  ASSUME Faults = {} PROVE Spec => []NoCrossLink
<1>1. Inv => NoCrossLink
  <2> SUFFICES ASSUME Inv PROVE NoCrossLink
    OBVIOUS
  <2>1. PICK R \in SUBSET Blocks : Owned(dir, blk, R) /\ bitmap \subseteq R
    BY DEF Inv, Ownership, DiskOwned
  <2>2. QED
    BY <2>1
    DEF NoCrossLink, Owned, RootsDistinct, LinksDistinct, RootsUnlinked
<1>2. Init => Inv
  BY InitTyped, InitAscending, InitOwned DEF Inv
<1>3. QED
  BY <1>1, <1>2, NextOwned, PTL DEF Spec

(* Without ATA failures every block of every file is marked allocated      *)
(* whenever the shell waits: no file can lose a block to another.          *)
THEOREM FilesKeepTheirBlocks ==
  ASSUME Faults = {} PROVE Spec => []BitmapCovers
<1>1. Inv => BitmapCovers
  BY DEF Inv, Ownership, Serving, BitmapCovers, Owned, RootsIn, Closed
<1>2. Init => Inv
  BY InitTyped, InitAscending, InitOwned DEF Inv
<1>3. QED
  BY <1>1, <1>2, NextOwned, PTL DEF Spec

=============================================================================
