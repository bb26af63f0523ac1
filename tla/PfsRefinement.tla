--------------------------- MODULE PfsRefinement ---------------------------
(***************************************************************************)
(* The theorem that Pfs implements FileStore when ATA calls succeed, names *)
(* fit an entry and the machine may stop between any two sector writes.    *)
(*                                                                         *)
(* The argument: an entry's content is what its trace holds, so the file a *)
(* name stands for changes only when the directory sector is written.  The *)
(* four steps that write it are the four ways the map changes; the step    *)
(* that ends a command is its answer, a crash is a restart, and all other  *)
(* steps change nothing the map shows.                                     *)
(***************************************************************************)
EXTENDS PfsRefinesFileStore, PfsConsistency

(***************************************************************************)
(* What the directory and the blocks say about the files.                  *)
(***************************************************************************)
Written(d, n) == [k \in 1..n |-> <<d, k>>]

(* The contents of the entries, and the files they are known by.           *)
Known ==
  /\ \A s \in Slots :
       dir[s].name # NoName =>
         dir[s].name \in StoredNames /\ Files[dir[s].name] = SlotContent(s)
  /\ \A s \in Slots : dir[s].size = 0 => SlotContent(s) = <<>>
  /\ \A s \in Slots, d \in Data :
       dir[s].size # 0 /\ Holds(blk, dir[s], d)
         => SlotContent(s) = Written(d, dir[s].size)

LEMMA SlotFound ==
  ASSUME UniqueNames, NEW s \in Slots, dir[s].name # NoName
  PROVE  SlotOf(dir[s].name) = s
<1>1. \A t \in Slots : Matches(dir[t], dir[s].name) <=> t = s
  BY DEF UniqueNames, Matches
<1>2. FoundAt(dir[s].name, s)
  BY <1>1, BlockNumbers DEF FoundAt
<1>3. \A t \in Slots : FoundAt(dir[s].name, t) => t = s
  BY <1>1 DEF FoundAt
<1>4. QED
  BY <1>2, <1>3 DEF SlotOf

LEMMA ContentKnown ==
  ASSUME NEW s \in Slots, NEW d, dir[s].size \in 1..MaxChunks,
         Holds(blk, dir[s], d)
  PROVE  SlotContent(s) = Written(d, dir[s].size)
<1>1. PICK c \in [1..dir[s].size -> Blocks] :
        Trace(blk, dir[s].start, c, dir[s].size, d)
  BY DEF Holds
<1>2. \A k \in 1..dir[s].size : Chain(dir[s].start)[k - 1] = c[k]
  BY <1>1, ChainFollows
<1>3. \A k \in 1..dir[s].size :
        blk[Chain(dir[s].start)[k - 1]].data = <<d, k>>
  BY <1>1, <1>2 DEF Trace, Labelled
<1>4. QED
  BY <1>3 DEF SlotContent, Written

LEMMA FilesKnown == TypeOK /\ UniqueNames /\ Faults = {} => Known
<1> SUFFICES ASSUME TypeOK, UniqueNames, Faults = {} PROVE Known
  OBVIOUS
<1>1. ASSUME NEW s \in Slots, dir[s].name # NoName
      PROVE  dir[s].name \in StoredNames
             /\ Files[dir[s].name] = SlotContent(s)
  BY <1>1, SlotFound DEF StoredNames, Files
<1>2. ASSUME NEW s \in Slots, dir[s].size = 0 PROVE SlotContent(s) = <<>>
  BY <1>2 DEF SlotContent
<1>3. ASSUME NEW s \in Slots, NEW d \in Data,
             dir[s].size # 0, Holds(blk, dir[s], d)
      PROVE  SlotContent(s) = Written(d, dir[s].size)
  <2>1. dir[s].size \in 1..MaxChunks
    BY <1>3, DirectoryOfStore, ConstantsAssumption DEF TypeOK, Entries
  <2>2. QED
    BY <1>3, <2>1, ContentKnown
<1>4. QED
  BY <1>1, <1>2, <1>3 DEF Known

LEMMA FilesKnownNext ==
  TypeOK' /\ UniqueNames' /\ (Faults = {})' => Known'
  BY FilesKnown, PTL

LEMMA WrittenSequences ==
  ASSUME NEW d, NEW n \in Nat
  PROVE  /\ Written(d, n) \in Seq({d} \X Nat) /\ Len(Written(d, n)) = n
         /\ Append(Written(d, n), <<d, n + 1>>) = Written(d, n + 1)
         /\ \A m \in 0..n : SubSeq(Written(d, n), 1, m) = Written(d, m)
<1> DEFINE w(i) == [k \in 1..i |-> <<d, k>>]
<1>1. \A i \in Nat : w(i) \in Seq({d} \X Nat) /\ Len(w(i)) = i
  OBVIOUS
<1>2. Append(w(n), <<d, n + 1>>) = w(n + 1)
  OBVIOUS
<1>3. ASSUME NEW m \in 0..n PROVE SubSeq(w(n), 1, m) = w(m)
  OBVIOUS
<1>4. QED
  BY <1>1, <1>2, <1>3 DEF Written

(***************************************************************************)
(* The invariant: what a command knows of the file it serves.              *)
(***************************************************************************)

(* A disk that is to be formatted holds nothing.                           *)
Formatted ==
  /\ ~super \/ pc \in {"format", "format_dir"} =>
       \A s \in Slots : dir[s] = NoEntry
  /\ pc \notin {"off", "mount", "format"} => super
  /\ pc # "format_unread"

Unasked == {"off", "mount", "format", "format_dir", "rebuild",
            "rebuild_slot", "rebuild_chain", "idle"}

Asked ==
  /\ pc \in Unasked => op = NoOp
  /\ pc # "idle" => res = "none"
  /\ pc \notin {"idle", "cat_chain"} => got = <<>>
  /\ pc \in {"cat", "cat_chain"} => op.kind = "pfcat"
  /\ pc = "create" => op.kind \in {"mkfile", "pfwrite"} /\ after = "none"
  /\ pc \in {"delete", "del_chain"} =>
       \/ after = "pfrm" /\ op.kind = "pfrm"
       \/ after \in {"create", "fail"} /\ op.kind = "pfwrite"

Missing(n) == \A s \in Slots : dir[s].name # n

Targeted ==
  /\ pc = "create" /\ op.kind = "pfwrite" => Missing(op.name)
  /\ pc = "w_find" =>
       \E s \in Slots : dir[s].name = op.name /\ dir[s].size = 0
  /\ pc \in Filling => dir[slot].name = op.name /\ dir[slot].size = 0
  /\ pc \in {"del_chain", "cat_chain"} => dir[slot].name = op.name
  /\ pc \in {"delete", "del_chain"} /\ after = "fail" =>
       \E s \in Slots : dir[s].name = op.name /\ dir[s].size = 0

(* How far a file has been read: the first chunks of it are copied out.    *)
ReadSoFar ==
  IF dir[slot].size = 0 THEN cur = 0 /\ got = <<>>
  ELSE \E d \in Data, c \in [1..dir[slot].size -> Blocks] :
         /\ Trace(blk, dir[slot].start, c, dir[slot].size, d)
         /\ Len(got) <= dir[slot].size
         /\ got = Written(d, Len(got))
         /\ cur = IF Len(got) < dir[slot].size THEN c[Len(got) + 1] ELSE EOC

Served ==
  /\ Formatted /\ Asked /\ Targeted
  /\ pc = "cat_chain" => ReadSoFar /\ Len(got) <= BufChunks

Promised == Inv /\ Consistent /\ UniqueNames /\ Served

LEMMA InitServed == Init => Served
  BY DEF Init, Served, Formatted, Asked, Targeted, Unasked, Filling, Missing

LEMMA NamesFit ==
  ASSUME LongNames = {}
  PROVE  /\ NoName \notin Names /\ Names = ShortNames
         /\ \A n \in Names : Stored(n) = n
         /\ \A o \in Ops : o.name \in Names
  BY ConstantsAssumption DEF Names, Stored, Ops, PlainOps, WriteOps

LEMMA OwnName ==
  ASSUME LongNames = {}, Typed, op \in Ops
  PROVE  /\ op.name # NoName
         /\ \A s \in Slots : FoundAt(op.name, s) => dir[s].name = op.name
         /\ NotFound(op.name) <=> Missing(op.name)
  BY NamesFit DEF FoundAt, NotFound, Matches, Missing

LEMMA MountingServed ==
  ASSUME Faults = {}, Promised, Mounting PROVE Served'
<1> USE DEF Served, Formatted, Asked, Targeted, Unasked, Filling, disk, memory,
            walk, writing
<1>1. CASE MountRead
  <2>0. pc' = CASE super -> "rebuild" [] ~super -> "format"
              [] OTHER -> "format_unread"
    <3>1. PICK ok \in ReadOutcomes :
            pc' = CASE ok /\ super  -> "rebuild"
                    [] ok /\ ~super -> "format"
                    [] OTHER        -> "format_unread"
      BY <1>1, Zenon DEF MountRead
    <3>2. ok = TRUE
      BY NoFaults
    <3>3. QED
      BY <3>1, <3>2, Zenon
  <2>1. super => pc' = "rebuild"
    BY <2>0, Zenon
  <2>2. ~super => pc' = "format"
    BY <2>0, Zenon
  <2>3. QED
    BY <1>1, <2>1, <2>2 DEF MountRead, Promised, Inv, Typed, TypeOK
<1>2. CASE FormatSuper
  <2>1. super' = TRUE /\ pc = "format"
    BY <1>2, NoFaults DEF FormatSuper, Promised
  <2>2. QED
    BY <1>2, <2>1 DEF FormatSuper, Promised
<1>3. CASE FormatDir
  BY <1>3, NoFaults DEF FormatDir, Promised
<1>4. CASE RebuildRead
  BY <1>4, NoFaults DEF RebuildRead, Promised
<1>5. CASE RebuildSlot
  BY <1>5 DEF RebuildSlot, Promised
<1>6. CASE RebuildChain
  BY <1>6 DEF RebuildChain, Promised
<1>7. CASE RebuildEnd
  BY <1>7 DEF RebuildEnd, Mounted, Promised
<1>8. QED
  BY <1>1, <1>2, <1>3, <1>4, <1>5, <1>6, <1>7 DEF Mounting

(* A step that ends the command and leaves the directory and super alone,  *)
(* or empties or fills one of its entries.                                 *)
LEMMA ReturnServed ==
  ASSUME Promised, pc \notin {"off", "mount", "format"}, super' = super,
         NEW ok, Return(ok)
  PROVE  Served'
<1>1. super = TRUE
  BY DEF Promised, Served, Formatted, Inv, Typed, TypeOK
<1>2. QED
  BY <1>1
  DEF Return, Served, Formatted, Asked, Targeted, Unasked, Filling

LEMMA CreatingServed ==
  ASSUME Faults = {}, LongNames = {}, Promised, Creating PROVE Served'
<1>1. /\ pc = "create" /\ super' = super /\ got' = got /\ op \in Ops
      /\ got = <<>> /\ after = "none" /\ super = TRUE /\ res = "none"
  BY DEF Creating, CreateRefused, CreateEntry, disk, Promised, Served, Asked,
         Formatted, Inv, Typed, LocalsOK, TypeOK
<1>2. CASE \E ok : Return(ok)
  BY <1>1, <1>2, ReturnServed
<1>3. CASE pc' = "w_find" /\ CreateEntry
  <2>1. PICK s \in Slots : dir' = [dir EXCEPT ![s] = Created(op.name)]
    BY <1>3, NoFaults DEF CreateEntry
  <2>2. dir'[s].name = op.name /\ dir'[s].size = 0
    BY <1>1, <2>1, NamesFit, RawTyped DEF Created, Promised, Inv
  <2>3. op' = op /\ after' = after /\ res' = res
    BY <1>3 DEF CreateEntry, CreateReturns, Return
  <2>4. QED
    BY <1>1, <1>3, <2>2, <2>3
    DEF Served, Formatted, Asked, Targeted, Unasked, Filling
<1>4. QED
  BY <1>2, <1>3 DEF Creating, CreateRefused, CreateEntry, CreateReturns

LEMMA WritingServed ==
  ASSUME Faults = {}, LongNames = {}, Promised, Writing PROVE Served'
<1> USE DEF disk, memory, walk, writing
<1>1. /\ pc \in {"w_find", "w_loop", "w_link"} /\ super' = super /\ got' = got
      /\ got = <<>> /\ super = TRUE /\ res = "none" /\ op \in WriteOps
      /\ op \in Ops /\ op.kind = "pfwrite"
  BY DEF Writing, WFind, WFull, WBlock, WLink, WDir, Promised, Served, Asked,
         Formatted, Inv, Typed, LocalsOK, TypeOK, Ops, WriteOps
<1>2. CASE \E ok : Return(ok)
  BY <1>1, <1>2, ReturnServed
<1>3. CASE pc' = "w_loop" /\ WFind
  <2>1. PICK s \in Slots : FoundAt(op.name, s) /\ slot' = s /\ op' = op
                           /\ res' = res /\ dir' = dir /\ after' = after
    BY <1>3 DEF WFind, Return
  <2>2. PICK t \in Slots : dir[t].name = op.name /\ dir[t].size = 0
    BY <1>3 DEF WFind, Promised, Served, Targeted
  <2>3. dir[s].name = op.name /\ op.name # NoName
    BY <1>1, <2>1, OwnName DEF Promised, Inv
  <2>4. s = t
    BY <2>2, <2>3 DEF Promised, UniqueNames
  <2>5. QED
    BY <1>1, <1>3, <2>1, <2>2, <2>3, <2>4
    DEF Served, Formatted, Asked, Targeted, Unasked, Filling
<1>4. CASE WFull
  <2>1. /\ slot \in Slots /\ dir[slot].name = op.name /\ dir[slot].size = 0
        /\ UNCHANGED <<dir, op>>
    BY <1>4
    DEF WFull, Promised, Served, Targeted, Filling, Inv, Typed, LocalsOK
  <2>2. QED
    BY <1>1, <1>4, <2>1
    DEF WFull, Served, Formatted, Asked, Targeted, Unasked, Filling
<1>5. CASE WBlock
  <2>1. pc' \in {"w_loop", "w_link"} /\ UNCHANGED <<dir, slot, op, res, after>>
    <3>1. Reported("done") /\ WriteOutcomes = {"done"}
      BY NoFaults
    <3>2. QED
      BY <1>5, <3>1 DEF WBlock
  <2>2. dir[slot].name = op.name /\ dir[slot].size = 0
    BY <1>5 DEF WBlock, Promised, Served, Targeted, Filling
  <2>3. QED
    BY <1>1, <2>1, <2>2
    DEF Served, Formatted, Asked, Targeted, Unasked, Filling
<1>6. CASE WLink
  <2>1. pc' = "w_loop" /\ UNCHANGED <<dir, slot, op, res, after>>
    BY <1>6 DEF WLink
  <2>2. dir[slot].name = op.name /\ dir[slot].size = 0
    BY <1>6 DEF WLink, Promised, Served, Targeted, Filling
  <2>3. QED
    BY <1>1, <2>1, <2>2
    DEF Served, Formatted, Asked, Targeted, Unasked, Filling
<1>7. QED
  BY <1>2, <1>3, <1>4, <1>5, <1>6 DEF Writing, WFind, WDir

LEMMA DeletingServed ==
  ASSUME Faults = {}, LongNames = {}, Promised, Deleting PROVE Served'
<1> USE DEF disk, memory, walk, writing
<1>1. /\ pc \in {"delete", "del_chain"} /\ super' = super /\ got' = got
      /\ got = <<>> /\ super = TRUE /\ res = "none" /\ op \in Ops
      /\ Typed /\ UniqueNames
      /\ \/ after = "pfrm" /\ op.kind = "pfrm"
         \/ after \in {"create", "fail"} /\ op.kind = "pfwrite"
  BY DEF Deleting, DelFind, DelChain, DelEntry, Promised, Served, Asked,
         Formatted, Inv, Typed, LocalsOK, TypeOK
<1>2. ASSUME NEW ok, DelReturns(ok), Missing(op.name)' PROVE Served'
  <2>1. CASE after = "create"
    BY <1>1, <1>2, <2>1
    DEF DelReturns, Missing, Served, Formatted, Asked, Targeted, Unasked,
        Filling
  <2>2. CASE after # "create"
    BY <1>1, <1>2, <2>2, ReturnServed DEF DelReturns
  <2>3. QED
    BY <2>1, <2>2
<1>3. CASE DelFind
  <2>1. ASSUME NEW s \in Slots, FoundAt(op.name, s), slot' = s,
               pc' = "del_chain", UNCHANGED <<op, after, res>>
        PROVE  Served'
    <3>1. dir[s].name = op.name /\ dir' = dir /\ pc = "delete"
      BY <1>1, <1>3, <2>1, OwnName DEF DelFind
    <3>2. after = "fail" =>
            \E t \in Slots : dir[t].name = op.name /\ dir[t].size = 0
      BY <3>1 DEF Promised, Served, Targeted
    <3>3. QED
      BY <1>1, <2>1, <3>1, <3>2
      DEF Served, Formatted, Asked, Targeted, Unasked, Filling
  <2>2. CASE NotFound(op.name) /\ DelReturns(FALSE)
    <3>1. CASE after = "create"
      <4>1. Missing(op.name)'
        BY <1>1, <1>3, <2>2, <3>1, OwnName DEF DelFind, DelReturns, Missing
      <4>2. QED
        BY <1>2, <2>2, <4>1
    <3>2. CASE after # "create"
      BY <1>1, <2>2, <3>2, ReturnServed DEF DelReturns
    <3>3. QED
      BY <3>1, <3>2
  <2>3. QED
    <3>1. FALSE \notin ReadOutcomes
      BY NoFaults
    <3>2. QED
      BY <1>3, <2>1, <2>2, <3>1 DEF DelFind
<1>4. CASE DelChain
  <2>1. pc' = pc /\ pc = "del_chain" /\ UNCHANGED <<dir, slot, op, res, after>>
    BY <1>4 DEF DelChain
  <2>2. /\ dir[slot].name = op.name
        /\ after = "fail" =>
             \E t \in Slots : dir[t].name = op.name /\ dir[t].size = 0
    BY <2>1 DEF Promised, Served, Targeted
  <2>3. QED
    BY <1>1, <2>1, <2>2
    DEF Served, Formatted, Asked, Targeted, Unasked, Filling
<1>5. CASE DelEntry
  <2>1. /\ dir' = [dir EXCEPT ![slot] = NoEntry] /\ pc = "del_chain"
        /\ DelReturns(TRUE) /\ slot \in Slots /\ dir[slot].name = op.name
        /\ dir \in [Slots -> Entries]
    BY <1>5, NoFaults, GoodEntries
    DEF DelEntry, Cleared, Promised, Served, Targeted, Inv, Typed, TypeOK,
        LocalsOK
  <2>2. op.name # NoName
    BY <1>1, OwnName
  <2>3. \A s \in Slots : dir'[s].name # op.name
    BY <1>1, <2>1, <2>2 DEF UniqueNames, NoEntry
  <2>4. CASE after = "create"
    <3>1. Missing(op.name)'
      BY <2>1, <2>3, <2>4 DEF DelReturns, Missing
    <3>2. QED
      BY <1>2, <2>1, <3>1
  <2>5. CASE after # "create"
    BY <1>1, <2>1, <2>5, ReturnServed DEF DelReturns
  <2>6. QED
    BY <2>4, <2>5
<1>6. QED
  BY <1>3, <1>4, <1>5 DEF Deleting

LEMMA ReadingServed ==
  ASSUME Faults = {}, LongNames = {}, Promised, Reading PROVE Served'
<1> USE DEF disk, memory, walk, writing
<1>1. /\ pc \in {"cat", "cat_chain"} /\ UNCHANGED <<super, dir, blk>>
      /\ super = TRUE /\ res = "none" /\ op \in Ops /\ op.kind = "pfcat"
      /\ Typed /\ FALSE \notin ReadOutcomes
  BY NoFaults
  DEF Reading, CatFind, CatChain, CatEnd, Promised, Served, Asked, Formatted,
      Inv, Typed, LocalsOK, TypeOK
<1>2. CASE \E ok : Return(ok)
  BY <1>1, <1>2, ReturnServed
<1>3. CASE pc' = "cat_chain" /\ CatFind
  <2>1. PICK s \in Slots : FoundAt(op.name, s) /\ slot' = s
                           /\ cur' = dir[s].start /\ op' = op /\ res' = res
    BY <1>3 DEF CatFind, Return
  <2>2. dir[s].name = op.name /\ got' = <<>>
    BY <1>1, <1>3, <2>1, OwnName DEF CatFind, Promised, Served, Asked
  <2>3. ReadSoFar'
    <3>1. CASE dir[s].size = 0
      BY <1>1, <2>1, <2>2, <3>1
      DEF ReadSoFar, Promised, Consistent, Whole
    <3>2. CASE dir[s].size # 0
      <4>1. PICK d \in Data, c \in [1..dir[s].size -> Blocks] :
              Trace(blk, dir[s].start, c, dir[s].size, d)
        BY <3>2 DEF Promised, Consistent, Whole, Holds
      <4>2. Written(d, 0) = <<>> /\ c[1] = dir[s].start
        BY <4>1 DEF Written, Trace
      <4>3. dir[s].size \in Nat /\ dir[s].size > 0
        BY <1>1, <3>2, GoodEntries, ConstantsAssumption DEF Entries
      <4>4. dir'[slot'] = dir[s] /\ dir'[slot'].size # 0
        BY <1>1, <2>1, <3>2
      <4>5. Trace(blk', dir'[slot'].start, c, dir'[slot'].size, d)
        BY <1>1, <4>1, <4>4
      <4>6. Len(got') = 0 /\ got' = Written(d, Len(got'))
        BY <2>2, <4>2
      <4>7. cur' = IF Len(got') < dir'[slot'].size
                   THEN c[Len(got') + 1] ELSE EOC
        BY <2>1, <4>2, <4>3, <4>4, <4>6
      <4>8. Len(got') <= dir'[slot'].size
        BY <4>3, <4>4, <4>6
      <4>9. c \in [1..dir'[slot'].size -> Blocks]
        BY <4>4
      <4>10. QED
        BY <4>1, <4>4, <4>5, <4>6, <4>7, <4>8, <4>9 DEF ReadSoFar
    <3>3. QED
      BY <3>1, <3>2
  <2>4. Len(got') <= BufChunks
    BY <2>2, ConstantsAssumption
  <2>5. QED
    BY <1>1, <1>3, <2>1, <2>2, <2>3, <2>4
    DEF Served, Formatted, Asked, Targeted, Unasked, Filling
<1>4. CASE CatChain
  <2>1. /\ pc = "cat_chain" /\ pc' = pc /\ UNCHANGED <<op, res, slot>>
        /\ got' = Append(got, blk[cur].data) /\ cur' = blk[cur].next
        /\ cur \in Blocks /\ Len(got) < dir[slot].size /\ Len(got) < BufChunks
    BY <1>1, <1>4 DEF CatChain, CatMore
  <2>2. dir[slot].name = op.name /\ ReadSoFar
    BY <2>1 DEF Promised, Served, Targeted
  <2>3. dir[slot].size \in Nat \ {0} /\ Len(got) \in Nat /\ got \in Seq(Payloads)
    BY <1>1, <2>1, GoodEntries, ConstantsAssumption
    DEF Typed, TypeOK, LocalsOK, Entries
  <2>4. PICK d \in Data, c \in [1..dir[slot].size -> Blocks] :
          /\ Trace(blk, dir[slot].start, c, dir[slot].size, d)
          /\ got = Written(d, Len(got))
          /\ cur = c[Len(got) + 1]
    BY <2>1, <2>2, <2>3 DEF ReadSoFar
  <2>0. PICK n : n = Len(got)
    OBVIOUS
  <2>5. n \in Nat /\ n + 1 \in 1..dir[slot].size /\ n < dir[slot].size
    BY <2>0, <2>1, <2>3
  <2>6. blk[cur].data = <<d, n + 1>>
    BY <2>0, <2>4, <2>5 DEF Trace, Labelled
  <2>7. got' = Written(d, n + 1) /\ Len(got') = n + 1
    <3>1. got' = Append(Written(d, n), <<d, n + 1>>)
      BY <2>0, <2>1, <2>4, <2>6
    <3>2. Append(Written(d, n), <<d, n + 1>>) = Written(d, n + 1)
      BY <2>5, WrittenSequences
    <3>3. \A i \in Nat : Len(Written(d, i)) = i
      BY WrittenSequences
    <3>4. QED
      BY <2>5, <3>1, <3>2, <3>3
  <2>8. cur' = IF n + 1 < dir[slot].size THEN c[n + 2] ELSE EOC
    <3>1. CASE n + 1 < dir[slot].size
      BY <2>0, <2>1, <2>4, <2>5, <3>1 DEF Trace, Path
    <3>2. CASE ~(n + 1 < dir[slot].size)
      <4>1. n + 1 = dir[slot].size
        BY <2>3, <2>5, <3>2
      <4>2. QED
        BY <2>0, <2>1, <2>4, <3>2, <4>1 DEF Trace
    <3>3. QED
      BY <3>1, <3>2
  <2>9. (n + 1) + 1 = n + 2 /\ n + 1 <= dir[slot].size
    BY <2>5
  <2>10. ReadSoFar'
    BY <1>1, <2>1, <2>3, <2>4, <2>7, <2>8, <2>9 DEF ReadSoFar
  <2>11. Len(got') <= BufChunks
    BY <2>1, <2>5, <2>7, <2>0, ConstantsAssumption
  <2>12. QED
    BY <1>1, <2>1, <2>2, <2>10, <2>11
    DEF Served, Formatted, Asked, Targeted, Unasked, Filling
<1>5. QED
  BY <1>2, <1>3, <1>4 DEF Reading, CatFind, CatEnd

LEMMA NextPromised ==
  ASSUME Faults = {}, LongNames = {}
  PROVE  Promised /\ [Next]_vars => Promised'
<1> SUFFICES ASSUME Promised, [Next]_vars PROVE Promised'
  OBVIOUS
<1> USE DEF disk, memory, walk, writing
<1>1. Inv' /\ Consistent' /\ UniqueNames'
  BY NextOwned, NextConsistent, NextUnique DEF Promised, Inv
<1>2. CASE Boot
  BY <1>1, <1>2
  DEF Boot, Promised, Served, Formatted, Asked, Targeted, Unasked, Filling
<1>3. CASE Command
  <2>1. /\ pc = "idle" /\ op' \in Ops /\ UNCHANGED disk
        /\ res' = "none" /\ got' = <<>> /\ super
    BY <1>3 DEF Command, Promised, Served, Formatted
  <2>2. PICK o \in Ops :
          /\ op' = o
          /\ pc' = CASE o.kind = "mkfile" -> "create"
                    [] o.kind = "pfcat"  -> "cat"
                    [] OTHER             -> "delete"
          /\ after' = CASE o.kind = "pfrm"    -> "pfrm"
                       [] o.kind = "pfwrite" -> "create"
                       [] OTHER              -> "none"
    BY <1>3, Zenon DEF Command
  <2>3. o.kind \in {"mkfile", "pfrm", "pfcat", "pfwrite"}
    BY DEF Ops, PlainOps, WriteOps
  <2>4. /\ o.kind = "mkfile" => pc' = "create" /\ after' = "none"
        /\ o.kind = "pfcat" => pc' = "cat"
        /\ o.kind = "pfrm" => pc' = "delete" /\ after' = "pfrm"
        /\ o.kind = "pfwrite" => pc' = "delete" /\ after' = "create"
    BY <2>2
  <2>5. Served'
    BY <2>1, <2>2, <2>3, <2>4
    DEF Served, Formatted, Asked, Targeted, Unasked, Filling
  <2>6. QED
    BY <1>1, <2>5 DEF Promised
<1>4. CASE Crash
  BY <1>1, <1>4
  DEF Crash, Stop, Promised, Served, Formatted, Asked, Targeted, Unasked,
      Filling
<1>5. CASE UNCHANGED vars
  BY <1>1, <1>5
  DEF vars, Promised, Served, Formatted, Asked, Targeted, Unasked, Filling,
      Missing, ReadSoFar
<1>6. CASE Handler
  <2>1. Served'
    BY <1>6, MountingServed, CreatingServed, WritingServed, DeletingServed,
       ReadingServed
    DEF Handler
  <2>2. QED
    BY <1>1, <2>1 DEF Promised
<1>7. QED
  BY <1>2, <1>3, <1>4, <1>5, <1>6 DEF Next

(***************************************************************************)
(* What a step does to the map.                                            *)
(***************************************************************************)
View == TypeOK /\ UniqueNames /\ Known

LEMMA ViewKnown == Promised /\ Faults = {} => View
  BY FilesKnown DEF Promised, Inv, Typed, View

LEMMA ViewKnownNext == Promised' /\ (Faults = {})' => View'
  BY ViewKnown, PTL

LEMMA FilesDomain == Files = [n \in StoredNames |-> Files[n]]
  BY DEF Files

(* There is room for an entry when a slot of the directory is free: every  *)
(* file has a slot to itself.                                              *)
LEMMA RoomIsSlot ==
  ASSUME UniqueNames
  PROVE  Store!HasRoom <=> \E s \in Slots : dir[s].name = NoName
<1> DEFINE f == [n \in StoredNames |->
                  CHOOSE s \in Slots : dir[s].name = n]
<1>1. IsFiniteSet(Slots) /\ Cardinality(Slots) = PFS_MAX_FILES
  <2>1. PFS_MAX_FILES \in Nat \ {0} /\ Slots = 0..(PFS_MAX_FILES - 1)
    BY ConstantsAssumption DEF Slots
  <2>2. 0 \in Int /\ PFS_MAX_FILES - 1 \in Int /\ ~(0 > PFS_MAX_FILES - 1)
    BY <2>1
  <2>3. /\ IsFiniteSet(0..(PFS_MAX_FILES - 1))
        /\ Cardinality(0..(PFS_MAX_FILES - 1)) = PFS_MAX_FILES - 1 - 0 + 1
    BY <2>2, FS_Interval
  <2>4. QED
    BY <2>1, <2>3
<1>2. \A n \in StoredNames : f[n] \in Slots /\ dir[f[n]].name = n
  BY DEF StoredNames
<1>3. f \in [StoredNames -> Slots]
  BY <1>2
<1> HIDE DEF f
<1>4. f \in Injection(StoredNames, Slots)
  BY <1>2, <1>3 DEF Injection, IsInjective
<1>5. /\ IsFiniteSet(StoredNames)
      /\ Cardinality(StoredNames) <= PFS_MAX_FILES
      /\ Cardinality(StoredNames) = PFS_MAX_FILES
           <=> f \in Surjection(StoredNames, Slots)
  BY <1>1, <1>4, FS_Injection
<1>6. Cardinality(StoredNames) \in Nat /\ PFS_MAX_FILES \in Nat
  BY <1>5, FS_CardinalityType, ConstantsAssumption
<1>7. ASSUME f \in Surjection(StoredNames, Slots), NEW s \in Slots
      PROVE  dir[s].name # NoName
  <2>1. PICK n \in StoredNames : f[n] = s
    BY <1>7, Zenon DEF Surjection
  <2>2. QED
    BY <1>2, <2>1 DEF StoredNames
<1>8. ASSUME \A s \in Slots : dir[s].name # NoName
      PROVE  f \in Surjection(StoredNames, Slots)
  <2>1. ASSUME NEW s \in Slots PROVE \E n \in StoredNames : f[n] = s
    <3>1. dir[s].name \in StoredNames
      BY <1>8 DEF StoredNames
    <3>2. dir[f[dir[s].name]].name = dir[s].name /\ f[dir[s].name] \in Slots
      BY <1>2, <3>1
    <3>3. f[dir[s].name] = s
      BY <1>8, <3>2 DEF UniqueNames
    <3>4. QED
      BY <3>1, <3>3
  <2>2. QED
    BY <1>3, <2>1, Zenon DEF Surjection
<1>9. DOMAIN Files = StoredNames
  BY DEF Files
<1>10. Store!HasRoom <=> Cardinality(StoredNames) < PFS_MAX_FILES
  BY <1>9 DEF Store!HasRoom, Store!Cardinality, Cardinality
<1>11. QED
  BY <1>5, <1>6, <1>7, <1>8, <1>10

LEMMA ContentKept ==
  ASSUME View, View', Consistent, Keeps(blk, blk'),
         NEW s \in Slots, dir'[s] = dir[s]
  PROVE  SlotContent(s)' = SlotContent(s)
<1>1. CASE dir[s].size = 0
  BY <1>1 DEF View, Known
<1>2. CASE dir[s].size # 0
  <2>1. PICK d \in Data : Holds(blk, dir[s], d)
    BY <1>2 DEF Consistent, Whole
  <2>2. Holds(blk', dir'[s], d)
    BY <1>2, <2>1 DEF Keeps
  <2>3. SlotContent(s) = Written(d, dir[s].size)
    BY <1>2, <2>1 DEF View, Known
  <2>4. SlotContent(s)' = Written(d, dir'[s].size)
    BY <1>2, <2>2 DEF View, Known
  <2>5. QED
    BY <2>3, <2>4
<1>3. QED
  BY <1>1, <1>2

LEMMA FilesKept ==
  ASSUME View, View', Consistent, Keeps(blk, blk'),
         \A s \in Slots : dir'[s] = dir[s]
  PROVE  Files' = Files
<1>1. StoredNames' = StoredNames
  BY DEF StoredNames
<1>2. ASSUME NEW n \in StoredNames PROVE Files'[n] = Files[n]
  <2>1. PICK s \in Slots : dir[s].name = n /\ n # NoName
    BY DEF StoredNames
  <2>2. Files[n] = SlotContent(s)
    BY <2>1 DEF View, Known
  <2>3. Files'[n] = SlotContent(s)'
    BY <2>1 DEF View, Known
  <2>4. QED
    BY <2>1, <2>2, <2>3, ContentKept
<1>3. Files' = [n \in StoredNames' |-> Files'[n]]
  BY DEF Files
<1>4. QED
  BY <1>1, <1>2, <1>3, FilesDomain

LEMMA FilesPut ==
  ASSUME View, View', Consistent, Keeps(blk, blk'), NEW n, n # NoName,
         NEW t \in Slots, dir[t].name = n \/ (dir[t].name = NoName /\ Missing(n)),
         dir'[t].name = n, \A s \in Slots \ {t} : dir'[s] = dir[s]
  PROVE  /\ Files' = [m \in StoredNames \cup {n} |->
                        IF m = n THEN SlotContent(t)' ELSE Files[m]]
         /\ n \in StoredNames <=> dir[t].name = n
<1>1. StoredNames' = StoredNames \cup {n}
  BY DEF StoredNames
<1>2. ASSUME NEW m \in StoredNames \cup {n}
      PROVE  Files'[m] = IF m = n THEN SlotContent(t)' ELSE Files[m]
  <2>1. CASE m = n
    BY <2>1 DEF View, Known
  <2>2. CASE m # n
    <3>1. PICK s \in Slots : dir[s].name = m /\ m # NoName
      BY <2>2 DEF StoredNames
    <3>2. s # t /\ dir'[s] = dir[s]
      BY <2>2, <3>1
    <3>3. Files[m] = SlotContent(s)
      BY <3>1 DEF View, Known
    <3>4. Files'[m] = SlotContent(s)'
      BY <3>1, <3>2 DEF View, Known
    <3>5. QED
      BY <2>2, <3>2, <3>3, <3>4, ContentKept
  <2>3. QED
    BY <2>1, <2>2
<1>3. Files' = [m \in StoredNames' |-> Files'[m]]
  BY DEF Files
<1>4. n \in StoredNames <=> dir[t].name = n
  BY DEF StoredNames, Missing
<1>5. QED
  BY <1>1, <1>2, <1>3, <1>4

LEMMA FilesDropped ==
  ASSUME View, View', Consistent, Keeps(blk, blk'), NEW n, n # NoName,
         NEW t \in Slots, dir[t].name = n,
         dir'[t].name = NoName, \A s \in Slots \ {t} : dir'[s] = dir[s]
  PROVE  Files' = [m \in StoredNames \ {n} |-> Files[m]] /\ n \in StoredNames
<1>1. \A s \in Slots : dir[s].name = n => s = t
  BY DEF View, UniqueNames
<1>2. StoredNames' = StoredNames \ {n} /\ n \in StoredNames
  BY <1>1 DEF StoredNames
<1>3. ASSUME NEW m \in StoredNames \ {n} PROVE Files'[m] = Files[m]
  <2>1. PICK s \in Slots : dir[s].name = m /\ m # NoName
    BY DEF StoredNames
  <2>2. s # t /\ dir'[s] = dir[s]
    BY <2>1
  <2>3. Files[m] = SlotContent(s)
    BY <2>1 DEF View, Known
  <2>4. Files'[m] = SlotContent(s)'
    BY <2>1, <2>2 DEF View, Known
  <2>5. QED
    BY <2>2, <2>3, <2>4, ContentKept
<1>4. Files' = [m \in StoredNames' |-> Files'[m]]
  BY DEF Files
<1>5. QED
  BY <1>2, <1>3, <1>4

(***************************************************************************)
(* Every step of the store is a step of the map, or changes nothing there. *)
(***************************************************************************)
LEMMA NextKeeps ==
  ASSUME Faults = {}, Promised, [Next]_vars PROVE Keeps(blk, blk')
<1>1. CASE WBlock
  BY <1>1, WBlockConsistent DEF Promised
<1>2. CASE WLink
  BY <1>2, WLinkConsistent DEF Promised
<1>3. CASE blk' = blk
  BY <1>3 DEF Keeps
<1>4. QED
  BY <1>1, <1>2, <1>3
  DEF Next, Handler, Mounting, Creating, Writing, Deleting, Reading, Boot,
      Command, Crash, Stop, MountRead, FormatSuper, FormatDir, RebuildRead,
      RebuildSlot, RebuildChain, RebuildEnd, CreateRefused, CreateEntry, WFind,
      WFull, WDir, DelFind, DelChain, DelEntry, CatFind, CatChain, CatEnd, vars,
      disk, memory

(* What holds on both sides of a step.                                     *)
Watched ==
  /\ Promised /\ View /\ View' /\ Consistent /\ Keeps(blk, blk')

Mapped == [Store!Next]_Store!vars

LEMMA UnseenMapped ==
  ASSUME Watched, dir' = dir, op' = op, res' = res, got' = got \/ res = "none"
  PROVE  Mapped
<1>1. Files' = Files
  BY FilesKept DEF Watched
<1>2. Answered' = Answered
  BY DEF Answered
<1>3. QED
  BY <1>1, <1>2 DEF Mapped, Store!vars

LEMMA MountingMapped ==
  ASSUME Faults = {}, Watched, Mounting PROVE Mapped
<1> USE DEF disk, memory, walk, writing
<1>1. UNCHANGED <<op, res, got>>
  BY DEF Mounting, MountRead, FormatSuper, FormatDir, RebuildRead, RebuildSlot,
         RebuildChain, RebuildEnd
<1>2. dir' = dir
  <2>1. CASE FormatDir
    <3>1. \A s \in Slots : dir[s] = NoEntry
      BY <2>1 DEF FormatDir, Watched, Promised, Served, Formatted
    <3>2. dir' = [s \in Slots |-> NoEntry]
      BY <2>1, NoFaults DEF FormatDir
    <3>3. dir \in [Slots -> Entries]
      BY DirectoryOfStore DEF Watched, View, TypeOK
    <3>4. QED
      BY <3>1, <3>2, <3>3
  <2>2. CASE ~FormatDir
    BY <2>2
    DEF Mounting, MountRead, FormatSuper, RebuildRead, RebuildSlot,
        RebuildChain, RebuildEnd
  <2>3. QED
    BY <2>1, <2>2
<1>3. QED
  BY <1>1, <1>2, UnseenMapped

LEMMA CreatingMapped ==
  ASSUME Faults = {}, LongNames = {}, Watched, Creating PROVE Mapped
<1>1. /\ pc = "create" /\ op \in Ops /\ op.kind \in {"mkfile", "pfwrite"}
      /\ got = <<>> /\ res = "none" /\ got' = got
      /\ op.kind = "pfwrite" => Missing(op.name)
      /\ Typed /\ FALSE \notin ReadOutcomes /\ UniqueNames
  BY NoFaults
  DEF Creating, CreateRefused, CreateEntry, Watched, Promised, Served, Asked,
      Targeted, Inv, Typed, LocalsOK
<1>2. op.name # NoName
  BY <1>1, OwnName
<1>3. DOMAIN Files = StoredNames /\ Files = [n \in StoredNames |-> Files[n]]
  BY FilesDomain DEF Files
<1>4. CASE CreateRefused
  <2>1. Return(FALSE) /\ dir' = dir
    BY <1>4 DEF CreateRefused, CreateReturns, disk
  <2>2. Files' = Files
    BY <2>1, FilesKept DEF Watched
  <2>3. op' = Store!None /\ Answered' = [res |-> "fail", got |-> <<>>]
    BY <1>1, <2>1 DEF Return, Store!None, NoOp, Answered
  <2>0. ~Missing(op.name) \/ ~Store!HasRoom
    <3>1. Exists(op.name) \/ DirFull
      BY <1>1, <1>4 DEF CreateRefused
    <3>2. CASE Exists(op.name)
      BY <1>1, <3>2, OwnName DEF Exists
    <3>3. CASE DirFull
      BY <1>1, <3>3, RoomIsSlot DEF DirFull
    <3>4. QED
      BY <3>1, <3>2, <3>3
  <2>4. CASE op.kind = "mkfile"
    <3>1. Store!Present(op.name) \/ ~Store!HasRoom
      BY <1>2, <1>3, <2>0 DEF Missing, Store!Present, StoredNames
    <3>2. QED
      BY <2>2, <2>3, <2>4, <3>1
      DEF Mapped, Store!Next, Store!MkFile, Store!Answer
  <2>5. CASE op.kind = "pfwrite"
    <3>1. op.name \notin StoredNames
      BY <1>1, <2>5 DEF Missing, StoredNames
    <3>2. Files' = Store!Without(op.name)
      BY <1>3, <2>2, <3>1 DEF Store!Without
    <3>3. ~Store!Present(op.name) /\ ~Store!HasRoom
      BY <1>1, <1>3, <2>0, <2>5, <3>1 DEF Store!Present
    <3>4. QED
      BY <2>3, <2>5, <3>2, <3>3
      DEF Mapped, Store!Next, Store!WriteFails, Store!Answer
  <2>6. QED
    BY <1>1, <2>4, <2>5
<1>5. CASE CreateEntry
  <2>1. PICK s \in Slots :
          /\ FreeSlot(s) /\ dir' = [dir EXCEPT ![s] = Created(op.name)]
          /\ CreateReturns(TRUE)
    BY <1>5, NoFaults DEF CreateEntry
  <2>2. /\ dir \in [Slots -> Entries] /\ Created(op.name).name = op.name
        /\ Created(op.name).size = 0
    BY <1>1, NamesFit, GoodEntries DEF Created
  <2>3. /\ dir[s].name = NoName /\ Missing(op.name)
        /\ dir'[s].name = op.name /\ dir'[s].size = 0
        /\ \A t \in Slots \ {s} : dir'[t] = dir[t]
    BY <1>1, <1>5, <2>1, <2>2, OwnName DEF FreeSlot, CreateEntry, Exists
  <2>4. SlotContent(s)' = <<>>
    BY <2>3 DEF Watched, View, Known
  <2>5. /\ op.name \notin StoredNames
        /\ Files' = Store!With(op.name, <<>>)
    <3>1. /\ Files' = [m \in StoredNames \cup {op.name} |->
                        IF m = op.name THEN SlotContent(s)' ELSE Files[m]]
          /\ op.name \in StoredNames <=> dir[s].name = op.name
      BY <1>2, <2>3, FilesPut DEF Watched
    <3>2. QED
      BY <1>2, <1>3, <2>3, <2>4, <3>1 DEF Store!With
  <2>0. Store!HasRoom
    BY <1>1, <2>3, RoomIsSlot
  <2>6. CASE op.kind = "mkfile"
    <3>1. op' = Store!None /\ Answered' = [res |-> "ok", got |-> <<>>]
      BY <1>1, <2>1, <2>6
      DEF CreateReturns, Return, Store!None, NoOp, Answered
    <3>2. ~Store!Present(op.name)
      BY <1>3, <2>5 DEF Store!Present
    <3>3. QED
      BY <2>0, <2>5, <2>6, <3>1, <3>2
      DEF Mapped, Store!Next, Store!MkFile, Store!Answer
  <2>7. CASE op.kind = "pfwrite"
    <3>1. op' = op /\ Answered' = Answered
      BY <1>1, <2>1, <2>7 DEF CreateReturns, Answered
    <3>2. ~Store!Present(op.name)
      BY <1>3, <2>5 DEF Store!Present
    <3>3. QED
      BY <2>0, <2>5, <2>7, <3>1, <3>2
      DEF Mapped, Store!Next, Store!WriteCreates
  <2>8. QED
    BY <1>1, <2>6, <2>7
<1>6. QED
  BY <1>4, <1>5 DEF Creating

LEMMA WritingMapped ==
  ASSUME Faults = {}, LongNames = {}, Watched, Writing PROVE Mapped
<1>1. /\ got = <<>> /\ res = "none" /\ got' = got /\ op \in Ops
      /\ op \in WriteOps /\ op.kind = "pfwrite" /\ Typed /\ Inv
  BY DEF Writing, WFind, WFull, WBlock, WLink, WDir, Watched, Promised, Served,
         Asked, Inv, Typed, LocalsOK, WriteOps
<1>2. op.name # NoName
  BY <1>1, OwnName
<1>3. CASE WFind
  <2>1. PICK s \in Slots : dir[s].name = op.name
    BY <1>3 DEF WFind, Watched, Promised, Served, Targeted
  <2>2. Exists(op.name) /\ FALSE \notin ReadOutcomes
    BY <1>1, <2>1, OwnName, NoFaults DEF Exists, Missing
  <2>3. dir' = dir /\ op' = op /\ res' = res
    BY <1>3, <2>2 DEF WFind, Exists, disk
  <2>4. QED
    BY <1>1, <2>3, UnseenMapped
<1>4. CASE WFull \/ WBlock \/ WLink
  <2>1. dir' = dir /\ op' = op /\ res' = res
    BY <1>4 DEF WFull, WBlock, WLink, disk
  <2>2. QED
    BY <1>1, <2>1, UnseenMapped
<1>5. CASE WDir
  <2>0. PICK t \in Slots : t = slot
    BY <1>1, <1>5 DEF WDir, Typed, LocalsOK
  <2>1. /\ dir' = [dir EXCEPT ![t] = Filled(dir[t])] /\ blk' = blk
        /\ dir \in [Slots -> Entries] /\ Return(TRUE)
        /\ dir[t].name = op.name /\ dir[t].size = 0
        /\ op.n \in Nat /\ op.data \in Data /\ done = op.n
    <3>1. PICK w \in WriteOutcomes, ok \in ReadOutcomes :
          \E d \in IF ok THEN {dir} ELSE Garbage \cup {dir} :
            dir' = IF w = "done"
                   THEN [d EXCEPT ![slot] = Filled(d[slot])] ELSE dir
      BY <1>5 DEF WDir
    <3>2. w = "done" /\ ok = TRUE
      BY NoFaults
    <3>3. dir' = [dir EXCEPT ![t] = Filled(dir[t])]
      BY <2>0, <3>1, <3>2
    <3>4. dir[t].name = op.name /\ dir[t].size = 0
      BY <1>5, <2>0
      DEF WDir, Watched, Promised, Served, Targeted, Filling
    <3>5. op.n \in Nat /\ op.data \in Data
      BY <1>1, ConstantsAssumption DEF WriteOps
    <3>6. QED
      BY <1>1, <1>5, <3>3, <3>4, <3>5, GoodEntries DEF WDir
  <2>2. /\ dir'[t].name = op.name /\ dir'[t].size = op.n
        /\ dir'[t].start = first
        /\ \A s \in Slots \ {t} : dir'[s] = dir[s]
    BY <2>1 DEF Filled, Entries
  <2>3. SlotContent(t)' = Store!Content(op.data, op.n)
    <3>1. CASE op.n = 0
      BY <2>2, <3>1 DEF Watched, View, Known, Store!Content
    <3>2. CASE op.n # 0
      <4>1. Built(op.n)
        BY <1>5, <2>1
        DEF WDir, Watched, Consistent, Building, Filling
      <4>2. bitmap \subseteq Blocks
        BY <1>1 DEF Typed, TypeOK
      <4>3. Holds(blk', dir'[t], op.data)
        BY <2>1, <2>2, <3>2, <4>1, <4>2 DEF Built, Holds
      <4>4. SlotContent(t)' = Written(op.data, op.n)
        BY <2>1, <2>2, <3>2, <4>3 DEF Watched, View, Known
      <4>5. QED
        BY <4>4 DEF Written, Store!Content
    <3>3. QED
      BY <3>1, <3>2
  <2>4. /\ op.name \in StoredNames
        /\ Files' = [m \in StoredNames \cup {op.name} |->
                       IF m = op.name THEN SlotContent(t)' ELSE Files[m]]
    BY <1>2, <2>1, <2>2, FilesPut DEF Watched
  <2>5. Files' = Store!With(op.name, Store!Content(op.data, op.n))
    BY <2>3, <2>4 DEF Store!With, Files
  <2>6. Store!Present(op.name) /\ Files[op.name] = <<>>
    BY <1>2, <2>1, <2>4 DEF Store!Present, Files, Watched, View, Known
  <2>7. op' = Store!None /\ Answered' = [res |-> "ok", got |-> <<>>]
    BY <1>1, <2>1 DEF Return, Store!None, NoOp, Answered
  <2>8. QED
    BY <1>1, <2>5, <2>6, <2>7
    DEF Mapped, Store!Next, Store!WriteFills, Store!Answer
<1>6. QED
  BY <1>3, <1>4, <1>5 DEF Writing

LEMMA DeletingMapped ==
  ASSUME Faults = {}, LongNames = {}, Watched, Deleting PROVE Mapped
<1>1. /\ got = <<>> /\ res = "none" /\ got' = got /\ op \in Ops /\ Typed
      /\ \/ after = "pfrm" /\ op.kind = "pfrm"
         \/ after \in {"create", "fail"} /\ op.kind = "pfwrite"
      /\ UniqueNames
      /\ after = "fail" =>
           \E s \in Slots : dir[s].name = op.name /\ dir[s].size = 0
  BY DEF Deleting, DelFind, DelChain, DelEntry, Watched, Promised, Served,
         Asked, Targeted, Inv, Typed, LocalsOK
<1>2. op.name # NoName
  BY <1>1, OwnName
<1>3. DOMAIN Files = StoredNames /\ Files = [n \in StoredNames |-> Files[n]]
  BY FilesDomain DEF Files
<1>4. ASSUME DelReturns(FALSE), Missing(op.name), dir' = dir PROVE Mapped
  <2>1. CASE after = "create"
    <3>1. op' = op /\ res' = res
      BY <1>4, <2>1 DEF DelReturns
    <3>2. QED
      BY <1>1, <1>4, <3>1, UnseenMapped
  <2>2. CASE after # "create"
    <3>0. after = "pfrm" /\ op.kind = "pfrm"
      BY <1>1, <1>4, <2>2 DEF Missing
    <3>1. Return(FALSE)
      BY <1>4, <2>2 DEF DelReturns, Return
    <3>2. op' = Store!None /\ Answered' = [res |-> "fail", got |-> <<>>]
      BY <1>1, <3>1 DEF Return, Store!None, NoOp, Answered
    <3>3. op.name \notin StoredNames
      BY <1>4 DEF Missing, StoredNames
    <3>4. Files' = Store!Without(op.name)
      BY <1>3, <1>4, <3>3, FilesKept DEF Watched, Store!Without
    <3>5. ~Store!Present(op.name)
      BY <1>3, <3>3 DEF Store!Present
    <3>6. QED
      BY <3>0, <3>2, <3>4, <3>5
      DEF Mapped, Store!Next, Store!Remove, Store!Answer
  <2>3. QED
    BY <2>1, <2>2
<1>5. CASE DelFind
  <2>1. CASE UNCHANGED <<op, res>>
    BY <1>1, <1>5, <2>1, UnseenMapped DEF DelFind, disk
  <2>2. CASE NotFound(op.name) /\ DelReturns(FALSE)
    BY <1>1, <1>4, <1>5, <2>2, OwnName DEF DelFind, disk
  <2>3. QED
    BY <1>5, <2>1, <2>2, NoFaults DEF DelFind
<1>6. CASE DelChain
  BY <1>1, <1>6, UnseenMapped DEF DelChain, disk
<1>7. CASE DelEntry
  <2>1. /\ dir' = [dir EXCEPT ![slot] = NoEntry] /\ DelReturns(TRUE)
        /\ slot \in Slots /\ dir[slot].name = op.name
        /\ dir \in [Slots -> Entries]
    BY <1>1, <1>7, NoFaults, GoodEntries
    DEF DelEntry, Cleared, Watched, Promised, Served, Targeted, Typed, TypeOK,
        LocalsOK
  <2>2. /\ dir'[slot].name = NoName
        /\ \A s \in Slots \ {slot} : dir'[s] = dir[s]
    BY <2>1 DEF NoEntry
  <2>3. /\ op.name \in StoredNames
        /\ Files' = [m \in StoredNames \ {op.name} |-> Files[m]]
    BY <1>2, <2>1, <2>2, FilesDropped DEF Watched
  <2>4. Store!Present(op.name) /\ Files' = Store!Without(op.name)
    BY <1>3, <2>3 DEF Store!Present, Store!Without
  <2>5. CASE after = "create"
    <3>1. op' = op /\ Answered' = Answered
      BY <1>1, <2>1, <2>5 DEF DelReturns, Answered
    <3>2. QED
      BY <1>1, <2>4, <2>5, <3>1 DEF Mapped, Store!Next, Store!WriteDrops
  <2>6. CASE after = "pfrm"
    <3>1. Return(TRUE)
      BY <2>1, <2>6 DEF DelReturns, Return
    <3>2. op' = Store!None /\ Answered' = [res |-> "ok", got |-> <<>>]
      BY <1>1, <3>1 DEF Return, Store!None, NoOp, Answered
    <3>3. QED
      BY <1>1, <2>4, <2>6, <3>2
      DEF Mapped, Store!Next, Store!Remove, Store!Answer
  <2>7. CASE after = "fail"
    <3>1. Return(FALSE)
      BY <2>1, <2>7 DEF DelReturns, Return
    <3>2. op' = Store!None /\ Answered' = [res |-> "fail", got |-> <<>>]
      BY <1>1, <3>1 DEF Return, Store!None, NoOp, Answered
    <3>3. dir[slot].size = 0
      BY <1>1, <1>2, <2>1, <2>7 DEF UniqueNames
    <3>4. SlotContent(slot) = <<>>
      BY <2>1, <3>3 DEF Watched, View, Known
    <3>5. Files[op.name] = <<>>
      BY <1>2, <2>1, <3>4 DEF Watched, View, Known
    <3>6. QED
      BY <1>1, <2>4, <2>7, <3>2, <3>5
      DEF Mapped, Store!Next, Store!WriteFails, Store!Answer
  <2>8. QED
    BY <1>1, <2>5, <2>6, <2>7
<1>8. QED
  BY <1>5, <1>6, <1>7 DEF Deleting

(* What pfs_read_file has copied when it stops.                            *)
LEMMA ReadMapped ==
  ASSUME Faults = {}, LongNames = {}, Watched, CatEnd
  PROVE  /\ Store!Present(op.name)
         /\ LET have == Files[op.name]
                room == IF Len(have) < BufChunks THEN Len(have) ELSE BufChunks
            IN  got = SubSeq(have, 1, room)
<1>1. /\ pc = "cat_chain" /\ op \in Ops /\ Typed /\ slot \in Slots
      /\ dir[slot].name = op.name /\ ReadSoFar /\ Len(got) <= BufChunks
      /\ got \in Seq(Payloads) /\ dir[slot].size \in Nat
  <2>1. Typed /\ dir \in [Slots -> Entries]
    BY GoodEntries DEF Watched, Promised, Inv
  <2>2. QED
    BY <2>1, ConstantsAssumption
    DEF CatEnd, Watched, Promised, Served, Targeted, Typed, TypeOK, LocalsOK,
        Entries
<1>2. op.name # NoName
  BY <1>1, OwnName
<1>3. op.name \in StoredNames /\ Files[op.name] = SlotContent(slot)
  BY <1>1, <1>2 DEF Watched, View, Known
<1>4. Store!Present(op.name)
  BY <1>3 DEF Store!Present, Files
<1>5. BufChunks \in Nat /\ Len(got) \in Nat
  BY <1>1, ConstantsAssumption
<1>6. CASE dir[slot].size = 0
  <2>1. SlotContent(slot) = <<>> /\ got = <<>>
    BY <1>1, <1>6 DEF Watched, View, Known, ReadSoFar
  <2>2. Len(<<>>) = 0 /\ SubSeq(<<>>, 1, 0) = <<>>
    OBVIOUS
  <2>3. (IF 0 < BufChunks THEN 0 ELSE BufChunks) = 0
    BY <1>5
  <2>4. QED
    BY <1>3, <1>4, <2>1, <2>2, <2>3
<1>7. CASE dir[slot].size # 0
  <2>1. PICK n : n = dir[slot].size
    OBVIOUS
  <2>2. PICK d \in Data, c \in [1..n -> Blocks] :
          /\ Trace(blk, dir[slot].start, c, n, d)
          /\ Len(got) <= n
          /\ got = Written(d, Len(got))
          /\ cur = IF Len(got) < n THEN c[Len(got) + 1] ELSE EOC
    BY <1>1, <1>7, <2>1 DEF ReadSoFar
  <2>3. SlotContent(slot) = Written(d, n)
    BY <1>1, <1>7, <2>1, <2>2 DEF Watched, View, Known, Holds
  <2>4. n \in Nat /\ Len(Written(d, n)) = n
    BY <1>1, <2>1, WrittenSequences
  <2>5. Len(got) < n => Len(got) >= BufChunks
    <3>1. ASSUME Len(got) < n, Len(got) < BufChunks PROVE FALSE
      <4>1. Len(got) + 1 \in 1..n
        BY <1>5, <2>4, <3>1
      <4>2. cur \in Blocks
        BY <2>2, <3>1, <4>1
      <4>3. QED
        BY <2>1, <3>1, <4>2 DEF CatEnd, CatMore
    <3>2. QED
      BY <1>5, <3>1
  <2>6. (IF n < BufChunks THEN n ELSE BufChunks) = Len(got)
    BY <1>1, <1>5, <2>2, <2>4, <2>5
  <2>7. Len(got) \in 0..n
    BY <1>5, <2>2, <2>4
  <2>8. SubSeq(Written(d, n), 1, Len(got)) = Written(d, Len(got))
    BY <2>4, <2>7, WrittenSequences
  <2>9. QED
    BY <1>3, <1>4, <2>2, <2>3, <2>4, <2>6, <2>8
<1>8. QED
  BY <1>6, <1>7

LEMMA ReadingMapped ==
  ASSUME Faults = {}, LongNames = {}, Watched, Reading PROVE Mapped
<1>1. /\ pc \in {"cat", "cat_chain"} /\ op.kind = "pfcat" /\ res = "none"
      /\ dir' = dir /\ op \in Ops /\ Typed /\ FALSE \notin ReadOutcomes
      /\ pc = "cat" => got = <<>>
  BY NoFaults
  DEF Reading, CatFind, CatChain, CatEnd, disk, Watched, Promised, Served,
      Asked, Inv, Typed, LocalsOK
<1>2. Files' = Files
  BY <1>1, FilesKept DEF Watched
<1>3. CASE UNCHANGED <<op, res>>
  BY <1>1, <1>3, UnseenMapped
<1>4. CASE CatFind /\ NotFound(op.name) /\ Return(FALSE)
  <2>1. op.name \notin StoredNames
    BY <1>1, <1>4, OwnName DEF Missing, StoredNames
  <2>2. ~Store!Present(op.name)
    BY <2>1 DEF Store!Present, Files
  <2>3. op' = Store!None /\ Answered' = [res |-> "fail", got |-> <<>>]
    BY <1>1, <1>4 DEF CatFind, Return, Store!None, NoOp, Answered
  <2>4. SubSeq(<<>>, 1, 0) = <<>> /\ Len(<<>>) = 0
    OBVIOUS
  <2>5. (IF 0 < BufChunks THEN 0 ELSE BufChunks) = 0
    BY ConstantsAssumption
  <2>6. Store!Read
    BY <1>1, <1>2, <2>2, <2>3, <2>4, <2>5 DEF Store!Read, Store!Answer
  <2>7. QED
    BY <2>6 DEF Mapped, Store!Next
<1>5. CASE CatEnd
  <2>1. Return(got # <<>>) /\ got' = got
    BY <1>5 DEF CatEnd
  <2>2. /\ op' = Store!None
        /\ Answered' = [res |-> IF got # <<>> THEN "ok" ELSE "fail",
                        got |-> got]
    BY <2>1 DEF Return, Store!None, NoOp, Answered
  <2>3. PICK have : have = IF Store!Present(op.name) THEN Files[op.name]
                         ELSE <<>>
    OBVIOUS
  <2>4. PICK room : room = IF Len(have) < BufChunks THEN Len(have)
                         ELSE BufChunks
    OBVIOUS
  <2>5. have = Files[op.name]
    BY <1>5, <2>3, ReadMapped
  <2>6. got = SubSeq(have, 1, room)
    BY <1>5, <2>4, <2>5, ReadMapped
  <2>7. Store!Read
    BY <1>1, <1>2, <2>2, <2>3, <2>4, <2>6 DEF Store!Read, Store!Answer
  <2>8. QED
    BY <2>7 DEF Mapped, Store!Next
<1>6. QED
  BY <1>1, <1>3, <1>4, <1>5 DEF Reading, CatFind, CatChain

LEMMA NextMapped ==
  ASSUME Faults = {}, LongNames = {}
  PROVE  Watched /\ [Next]_vars => Mapped
<1> SUFFICES ASSUME Watched, [Next]_vars PROVE Mapped
  OBVIOUS
<1>1. CASE Boot
  BY <1>1, UnseenMapped DEF Boot, disk
<1>2. CASE Command
  <2>1. /\ dir' = dir /\ op = NoOp /\ op' \in Ops
        /\ res' = "none" /\ got' = <<>>
    BY <1>2 DEF Command, disk, Watched, Promised, Served, Asked, Unasked
  <2>2. Files' = Files
    BY <2>1, FilesKept DEF Watched
  <2>3. Answered' = Store!Silent /\ op = Store!None
    BY <2>1 DEF Answered, Store!Silent, Store!None, NoOp
  <2>4. op' \in Store!Commands
    BY <2>1, NamesFit DEF Ops, PlainOps, WriteOps, Store!Commands
  <2>5. QED
    BY <2>2, <2>3, <2>4 DEF Mapped, Store!Next, Store!Ask
<1>3. CASE Crash
  <2>1. dir' = dir /\ op' = NoOp /\ res' = "none"
    BY <1>3 DEF Crash, Stop, disk
  <2>2. Files' = Files
    BY <2>1, FilesKept DEF Watched
  <2>3. Answered' = Store!Silent /\ op' = Store!None
    BY <2>1 DEF Answered, Store!Silent, Store!None, NoOp
  <2>4. QED
    BY <2>2, <2>3 DEF Mapped, Store!Next, Store!Restart
<1>4. CASE UNCHANGED vars
  BY <1>4, UnseenMapped DEF vars, disk
<1>5. QED
  BY <1>1, <1>2, <1>3, <1>4, MountingMapped, CreatingMapped, WritingMapped,
     DeletingMapped, ReadingMapped
  DEF Next, Handler

LEMMA InitMapped == Init => Store!Init
<1> SUFFICES ASSUME Init PROVE Store!Init
  OBVIOUS
<1>1. StoredNames = {}
  BY DEF Init, StoredNames, NoEntry
<1>2. Files = [n \in {} |-> <<>>]
  BY <1>1 DEF Files
<1>3. QED
  BY <1>2
  DEF Init, Store!Init, Store!None, Store!Silent, NoOp, Answered

(* Without ATA failures, and for names that fit an entry, the block store  *)
(* implements the map of FileStore on every disk: every answer is one the  *)
(* map gives, and no crash or restart, wherever it falls, shows a content  *)
(* nobody wrote, loses a file or touches another one.                      *)
THEOREM StoreImplementsMap ==
  ASSUME Faults = {}, LongNames = {}
  PROVE  Spec => ImplementsFileStore
<1>1. Init => Promised
  BY InitTyped, InitAscending, InitOwned, InitConsistent, InitUnique,
     InitServed
  DEF Promised, Inv
<1>2. Promised /\ [Next]_vars => Promised'
  BY NextPromised
<1>3. Promised /\ Promised' /\ [Next]_vars => [Store!Next]_Store!vars
  <2> SUFFICES ASSUME Promised, Promised', [Next]_vars PROVE Mapped
    BY DEF Mapped
  <2>1. Watched
    BY ViewKnown, ViewKnownNext, NextKeeps DEF Watched, Promised
  <2>2. QED
    BY <2>1, NextMapped
<1>4. QED
  BY <1>1, <1>2, <1>3, InitMapped, PTL
  DEF Spec, ImplementsFileStore, Store!Spec
=============================================================================
