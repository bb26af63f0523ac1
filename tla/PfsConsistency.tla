--------------------------- MODULE PfsConsistency ---------------------------
(***************************************************************************)
(* The theorem that files of Pfs are whole at every moment, when ATA calls *)
(* succeed and the machine may stop between any two of them.               *)
(*                                                                         *)
(* The argument: every entry has a trace, the sequence of its blocks, with *)
(* the chunks of one write in order and 0xFFFF at the end.  A trace stays  *)
(* inside every set of blocks that owns the disk (PfsProofs), and so does  *)
(* the half-built chain of a write; as nothing points to the head of      *)
(* that chain, and to no block twice, a write changes no trace.            *)
(***************************************************************************)
EXTENDS PfsProofs, WellFoundedInduction, FiniteSetTheorems

(***************************************************************************)
(* Induction over an interval, with the set of the indices for which a     *)
(* claim holds in the place of the claim.                                  *)
(***************************************************************************)
Smaller == {p \in Nat \X Nat : p[1] < p[2]}

LEMMA SmallerWellFounded == IsWellFoundedOn(Smaller, Nat)
  BY NatLessThanWellFounded DEF OpToRel, Smaller

LEMMA SmallerPairs == \A m, n \in Nat : m < n => <<m, n>> \in Smaller
  BY DEF Smaller

LEMMA LeastNumber ==
  ASSUME NEW T \in SUBSET Nat, T # {}
  PROVE  \E n \in T : \A m \in T : n <= m
<1>1. PICK n \in T : \A m \in T : ~(<<m, n>> \in Smaller)
  BY SmallerWellFounded, WFMin
<1>2. \A m \in T : ~(m < n)
  BY <1>1, SmallerPairs
<1>3. QED
  BY <1>2

LEMMA IntervalInduction ==
  ASSUME NEW i \in Nat, NEW j \in Nat, NEW T, i <= j => i \in T,
         \A k \in i..j : k < j /\ k \in T => k + 1 \in T
  PROVE  \A k \in i..j : k \in T
<1> SUFFICES ASSUME NEW x \in i..j, x \notin T PROVE FALSE
  OBVIOUS
<1> DEFINE Bad == {k \in i..j : k \notin T}
<1>1. Bad \in SUBSET Nat /\ Bad # {}
  OBVIOUS
<1> HIDE DEF Bad
<1>2. PICK n \in Bad : \A m \in Bad : n <= m
  BY <1>1, LeastNumber
<1> USE DEF Bad
<1>3. n \in i..j /\ n \notin T /\ n # i
  BY <1>2
<1>4. n - 1 \in i..j /\ n - 1 \in T /\ n - 1 < j
  BY <1>2, <1>3
<1>5. QED
  BY <1>3, <1>4

(***************************************************************************)
(* Traces in an array B of blocks.                                         *)
(***************************************************************************)
Path(B, c, m) == \A k \in 1..m : k < m => B[c[k]].next = c[k + 1]
Labelled(B, c, m, d) == \A k \in 1..m : B[c[k]].data = <<d, k>>
Trace(B, b, c, m, d) ==
  /\ c[1] = b /\ Path(B, c, m) /\ Labelled(B, c, m, d)
  /\ B[c[m]].next = EOC

(* No block of e points to x; c and e have no block in common.             *)
Unlinked(B, x, e, n) == \A k \in 1..n : B[e[k]].next # x
Apart(c, m, e, n) == \A k \in 1..m, l \in 1..n : c[k] # e[l]

(* An entry of size n has the n chunks of a write of d.                    *)
Holds(B, e, d) ==
  \E c \in [1..e.size -> Blocks] : Trace(B, e.start, c, e.size, d)

Whole(D, B) ==
  \A s \in Slots : IF D[s].size = 0 THEN D[s].start = 0
                   ELSE \E d \in Data : Holds(B, D[s], d)

LEMMA PathStaysIn ==
  ASSUME NEW B, NEW S \in SUBSET Blocks, Closed(B, S), NEW m \in Nat \ {0},
         NEW c \in [1..m -> Blocks], Path(B, c, m), c[1] \in S
  PROVE  \A k \in 1..m : c[k] \in S
<1> DEFINE T == {k \in 1..m : c[k] \in S}
<1>1. 1 \in T
  OBVIOUS
<1>2. \A k \in 1..m : k < m /\ k \in T => k + 1 \in T
  <2> SUFFICES ASSUME NEW k \in 1..m, k < m, k \in T PROVE k + 1 \in T
    OBVIOUS
  <2>1. k + 1 \in 1..m /\ B[c[k]].next = c[k + 1] /\ c[k + 1] \in Blocks
    BY DEF Path
  <2>2. QED
    BY <2>1 DEF Closed
<1> HIDE DEF T
<1>3. \A k \in 1..m : k \in T
  BY <1>1, <1>2, IntervalInduction
<1>4. QED
  BY <1>3 DEF T

(* Two paths whose heads nothing on the other one points to do not meet.   *)
LEMMA PathsDisjoint ==
  ASSUME NEW B, NEW S \in SUBSET Blocks, LinksDistinct(B, S),
         NEW m \in Nat \ {0}, NEW c \in [1..m -> S], Path(B, c, m),
         NEW n \in Nat \ {0}, NEW e \in [1..n -> S], Path(B, e, n),
         c[1] # e[1], Unlinked(B, c[1], e, n), Unlinked(B, e[1], c, m)
  PROVE  Apart(c, m, e, n)
<1> DEFINE T == {k \in 1..m : \A l \in 1..n : c[k] # e[l]}
<1>0. ASSUME NEW k \in 1..m, NEW l \in 1..n, k # 1, l # 1, c[k] = e[l]
      PROVE  c[k - 1] = e[l - 1]
  <2>1. k - 1 \in 1..m /\ l - 1 \in 1..n /\ k - 1 < m /\ l - 1 < n
    BY <1>0
  <2>2. (k - 1) + 1 = k /\ (l - 1) + 1 = l
    OBVIOUS
  <2>3. B[c[k - 1]].next = c[k] /\ B[e[l - 1]].next = e[l]
    BY <2>1, <2>2 DEF Path
  <2>4. QED
    BY <1>0, <2>1, <2>3 DEF LinksDistinct
<1>1. ASSUME NEW l \in 1..n, c[1] = e[l] PROVE FALSE
  <2>1. l # 1
    BY <1>1
  <2>2. l - 1 \in 1..n /\ l - 1 < n /\ (l - 1) + 1 = l
    BY <2>1
  <2>3. B[e[l - 1]].next = e[l]
    BY <2>2 DEF Path
  <2>4. QED
    BY <1>1, <2>2, <2>3 DEF Unlinked
<1>2. ASSUME NEW k \in 1..m, k # 1, c[k] = e[1] PROVE FALSE
  <2>1. k - 1 \in 1..m /\ k - 1 < m /\ (k - 1) + 1 = k
    BY <1>2
  <2>2. B[c[k - 1]].next = c[k]
    BY <2>1 DEF Path
  <2>3. QED
    BY <1>2, <2>1, <2>2 DEF Unlinked
<1>3. 1 \in T
  BY <1>1
<1>4. \A k \in 1..m : k < m /\ k \in T => k + 1 \in T
  <2> SUFFICES ASSUME NEW k \in 1..m, k < m, k \in T,
                      NEW l \in 1..n, c[k + 1] = e[l]
               PROVE  FALSE
    OBVIOUS
  <2>1. k + 1 \in 1..m /\ k + 1 # 1 /\ (k + 1) - 1 = k
    OBVIOUS
  <2>2. l # 1
    BY <2>1, <1>2
  <2>3. c[k] = e[l - 1] /\ l - 1 \in 1..n
    BY <2>1, <2>2, <1>0
  <2>4. QED
    BY <2>3
<1> HIDE DEF T
<1>5. \A k \in 1..m : k \in T
  BY <1>3, <1>4, IntervalInduction
<1>6. QED
  BY <1>5 DEF T, Apart

LEMMA TraceKept ==
  ASSUME NEW B, NEW C, NEW m \in Nat \ {0}, NEW c, NEW b, NEW d,
         Trace(B, b, c, m, d), \A k \in 1..m : C[c[k]] = B[c[k]]
  PROVE  Trace(C, b, c, m, d)
  BY DEF Trace, Path, Labelled

(***************************************************************************)
(* The invariant.                                                          *)
(***************************************************************************)

(* The chain of a write as far as it is linked: m blocks, first to prev.   *)
Built(m) ==
  IF m = 0 THEN first = 0 /\ prev = 0
  ELSE \E c \in [1..m -> bitmap] :
         Trace(blk, first, c, m, op.data) /\ c[m] = prev

Building ==
  \/ pc = "w_loop" /\ Built(done)
  \/ /\ pc = "w_link" /\ done > 1
     /\ Built(done - 1)
     /\ blk[cur] = Fresh(op.data, done)

Consistent ==
  /\ Whole(dir, blk)
  /\ pc \in Filling => Building
  /\ pc \notin Filling /\ after # "fail" => done = 0

LEMMA InitConsistent == Init => Consistent
  BY DEF Init, Consistent, Whole, NoEntry, Filling

(* Entries that a step drops or creates have no chain.                     *)
LEMMA WholeWithEmptied ==
  ASSUME NEW D, NEW B, NEW E, Whole(D, B),
         \A s \in Slots : E[s] = D[s] \/ (E[s].size = 0 /\ E[s].start = 0)
  PROVE  Whole(E, B)
  BY DEF Whole, Holds

(* What the entries hold in B, they hold in C.                             *)
Keeps(B, C) ==
  \A s \in Slots, d \in Data :
    dir[s].size # 0 /\ Holds(B, dir[s], d) => Holds(C, dir[s], d)

LEMMA BlocksKept ==
  ASSUME NEW B, NEW C, dir \in [Slots -> Entries],
         \A s \in Slots, d \in Data : dir[s].size # 0 =>
           \A c \in [1..dir[s].size -> Blocks] :
             Trace(B, dir[s].start, c, dir[s].size, d)
               => \A k \in 1..dir[s].size : C[c[k]] = B[c[k]]
  PROVE  Keeps(B, C)
<1> SUFFICES ASSUME NEW s \in Slots, NEW d \in Data,
                    dir[s].size # 0, Holds(B, dir[s], d)
             PROVE  Holds(C, dir[s], d)
  BY DEF Keeps
<1>1. dir[s].size \in Nat \ {0}
  BY ConstantsAssumption DEF Entries
<1>2. PICK c \in [1..dir[s].size -> Blocks] :
        Trace(B, dir[s].start, c, dir[s].size, d)
  BY DEF Holds
<1>3. Trace(C, dir[s].start, c, dir[s].size, d)
  BY <1>1, <1>2, TraceKept
<1>4. QED
  BY <1>2, <1>3 DEF Holds

LEMMA WholeWithBlocks ==
  ASSUME NEW B, NEW C, Whole(dir, B), Keeps(B, C)
  PROVE  Whole(dir, C)
  BY DEF Whole, Keeps

(* Where the bitmap owns the disk, it holds the trace of every entry.      *)
LEMMA TracesMarked ==
  ASSUME NEW D, NEW B, NEW S \in SUBSET Blocks, Owned(D, B, S),
         NEW s \in Slots, NEW d, NEW m \in Nat \ {0},
         NEW c \in [1..m -> Blocks], Trace(B, D[s].start, c, m, d)
  PROVE  c \in [1..m -> S]
<1>1. c[1] \in Blocks /\ c[1] = D[s].start /\ Path(B, c, m)
  BY DEF Trace
<1>2. c[1] \in S /\ Closed(B, S)
  BY <1>1 DEF Owned, RootsIn
<1>3. \A k \in 1..m : c[k] \in S
  BY <1>1, <1>2, PathStaysIn
<1>4. QED
  BY <1>3

(* Steps that neither write a data block nor fill an entry.                *)
LEMMA QuietConsistent ==
  ASSUME Consistent, blk' = blk,
         \A s \in Slots : dir'[s] = dir[s] \/ dir'[s] = NoEntry
                            \/ dir'[s] = Created(op.name),
         pc' \notin Filling, after' # "fail" => done' = 0
  PROVE  Consistent'
<1>1. Whole(dir', blk)
  BY WholeWithEmptied DEF Consistent, NoEntry, Created
<1>2. QED
  BY <1>1 DEF Consistent

LEMMA MountingConsistent ==
  ASSUME Faults = {}, Inv, Consistent, Mounting PROVE Consistent'
<1>1. pc \notin Filling /\ pc' \notin Filling /\ after # "fail"
  BY DEF Mounting, MountRead, FormatSuper, FormatDir, RebuildRead, RebuildSlot,
         RebuildChain, RebuildEnd, Mounted, Filling, Inv, Ascending,
         WritePosition
<1>2. UNCHANGED <<blk, writing, after>>
  BY DEF Mounting, MountRead, FormatSuper, FormatDir, RebuildRead, RebuildSlot,
         RebuildChain, RebuildEnd, disk, memory
<1>3. \A s \in Slots : dir'[s] = dir[s] \/ dir'[s] = NoEntry
  BY DEF Mounting, MountRead, FormatSuper, FormatDir, RebuildRead, RebuildSlot,
         RebuildChain, RebuildEnd, disk, memory
<1>4. QED
  BY <1>1, <1>2, <1>3, QuietConsistent DEF Consistent, writing

LEMMA CreatingConsistent ==
  ASSUME Inv, Consistent, Creating PROVE Consistent'
<1>1. PICK ok \in BOOLEAN :
        pc = "create" /\ blk' = blk /\ CreateReturns(ok)
  BY DEF Creating, CreateRefused, CreateEntry, Reported, disk
<1>2. \A s \in Slots : dir'[s] = dir[s] \/ dir'[s] = Created(op.name)
  BY RawTyped DEF Creating, CreateRefused, CreateEntry, disk, Inv
<1>3. pc' \notin Filling /\ done' = 0
  BY <1>1
  DEF CreateReturns, Return, NoLocals, writing, Filling, Consistent, Inv,
      Ascending, WritePosition
<1>4. QED
  BY <1>1, <1>2, <1>3, QuietConsistent

LEMMA DeletingConsistent ==
  ASSUME Faults = {}, Inv, Consistent, Deleting PROVE Consistent'
<1>1. blk' = blk /\ \A s \in Slots : dir'[s] = dir[s] \/ dir'[s] = NoEntry
  BY RawTyped DEF Deleting, DelFind, DelChain, DelEntry, Cleared, disk, Inv
<1>2. pc \notin Filling /\ (after # "fail" => done = 0)
  BY DEF Deleting, DelFind, DelChain, DelEntry, Filling, Consistent
<1>3. pc' \notin Filling /\ (after' # "fail" => done' = 0)
  <2>1. CASE \E ok \in BOOLEAN : DelReturns(ok)
    BY <1>2, <2>1 DEF DelReturns, Return, NoLocals, writing, Filling
  <2>2. CASE pc' \in {"del_chain", pc} /\ UNCHANGED <<writing, after>>
    BY <1>2, <2>2 DEF writing, Filling
  <2>3. QED
    BY <2>1, <2>2 DEF Deleting, DelFind, DelChain, DelEntry, Reported
<1>4. QED
  BY <1>1, <1>3, QuietConsistent

LEMMA ReadingConsistent ==
  ASSUME Inv, Consistent, Reading PROVE Consistent'
<1>1. UNCHANGED <<dir, blk>> /\ pc' \notin Filling
  BY DEF Reading, CatFind, CatChain, CatEnd, Return, disk, Filling
<1>2. pc \notin Filling /\ after # "fail"
  BY DEF Reading, CatFind, CatChain, CatEnd, Filling, Inv, Ascending,
         WritePosition
<1>3. done' = 0
  BY <1>2
  DEF Reading, CatFind, CatChain, CatEnd, Return, NoLocals, writing, Consistent
<1>4. QED
  BY <1>1, <1>3, QuietConsistent

(* The chain in hand meets the trace of no entry.                          *)
LEMMA BuiltApart ==
  ASSUME Inv, pc \in Filling, NEW m \in Nat \ {0}, NEW c \in [1..m -> bitmap],
         Trace(blk, first, c, m, op.data),
         NEW s \in Slots, NEW d, NEW n \in Nat \ {0},
         NEW e \in [1..n -> Blocks], Trace(blk, dir[s].start, e, n, d)
  PROVE  Apart(c, m, e, n)
<1>1. Owned(dir, blk, bitmap) /\ bitmap \in SUBSET Blocks
  BY DEF Inv, Ownership, Serving, Filling, Typed, TypeOK
<1>2. e \in [1..n -> bitmap]
  BY <1>1, TracesMarked
<1>3. c[1] = first /\ e[1] = dir[s].start /\ first \in Blocks
      /\ e[1] \in Blocks
  BY <1>1 DEF Trace
<1>4. Loose(dir, blk, bitmap, first)
  BY <1>3, BlockNumbers DEF Inv, Ownership, Unattached
<1>5. Unlinked(blk, c[1], e, n)
  BY <1>2, <1>3, <1>4 DEF Loose, Unlinked
<1>6. c[1] # e[1] /\ Unlinked(blk, e[1], c, m)
  BY <1>1, <1>3, <1>4 DEF Loose, Owned, RootsUnlinked, Unlinked
<1>7. LinksDistinct(blk, bitmap) /\ Path(blk, c, m) /\ Path(blk, e, n)
  BY <1>1 DEF Owned, Trace
<1>8. QED
  BY <1>1, <1>2, <1>5, <1>6, <1>7, PathsDisjoint

LEMMA WBlockConsistent ==
  ASSUME Faults = {}, Inv, Consistent, WBlock
  PROVE  Consistent' /\ Keeps(blk, blk')
<1>1. PICK b \in Blocks :
        /\ FirstFree(b)
        /\ bitmap' = bitmap \cup {b}
        /\ first' = IF first = 0 THEN b ELSE first
        /\ blk' = [blk EXCEPT ![b] = Fresh(op.data, done + 1)]
        /\ done' = done + 1
        /\ IF prev = 0
           THEN prev' = b /\ UNCHANGED <<cur, pc>>
           ELSE cur' = b /\ pc' = "w_link" /\ UNCHANGED prev
  <2>1. WriteOutcomes = {"done"} /\ Reported("done")
    BY NoFaults
  <2>2. QED
    BY <2>1 DEF WBlock, Allocated
<1>2. /\ b \in Blocks \ bitmap /\ pc = "w_loop" /\ UNCHANGED <<dir, op>>
      /\ dir \in [Slots -> Entries] /\ blk \in [Blocks -> BlockSectors]
      /\ bitmap \in SUBSET Blocks /\ done \in Nat
  BY <1>1, GoodEntries, ConstantsAssumption
  DEF WBlock, FirstFree, Inv, Typed, TypeOK
<1>3. Owned(dir, blk, bitmap)
  BY <1>2 DEF Inv, Ownership, Serving
<1>4. \A a \in bitmap : blk'[a] = blk[a]
  BY <1>1, <1>2
<1>5. Keeps(blk, blk') /\ Whole(dir, blk')
  <2>1. \A s \in Slots, d \in Data : dir[s].size # 0 =>
          \A c \in [1..dir[s].size -> Blocks] :
            Trace(blk, dir[s].start, c, dir[s].size, d)
              => \A k \in 1..dir[s].size : blk'[c[k]] = blk[c[k]]
    <3>0. SUFFICES ASSUME NEW s \in Slots, NEW d \in Data, dir[s].size # 0,
                          NEW c \in [1..dir[s].size -> Blocks],
                          Trace(blk, dir[s].start, c, dir[s].size, d)
                   PROVE  \A k \in 1..dir[s].size : blk'[c[k]] = blk[c[k]]
      OBVIOUS
    <3>1. dir[s].size \in Nat \ {0}
      BY <1>2, <3>0, ConstantsAssumption DEF Entries
    <3>2. c \in [1..dir[s].size -> bitmap]
      BY <1>2, <1>3, <3>0, <3>1, TracesMarked
    <3>3. QED
      BY <1>4, <3>2
  <2>2. QED
    BY <1>2, <2>1, BlocksKept, WholeWithBlocks DEF Consistent
<1>6. Built(done)
  BY <1>2 DEF Consistent, Building, Filling
<1>7. CASE prev = 0
  <2>1. done = 0 /\ first = 0
    BY <1>2, <1>6, <1>7, BlockNumbers DEF Built
  <2>2. first' = b /\ prev' = b /\ done' = 1 /\ pc' = "w_loop"
    BY <1>1, <1>2, <1>7, <2>1
  <2>3. blk'[b] = Fresh(op.data, 1)
    BY <1>1, <1>2, <2>1
  <2>4. PICK c : c = [k \in 1..1 |-> b]
    OBVIOUS
  <2>5. c \in [1..1 -> bitmap'] /\ c[1] = b
    BY <1>1, <2>4
  <2>6. Trace(blk', b, c, 1, op.data)
    BY <2>3, <2>5 DEF Trace, Path, Labelled, Fresh
  <2>7. Built(done)'
    BY <1>2, <2>2, <2>5, <2>6 DEF Built
  <2>8. QED
    BY <1>2, <1>5, <2>2, <2>7 DEF Consistent, Building, Filling
<1>8. CASE prev # 0
  <2>1. done \in Nat \ {0} /\ first # 0
    BY <1>2, <1>6, <1>8 DEF Built, Inv, Ownership, Filling
  <2>2. PICK c \in [1..done -> bitmap] :
          Trace(blk, first, c, done, op.data) /\ c[done] = prev
    BY <1>6, <2>1 DEF Built
  <2>3. Trace(blk', first, c, done, op.data)
    BY <1>4, <2>1, <2>2, TraceKept
  <2>4. c \in [1..done -> bitmap']
    BY <1>1
  <2>5. /\ pc' = "w_link" /\ cur' = b /\ prev' = prev /\ first' = first
        /\ done' = done + 1
    BY <1>1, <1>8, <2>1
  <2>6. Built(done - 1)'
    BY <1>2, <2>1, <2>2, <2>3, <2>4, <2>5 DEF Built
  <2>7. blk'[cur'] = Fresh(op.data, done')
    BY <1>1, <1>2, <2>5
  <2>8. QED
    BY <1>2, <1>5, <2>1, <2>5, <2>6, <2>7 DEF Consistent, Building, Filling
<1>9. QED
  BY <1>7, <1>8

LEMMA WLinkConsistent ==
  ASSUME Faults = {}, Inv, Consistent, WLink
  PROVE  Consistent' /\ Keeps(blk, blk')
<1>1. /\ blk' = [blk EXCEPT ![prev] = Linked(cur, blk[prev].data)]
      /\ UNCHANGED <<dir, bitmap, op, first, done>>
      /\ prev' = cur /\ pc = "w_link" /\ pc' = "w_loop"
  <2>1. PICK w \in WriteOutcomes, ok \in ReadOutcomes :
        \E p \in IF ok THEN {blk[prev].data} ELSE Payloads :
          blk' = IF w = "done" THEN [blk EXCEPT ![prev] = Linked(cur, p)]
                 ELSE blk
    BY DEF WLink
  <2>2. w = "done" /\ ok = TRUE
    BY NoFaults
  <2>3. QED
    BY <2>1, <2>2 DEF WLink, memory
<1>2. /\ dir \in [Slots -> Entries] /\ blk \in [Blocks -> BlockSectors]
      /\ bitmap \in SUBSET Blocks /\ done \in Nat
      /\ prev \in bitmap /\ cur \in bitmap /\ cur # first
      /\ Loose(dir, blk, bitmap, cur)
  BY <1>1, BlockNumbers, GoodEntries, ConstantsAssumption
  DEF Inv, Typed, TypeOK, LocalsOK, Ownership, Unattached, Filling
<1>3. /\ done > 1 /\ Built(done - 1)
      /\ blk[cur] = Fresh(op.data, done)
  BY <1>1 DEF Consistent, Building, Filling
<1> DEFINE m == done - 1
<1>4. m \in Nat \ {0} /\ m + 1 = done
  BY <1>2, <1>3
<1>5. PICK a \in [1..m -> bitmap] :
        Trace(blk, first, a, m, op.data) /\ a[m] = prev
  BY <1>3, <1>4 DEF Built
<1> HIDE DEF m
<1>6. \A k \in 1..m : a[k] # cur
  <2>1. ASSUME NEW k \in 1..m, a[k] = cur PROVE FALSE
    <3>1. k # 1
      BY <1>2, <1>5, <2>1 DEF Trace
    <3>2. k - 1 \in 1..m /\ k - 1 < m /\ (k - 1) + 1 = k
      BY <1>4, <2>1, <3>1
    <3>3. blk[a[k - 1]].next = a[k]
      BY <1>5, <3>2 DEF Trace, Path
    <3>4. QED
      BY <1>2, <1>5, <2>1, <3>2, <3>3 DEF Loose
  <2>2. QED
    BY <2>1
<1>7. \A k \in 1..m : k < m => a[k] # prev
  <2>1. ASSUME NEW k \in 1..m, k < m, a[k] = prev PROVE FALSE
    <3>1. k + 1 \in 1..m /\ a[k + 1] \in Blocks
      BY <1>2, <1>4, <2>1
    <3>2. blk[prev].next = a[k + 1] /\ blk[prev].next = EOC
      BY <1>5, <2>1 DEF Trace, Path
    <3>3. QED
      BY <3>1, <3>2, BlockNumbers
  <2>2. QED
    BY <2>1
<1>8. /\ \A b \in Blocks : b # prev => blk'[b] = blk[b]
      /\ blk'[prev].next = cur /\ blk'[prev].data = blk[prev].data
  BY <1>1, <1>2 DEF Linked
<1>9. PICK e : e = [k \in 1..done |-> IF k = done THEN cur ELSE a[k]]
  OBVIOUS
<1>10. /\ e \in [1..done -> bitmap]
       /\ e[done] = cur /\ \A k \in 1..m : e[k] = a[k] /\ k # done
  BY <1>2, <1>4, <1>9
<1>11. Trace(blk', first, e, done, op.data)
  <2>1. e[1] = first
    BY <1>4, <1>5, <1>10 DEF Trace
  <2>2. Path(blk', e, done)
    <3> SUFFICES ASSUME NEW k \in 1..done, k < done
                 PROVE  blk'[e[k]].next = e[k + 1]
      BY DEF Path
    <3>1. k \in 1..m /\ e[k] = a[k] /\ a[k] \in Blocks
      BY <1>2, <1>4, <1>10
    <3>2. CASE k = m
      BY <1>4, <1>5, <1>8, <1>10, <3>1, <3>2
    <3>3. CASE k # m
      <4>1. k < m /\ k + 1 \in 1..m
        BY <1>4, <3>1, <3>3
      <4>2. blk'[a[k]] = blk[a[k]] /\ e[k + 1] = a[k + 1]
        BY <1>7, <1>8, <1>10, <3>1, <4>1
      <4>3. QED
        BY <1>5, <3>1, <4>1, <4>2 DEF Trace, Path
    <3>4. QED
      BY <3>2, <3>3
  <2>3. Labelled(blk', e, done, op.data)
    <3> SUFFICES ASSUME NEW k \in 1..done
                 PROVE  blk'[e[k]].data = <<op.data, k>>
      BY DEF Labelled
    <3>1. CASE k = done
      BY <1>2, <1>3, <1>8, <1>10, <3>1 DEF Fresh
    <3>2. CASE k # done
      <4>1. k \in 1..m /\ e[k] = a[k] /\ a[k] \in Blocks
        BY <1>2, <1>4, <1>10, <3>2
      <4>2. blk[a[k]].data = <<op.data, k>>
        BY <1>5, <4>1 DEF Trace, Labelled
      <4>3. blk'[a[k]].data = blk[a[k]].data
        BY <1>8, <4>1
      <4>4. QED
        BY <4>1, <4>2, <4>3
    <3>3. QED
      BY <3>1, <3>2
  <2>4. blk'[e[done]].next = EOC
    <3>1. cur # prev
      BY <1>4, <1>5, <1>6
    <3>2. QED
      BY <1>2, <1>3, <1>8, <1>10, <3>1 DEF Fresh
  <2>5. QED
    BY <2>1, <2>2, <2>3, <2>4 DEF Trace
<1>12. Keeps(blk, blk') /\ Whole(dir, blk')
  <2>1. \A s \in Slots, d \in Data : dir[s].size # 0 =>
          \A c \in [1..dir[s].size -> Blocks] :
            Trace(blk, dir[s].start, c, dir[s].size, d)
              => \A k \in 1..dir[s].size : blk'[c[k]] = blk[c[k]]
    <3>0. SUFFICES ASSUME NEW s \in Slots, NEW d \in Data, dir[s].size # 0,
                          NEW c \in [1..dir[s].size -> Blocks],
                          Trace(blk, dir[s].start, c, dir[s].size, d)
                   PROVE  \A k \in 1..dir[s].size : blk'[c[k]] = blk[c[k]]
      OBVIOUS
    <3>1. dir[s].size \in Nat \ {0}
      BY <1>2, <3>0, ConstantsAssumption DEF Entries
    <3>2. pc \in Filling
      BY <1>1 DEF Filling
    <3>3. Apart(a, m, c, dir[s].size)
      BY <1>4, <1>5, <3>0, <3>1, <3>2, BuiltApart
    <3>4. \A l \in 1..dir[s].size : c[l] # prev
      BY <1>4, <1>5, <3>3 DEF Apart
    <3>5. QED
      BY <1>8, <3>0, <3>4
  <2>2. dir \in [Slots -> Entries] /\ Whole(dir, blk)
    BY <1>2 DEF Consistent
  <2>3. QED
    BY <2>1, <2>2, BlocksKept, WholeWithBlocks
<1>13. QED
  <2>0. /\ e \in [1..done' -> bitmap'] /\ e[done'] = prev' /\ done' # 0
        /\ Trace(blk', first', e, done', op'.data)
    BY <1>1, <1>3, <1>10, <1>11
  <2>1. Built(done)'
    BY <2>0 DEF Built
  <2>2. QED
    BY <1>1, <1>12, <2>1 DEF Consistent, Building, Filling

LEMMA WDirConsistent ==
  ASSUME Faults = {}, Inv, Consistent, WDir PROVE Consistent'
<1>1. dir' = [dir EXCEPT ![slot] = Filled(dir[slot])]
  <2>1. PICK w \in WriteOutcomes, ok \in ReadOutcomes :
        \E d \in IF ok THEN {dir} ELSE Garbage \cup {dir} :
          dir' = IF w = "done"
                 THEN [d EXCEPT ![slot] = Filled(d[slot])] ELSE dir
    BY DEF WDir
  <2>2. w = "done" /\ ok = TRUE
    BY NoFaults
  <2>3. QED
    BY <2>1, <2>2
<1>2. /\ pc = "w_loop" /\ pc' = "idle" /\ done' = 0 /\ blk' = blk
      /\ done = op.n /\ op.n \in Nat /\ op.data \in Data /\ slot \in Slots
      /\ dir \in [Slots -> Entries] /\ bitmap \in SUBSET Blocks
  BY GoodEntries, ConstantsAssumption
  DEF WDir, Return, NoLocals, Inv, Typed, TypeOK, LocalsOK, WriteOps
<1>3. Built(op.n)
  BY <1>2 DEF Consistent, Building, Filling
<1>4. dir'[slot].size = op.n /\ dir'[slot].start = first
  BY <1>1, <1>2 DEF Filled, Entries
<1>5. op.n # 0 => Holds(blk, dir'[slot], op.data)
  BY <1>2, <1>3, <1>4 DEF Built, Holds
<1>6. IF dir'[slot].size = 0 THEN dir'[slot].start = 0
      ELSE \E d \in Data : Holds(blk, dir'[slot], d)
  BY <1>2, <1>3, <1>4, <1>5 DEF Built
<1>7. \A s \in Slots : s # slot => dir'[s] = dir[s]
  BY <1>1, <1>2
<1>8. Whole(dir', blk)
  BY <1>6, <1>7 DEF Whole, Consistent
<1>9. QED
  BY <1>2, <1>8 DEF Consistent, Filling

LEMMA WritingConsistent ==
  ASSUME Faults = {}, Inv, Consistent, Writing PROVE Consistent'
<1>1. CASE WFind
  <2>1. /\ UNCHANGED <<dir, blk>> /\ pc = "w_find" /\ done = 0
        /\ prev = 0 /\ first = 0
    BY <1>1
    DEF WFind, disk, Consistent, Filling, Inv, Ascending, WritePosition
  <2>2. CASE pc' = "w_loop" /\ UNCHANGED writing
    BY <2>1, <2>2 DEF writing, Consistent, Building, Built, Filling
  <2>3. CASE Return(FALSE)
    BY <2>1, <2>3, QuietConsistent DEF Return, NoLocals, Filling
  <2>4. QED
    BY <1>1, <2>2, <2>3 DEF WFind
<1>2. CASE WFull
  BY <1>2, QuietConsistent DEF WFull, disk, Filling
<1>3. QED
  BY <1>1, <1>2, WBlockConsistent, WLinkConsistent, WDirConsistent DEF Writing

LEMMA NextConsistent ==
  ASSUME Faults = {} PROVE Inv /\ Consistent /\ [Next]_vars => Consistent'
<1> SUFFICES ASSUME Inv, Consistent, [Next]_vars PROVE Consistent'
  OBVIOUS
<1>1. CASE Boot
  BY <1>1, QuietConsistent
  DEF Boot, disk, writing, Filling, Consistent, Inv, Ascending, WritePosition
<1>2. CASE Command
  <2>1. /\ pc = "idle" /\ after # "fail" /\ UNCHANGED <<dir, blk, done>>
        /\ pc' \in {"create", "cat", "delete"}
    BY <1>2
    DEF Command, disk, writing, Inv, Ascending, WritePosition
  <2>2. QED
    BY <2>1, QuietConsistent DEF Filling, Consistent
<1>3. CASE Crash
  BY <1>3, QuietConsistent DEF Crash, Stop, NoLocals, disk, Filling
<1>4. CASE UNCHANGED vars
  BY <1>4
  DEF vars, disk, memory, walk, writing, Consistent, Building, Built
<1>5. QED
  BY <1>1, <1>2, <1>3, <1>4, MountingConsistent, CreatingConsistent,
     WritingConsistent, DeletingConsistent, ReadingConsistent
  DEF Next, Handler

(***************************************************************************)
(* The chain of an entry is its trace, and 0xFFFF after it.                *)
(***************************************************************************)
IsChain(c, b, n) ==
  c = [k \in 0..n |-> IF k = 0 THEN b
                      ELSE IF c[k - 1] \in Blocks THEN blk[c[k - 1]].next
                      ELSE 0]

LEMMA ChainGrows ==
  ASSUME NEW b, NEW n \in Nat, NEW c, IsChain(c, b, n)
  PROVE  \E d : IsChain(d, b, n + 1)
<1> DEFINE d == [k \in 0..(n + 1) |->
                   IF k = n + 1
                   THEN IF c[n] \in Blocks THEN blk[c[n]].next ELSE 0
                   ELSE c[k]]
           f == [k \in 0..(n + 1) |->
                   IF k = 0 THEN b
                   ELSE IF d[k - 1] \in Blocks THEN blk[d[k - 1]].next
                   ELSE 0]
<1>1. \A k \in 0..n : d[k] = c[k] /\ k \in 0..(n + 1)
  OBVIOUS
<1>2. ASSUME NEW k \in 0..(n + 1) PROVE d[k] = f[k]
  <2>1. CASE k = 0
    BY <2>1, <1>1 DEF IsChain
  <2>2. CASE k # 0 /\ k # n + 1
    <3>1. k \in 0..n /\ k - 1 \in 0..n
      BY <2>2
    <3>2. d[k] = c[k] /\ d[k - 1] = c[k - 1]
      BY <1>1, <3>1
    <3>3. c[k] = IF c[k - 1] \in Blocks THEN blk[c[k - 1]].next ELSE 0
      BY <2>2, <3>1 DEF IsChain
    <3>4. QED
      BY <2>2, <3>2, <3>3
  <2>3. CASE k = n + 1
    <3>1. k # 0 /\ k - 1 = n /\ d[n] = c[n]
      BY <1>1, <2>3
    <3>2. QED
      BY <2>3, <3>1
  <2>4. QED
    BY <2>1, <2>2, <2>3
<1>3. d = f
  BY <1>2
<1>4. QED
  BY <1>3 DEF IsChain

LEMMA ChainExists ==
  ASSUME NEW b PROVE IsChain(Chain(b), b, MaxChunks)
<1> DEFINE T == {n \in Nat : \E c : IsChain(c, b, n)}
<1>1. 0 \in T
  <2>1. PICK c : c = [k \in 0..0 |-> b]
    OBVIOUS
  <2>2. c = [k \in 0..0 |-> IF k = 0 THEN b
                           ELSE IF c[k - 1] \in Blocks
                                THEN blk[c[k - 1]].next ELSE 0]
    BY <2>1
  <2>3. QED
    BY <2>2 DEF IsChain
<1>2. \A n \in 0..MaxChunks : n < MaxChunks /\ n \in T => n + 1 \in T
  BY ChainGrows
<1> HIDE DEF T
<1>3. \A n \in 0..MaxChunks : n \in T
  BY <1>1, <1>2, IntervalInduction, ConstantsAssumption
<1>4. PICK c : IsChain(c, b, MaxChunks)
  BY <1>3, ConstantsAssumption DEF T
<1>5. QED
  BY <1>4 DEF Chain, IsChain

LEMMA ChainValues ==
  ASSUME NEW b
  PROVE  \A k \in 0..MaxChunks :
           Chain(b)[k] =
             IF k = 0 THEN b
             ELSE IF Chain(b)[k - 1] \in Blocks
                  THEN blk[Chain(b)[k - 1]].next ELSE 0
<1>1. PICK h : h = Chain(b)
  OBVIOUS
<1>2. IsChain(h, b, MaxChunks)
  BY <1>1, ChainExists
<1>3. \A k \in 0..MaxChunks :
        h[k] = IF k = 0 THEN b
               ELSE IF h[k - 1] \in Blocks THEN blk[h[k - 1]].next ELSE 0
  BY <1>2 DEF IsChain
<1>4. QED
  BY <1>1, <1>3

LEMMA ChainFollows ==
  ASSUME NEW b, NEW m \in 1..MaxChunks, NEW c \in [1..m -> Blocks], NEW d,
         Trace(blk, b, c, m, d)
  PROVE  /\ \A k \in 1..m : Chain(b)[k - 1] = c[k]
         /\ Chain(b)[m] = EOC
<1> DEFINE h == Chain(b)
           T == {k \in 1..m : h[k - 1] = c[k]}
<1>1. \A k \in 0..MaxChunks :
        h[k] = IF k = 0 THEN b
               ELSE IF h[k - 1] \in Blocks THEN blk[h[k - 1]].next ELSE 0
  BY ChainValues
<1>2. m \in Nat /\ m <= MaxChunks
  BY ConstantsAssumption
<1> HIDE DEF h
<1>3. 1 \in T
  BY <1>1, <1>2, ConstantsAssumption DEF Trace
<1>4. \A k \in 1..m : k < m /\ k \in T => k + 1 \in T
  <2> SUFFICES ASSUME NEW k \in 1..m, k < m, k \in T PROVE k + 1 \in T
    OBVIOUS
  <2>1. k \in 0..MaxChunks /\ k # 0 /\ k + 1 \in 1..m
    BY <1>2, ConstantsAssumption
  <2>2. h[k - 1] = c[k] /\ c[k] \in Blocks /\ blk[c[k]].next = c[k + 1]
    BY DEF Trace, Path
  <2>3. h[k] = c[k + 1]
    BY <1>1, <2>1, <2>2
  <2>4. QED
    BY <2>1, <2>3
<1> HIDE DEF T
<1>5. \A k \in 1..m : k \in T
  BY <1>2, <1>3, <1>4, IntervalInduction
<1>6. \A k \in 1..m : h[k - 1] = c[k]
  BY <1>5 DEF T
<1>7. h[m] = EOC
  <2>1. m \in 0..MaxChunks /\ m # 0 /\ m \in 1..m
    BY <1>2, ConstantsAssumption
  <2>2. h[m - 1] = c[m] /\ c[m] \in Blocks /\ blk[c[m]].next = EOC
    BY <1>6, <2>1 DEF Trace
  <2>3. QED
    BY <1>1, <2>1, <2>2
<1>8. QED
  BY <1>6, <1>7 DEF h

(* The traces of two entries do not meet.                                  *)
LEMMA FilesApart ==
  ASSUME NEW D, NEW B, NEW S \in SUBSET Blocks, Owned(D, B, S),
         NEW s \in Slots, NEW d, NEW m \in Nat \ {0},
         NEW c \in [1..m -> Blocks], Trace(B, D[s].start, c, m, d),
         NEW t \in Slots \ {s}, NEW f, NEW n \in Nat \ {0},
         NEW e \in [1..n -> Blocks], Trace(B, D[t].start, e, n, f)
  PROVE  Apart(c, m, e, n)
<1>1. c \in [1..m -> S] /\ e \in [1..n -> S]
  BY TracesMarked
<1>2. c[1] = D[s].start /\ e[1] = D[t].start /\ Path(B, c, m) /\ Path(B, e, n)
      /\ c[1] \in Blocks /\ e[1] \in Blocks
  BY DEF Trace
<1>3. c[1] # e[1] /\ LinksDistinct(B, S)
  BY <1>1, <1>2 DEF Owned, RootsDistinct
<1>4. Unlinked(B, c[1], e, n)
  BY <1>1, <1>2 DEF Owned, RootsUnlinked, Unlinked
<1>5. Unlinked(B, e[1], c, m)
  BY <1>1, <1>2 DEF Owned, RootsUnlinked, Unlinked
<1>6. QED
  BY <1>1, <1>2, <1>3, <1>4, <1>5, PathsDisjoint

LEMMA ConsistentFiles ==
  ASSUME Faults = {}, Typed, NEW R \in SUBSET Blocks, DiskOwned(R),
         Consistent, Data # {}
  PROVE  CrashConsistent
<1>1. /\ dir \in [Slots -> Entries]
      /\ \A s \in Slots : dir[s].size \in 0..MaxChunks
  BY GoodEntries DEF Entries
<1>2. Owned(dir, blk, R)
  BY DEF DiskOwned
<1>3. ASSUME NEW s \in Slots, dir[s].size # 0
      PROVE  \E d \in Data, c \in [1..dir[s].size -> Blocks] :
               Trace(blk, dir[s].start, c, dir[s].size, d)
  BY <1>3 DEF Consistent, Whole, Holds
<1> SUFFICES ASSUME NEW s \in Slots
             PROVE
    LET c == Chain(dir[s].start)
        size == dir[s].size
    IN  /\ c[size] = IF size = 0 THEN 0 ELSE EOC
        /\ \E d \in Data : \A k \in 1..size :
             c[k - 1] \in Blocks /\ blk[c[k - 1]].data = <<d, k>>
        /\ \A t \in Slots \ {s} : \A k \in 1..size, l \in 1..dir[t].size :
             c[k - 1] # Chain(dir[t].start)[l - 1]
  BY DEF CrashConsistent
<1>4. CASE dir[s].size = 0
  <2>1. Chain(dir[s].start)[0] = dir[s].start
    BY ChainValues, ConstantsAssumption
  <2>2. dir[s].start = 0
    BY <1>4 DEF Consistent, Whole
  <2>3. PICK d \in Data : TRUE
    OBVIOUS
  <2>4. 1..dir[s].size = {}
    BY <1>4
  <2>5. QED
    BY <1>4, <2>1, <2>2, <2>3, <2>4
<1>5. CASE dir[s].size # 0
  <2>1. dir[s].size \in 1..MaxChunks
    BY <1>1, <1>5, ConstantsAssumption
  <2>2. PICK d \in Data, c \in [1..dir[s].size -> Blocks] :
          Trace(blk, dir[s].start, c, dir[s].size, d)
    BY <1>3, <1>5
  <2>3. /\ \A k \in 1..dir[s].size : Chain(dir[s].start)[k - 1] = c[k]
        /\ Chain(dir[s].start)[dir[s].size] = EOC
    BY <2>1, <2>2, ChainFollows
  <2>4. \A k \in 1..dir[s].size :
          c[k] \in Blocks /\ blk[c[k]].data = <<d, k>>
    BY <2>2 DEF Trace, Labelled
  <2>5. ASSUME NEW t \in Slots \ {s},
               NEW k \in 1..dir[s].size, NEW l \in 1..dir[t].size
        PROVE  Chain(dir[s].start)[k - 1] # Chain(dir[t].start)[l - 1]
    <3>1. dir[t].size \in 1..MaxChunks /\ dir[t].size # 0
      BY <1>1, <2>5, ConstantsAssumption
    <3>2. PICK f \in Data, e \in [1..dir[t].size -> Blocks] :
            Trace(blk, dir[t].start, e, dir[t].size, f)
      BY <1>3, <3>1
    <3>3. Chain(dir[t].start)[l - 1] = e[l]
      BY <3>1, <3>2, ChainFollows
    <3>4. dir[s].size \in Nat \ {0} /\ dir[t].size \in Nat \ {0}
      BY <2>1, <3>1, ConstantsAssumption
    <3>5. Apart(c, dir[s].size, e, dir[t].size)
      BY <1>2, <2>2, <3>2, <3>4, FilesApart
    <3>6. QED
      BY <2>3, <3>3, <3>5 DEF Apart
  <2>6. QED
    BY <1>5, <2>2, <2>3, <2>4, <2>5
<1>6. QED
  BY <1>4, <1>5

(* Without ATA failures every file on the disk is whole at every moment,   *)
(* in the middle of every command and after a crash anywhere: it has the   *)
(* blocks its size asks for, with the data of one write in order, and      *)
(* shares none of them.                                                    *)
THEOREM FilesStayWhole ==
  ASSUME Faults = {}, Data # {} PROVE Spec => []CrashConsistent
<1>1. Inv /\ Consistent => CrashConsistent
  BY ConsistentFiles DEF Inv, Ownership
<1>2. Init => Inv
  BY InitTyped, InitAscending, InitOwned DEF Inv
<1>3. QED
  BY <1>1, <1>2, NextOwned, InitConsistent, NextConsistent, PTL DEF Spec

-----------------------------------------------------------------------------
(***************************************************************************)
(* Part 2.  The theorem that a mount computes the bitmap exactly when ATA  *)
(* calls succeed: bitmap_rebuild marks what the directory reaches, no less *)
(* and no more.                                                            *)
(*                                                                         *)
(* The argument: what is marked at the end holds the roots and is closed   *)
(* under next pointers, so it holds all that is reachable.  It holds no    *)
(* more, because block b is only marked when it can be reached in at most  *)
(* b - PFS_DATA_START steps: next pointers ascend.                         *)
(***************************************************************************)

(* What a set of blocks points to, and the sets reached in 0..n steps.     *)
Successors(B, S) == {B[b].next : b \in S} \cap Blocks
Roots(D) == {D[s].start : s \in Slots} \cap Blocks

IsReach(D, B, r, n) ==
  r = [k \in 0..n |-> IF k = 0 THEN Roots(D)
                      ELSE r[k - 1] \cup Successors(B, r[k - 1])]

LEMMA ReachGrows ==
  ASSUME NEW D, NEW B, NEW n \in Nat, NEW r, IsReach(D, B, r, n)
  PROVE  \E q : IsReach(D, B, q, n + 1)
<1> DEFINE q == [k \in 0..(n + 1) |->
                   IF k = n + 1 THEN r[n] \cup Successors(B, r[n]) ELSE r[k]]
           f == [k \in 0..(n + 1) |->
                   IF k = 0 THEN Roots(D)
                   ELSE q[k - 1] \cup Successors(B, q[k - 1])]
<1>1. \A k \in 0..n : q[k] = r[k] /\ k \in 0..(n + 1)
  OBVIOUS
<1>2. ASSUME NEW k \in 0..(n + 1) PROVE q[k] = f[k]
  <2>1. CASE k = 0
    BY <2>1, <1>1 DEF IsReach
  <2>2. CASE k # 0 /\ k # n + 1
    <3>1. k \in 0..n /\ k - 1 \in 0..n
      BY <2>2
    <3>2. q[k] = r[k] /\ q[k - 1] = r[k - 1]
      BY <1>1, <3>1
    <3>3. r[k] = r[k - 1] \cup Successors(B, r[k - 1])
      BY <2>2, <3>1 DEF IsReach
    <3>4. QED
      BY <2>2, <3>2, <3>3
  <2>3. CASE k = n + 1
    <3>1. k # 0 /\ k - 1 = n /\ q[n] = r[n]
      BY <1>1, <2>3
    <3>2. QED
      BY <2>3, <3>1
  <2>4. QED
    BY <2>1, <2>2, <2>3
<1>3. q = f
  BY <1>2
<1>4. QED
  BY <1>3 DEF IsReach

Distance == Cardinality(Blocks)

LEMMA DistanceOfBlocks ==
  /\ Distance \in Nat
  /\ \A b \in Blocks : b - PFS_DATA_START \in 0..Distance
<1>1. Cardinality(Blocks) = PFS_DATA_END - PFS_DATA_START + 1
  BY FS_Interval, ConstantsAssumption DEF Blocks, PFS_DATA_START
<1>2. QED
  BY <1>1, ConstantsAssumption DEF Distance, Blocks, PFS_DATA_START

LEMMA ReachExists ==
  ASSUME NEW D, NEW B PROVE \E r : IsReach(D, B, r, Distance)
<1> DEFINE T == {n \in Nat : \E r : IsReach(D, B, r, n)}
<1>1. 0 \in T
  <2>1. PICK r : r = [k \in 0..0 |-> Roots(D)]
    OBVIOUS
  <2>2. r = [k \in 0..0 |-> IF k = 0 THEN Roots(D)
                          ELSE r[k - 1] \cup Successors(B, r[k - 1])]
    BY <2>1
  <2>3. QED
    BY <2>2 DEF IsReach
<1>2. \A n \in 0..Distance : n < Distance /\ n \in T => n + 1 \in T
  BY ReachGrows
<1> HIDE DEF T
<1>3. \A n \in 0..Distance : n \in T
  BY <1>1, <1>2, IntervalInduction, DistanceOfBlocks
<1>4. QED
  BY <1>3, DistanceOfBlocks DEF T

LEMMA ReachableIsReach == \E r : IsReach(dir, blk, r, Distance)
                                  /\ Reachable = r[Distance]
<1>1. PICK q : IsReach(dir, blk, q, Distance)
  BY ReachExists
<1>2. QED
  BY <1>1 DEF Reachable, IsReach, Roots, Successors, Distance

LEMMA ReachMonotone ==
  ASSUME NEW D, NEW B, NEW r, IsReach(D, B, r, Distance),
         NEW i \in 0..Distance, NEW j \in i..Distance
  PROVE  r[i] \subseteq r[j]
<1> DEFINE T == {k \in i..Distance : r[i] \subseteq r[k]}
<1>0. Distance \in Nat /\ i \in Nat /\ i <= Distance
  BY DistanceOfBlocks
<1>1. i \in T
  BY <1>0
<1>2. \A k \in i..Distance : k < Distance /\ k \in T => k + 1 \in T
  <2> SUFFICES ASSUME NEW k \in i..Distance, k < Distance, k \in T
               PROVE  k + 1 \in T
    OBVIOUS
  <2>1. k + 1 \in 0..Distance /\ k + 1 # 0 /\ (k + 1) - 1 = k
        /\ k + 1 \in i..Distance
    BY <1>0
  <2>2. r[k + 1] = r[k] \cup Successors(B, r[k])
    BY <2>1 DEF IsReach
  <2>3. QED
    BY <2>1, <2>2
<1> HIDE DEF T
<1>3. \A k \in i..Distance : k \in T
  BY <1>0, <1>1, <1>2, IntervalInduction
<1>4. QED
  BY <1>0, <1>3 DEF T

(* Block b can be reached, in as many steps as there are blocks before it. *)
Reached(D, B, b) ==
  \A r : IsReach(D, B, r, Distance) => b \in r[b - PFS_DATA_START]

LEMMA RootReached ==
  ASSUME NEW D, NEW B, NEW b \in Blocks, b \in Roots(D)
  PROVE  Reached(D, B, b)
<1> SUFFICES ASSUME NEW r, IsReach(D, B, r, Distance)
             PROVE  b \in r[b - PFS_DATA_START]
  BY DEF Reached
<1>1. Distance \in Nat /\ b - PFS_DATA_START \in 0..Distance
  BY DistanceOfBlocks
<1>2. r[0] \subseteq r[b - PFS_DATA_START]
  BY <1>1, ReachMonotone
<1>3. r[0] = Roots(D)
  BY <1>1 DEF IsReach
<1>4. QED
  BY <1>2, <1>3

LEMMA NextReached ==
  ASSUME NEW D, NEW B, NEW b \in Blocks, Reached(D, B, b),
         B[b].next \in Blocks, b < B[b].next
  PROVE  Reached(D, B, B[b].next)
<1> SUFFICES ASSUME NEW r, IsReach(D, B, r, Distance)
             PROVE  B[b].next \in r[B[b].next - PFS_DATA_START]
  BY DEF Reached
<1>1. PICK k : k = b - PFS_DATA_START
  OBVIOUS
<1>2. PICK m : m = B[b].next - PFS_DATA_START
  OBVIOUS
<1>3. /\ Distance \in Nat /\ k \in 0..Distance /\ m \in 0..Distance
      /\ k + 1 \in 0..Distance /\ k + 1 # 0 /\ (k + 1) - 1 = k
      /\ m \in (k + 1)..Distance
  <2>1. Distance \in Nat /\ k \in 0..Distance /\ m \in 0..Distance
    BY <1>1, <1>2, DistanceOfBlocks
  <2>2. b \in Nat /\ B[b].next \in Nat
    BY BlockNumbers
  <2>3. k < m
    BY <1>1, <1>2, <2>2 DEF PFS_DATA_START
  <2>4. QED
    BY <2>1, <2>3
<1>4. b \in r[k]
  BY <1>1 DEF Reached
<1>5. r[k + 1] = r[k] \cup Successors(B, r[k])
  BY <1>3 DEF IsReach
<1>6. B[b].next \in r[k + 1]
  BY <1>4, <1>5 DEF Successors
<1>7. r[k + 1] \subseteq r[m]
  BY <1>3, ReachMonotone
<1>8. QED
  BY <1>2, <1>6, <1>7

(***************************************************************************)
(* A set that holds the roots, is closed and holds only what is reached is *)
(* what Reachable says.                                                    *)
(***************************************************************************)
Complete ==
  /\ RootsIn(dir, bitmap) /\ Closed(blk, bitmap) /\ bitmap \subseteq Blocks
  /\ \A b \in bitmap : Reached(dir, blk, b)

Exact == bitmap = Reachable

LEMMA SweptIsExact == Complete => Exact
<1> SUFFICES ASSUME Complete PROVE bitmap = Reachable
  BY DEF Exact
<1>0. Distance \in Nat
  BY DistanceOfBlocks
<1>1. PICK r : IsReach(dir, blk, r, Distance) /\ Reachable = r[Distance]
  BY ReachableIsReach
<1>2. bitmap \subseteq r[Distance]
  <2> SUFFICES ASSUME NEW b \in bitmap PROVE b \in r[Distance]
    OBVIOUS
  <2>1. b - PFS_DATA_START \in 0..Distance
    BY DistanceOfBlocks DEF Complete
  <2>2. b \in r[b - PFS_DATA_START]
    BY <1>1 DEF Complete, Reached
  <2>3. Distance \in (b - PFS_DATA_START)..Distance
    BY <1>0, <2>1
  <2>4. QED
    BY <1>1, <2>1, <2>2, <2>3, ReachMonotone
<1>3. r[Distance] \subseteq bitmap
  <2> DEFINE T == {k \in 0..Distance : r[k] \subseteq bitmap}
  <2>1. 0 \in T
    <3>1. r[0] = Roots(dir) /\ 0 \in 0..Distance
      BY <1>0, <1>1 DEF IsReach
    <3>2. Roots(dir) \subseteq bitmap
      BY DEF Roots, Complete, RootsIn
    <3>3. QED
      BY <3>1, <3>2
  <2>2. \A k \in 0..Distance : k < Distance /\ k \in T => k + 1 \in T
    <3> SUFFICES ASSUME NEW k \in 0..Distance, k < Distance, k \in T
                 PROVE  k + 1 \in T
      OBVIOUS
    <3>1. k + 1 \in 0..Distance /\ k + 1 # 0 /\ (k + 1) - 1 = k
      BY <1>0
    <3>2. r[k + 1] = r[k] \cup Successors(blk, r[k])
      BY <1>1, <3>1 DEF IsReach
    <3>3. Successors(blk, r[k]) \subseteq bitmap
      BY DEF Successors, Complete, Closed
    <3>4. QED
      BY <3>1, <3>2, <3>3
  <2> HIDE DEF T
  <2>3. \A k \in 0..Distance : k \in T
    BY <1>0, <2>1, <2>2, IntervalInduction
  <2>4. QED
    BY <1>0, <2>3 DEF T
<1>4. QED
  BY <1>1, <1>2, <1>3

LEMMA SweptIsExactNext == Complete' => Exact'
  BY SweptIsExact, PTL

(***************************************************************************)
(* While the bitmap is rebuilt, all that is marked is reachable.           *)
(***************************************************************************)
Marking ==
  /\ pc \in {"rebuild_slot", "rebuild_chain"} =>
       \A b \in bitmap : Reached(dir, blk, b)
  /\ pc = "rebuild_chain" => Reached(dir, blk, cur)

LEMMA InitMarking == Init => Marking
  BY DEF Init, Marking

LEMMA NextMarking ==
  ASSUME Faults = {} PROVE Inv /\ Marking /\ [Next]_vars => Marking'
<1> SUFFICES ASSUME Inv, Marking, [Next]_vars PROVE Marking'
  OBVIOUS
<1> USE DEF disk, memory, walk, writing
<1>1. CASE RebuildRead
  BY <1>1, NoFaults DEF RebuildRead, Marking
<1>2. CASE RebuildSlot
  <2>1. CASE HasChain(dir[slot])
    <3>1. /\ pc' = "rebuild_chain" /\ cur' = dir[slot].start /\ slot \in Slots
          /\ UNCHANGED <<dir, blk, bitmap>> /\ pc = "rebuild_slot"
      BY <1>2, <2>1 DEF RebuildSlot
    <3>2. cur' \in Blocks /\ cur' \in Roots(dir)
      BY <2>1, <3>1 DEF HasChain, Roots
    <3>3. Reached(dir, blk, cur')
      BY <3>2, RootReached
    <3>4. QED
      BY <3>1, <3>3 DEF Marking
  <2>2. CASE ~HasChain(dir[slot])
    BY <1>2, <2>2 DEF RebuildSlot, Marking
  <2>3. QED
    BY <2>1, <2>2
<1>3. CASE RebuildChain
  <2>1. /\ pc = "rebuild_chain" /\ bitmap' = bitmap \cup {cur}
        /\ UNCHANGED <<dir, blk>> /\ cur \in Blocks /\ Reached(dir, blk, cur)
        /\ \A b \in bitmap : Reached(dir, blk, b)
    BY <1>3 DEF RebuildChain, Marked, Marking, Inv, Typed, LocalsOK
  <2>2. CASE blk[cur].next \in Blocks
    <3>1. cur' = blk[cur].next /\ pc' = "rebuild_chain"
      <4>1. PICK ok \in ReadOutcomes :
              IF ok /\ blk[cur].next \in Blocks
              THEN cur' = blk[cur].next /\ UNCHANGED <<pc, slot>>
              ELSE TRUE
        BY <1>3 DEF RebuildChain
      <4>2. ok = TRUE
        BY NoFaults
      <4>3. QED
        BY <1>3, <2>2, <4>1, <4>2 DEF RebuildChain
    <3>2. cur < blk[cur].next
      BY <2>1, <2>2 DEF Inv, Ascending, ChainsAscend
    <3>3. Reached(dir, blk, cur')
      BY <2>1, <2>2, <3>1, <3>2, NextReached
    <3>4. QED
      BY <2>1, <3>1, <3>3 DEF Marking
  <2>3. CASE blk[cur].next \notin Blocks
    <3>1. pc' = "rebuild_slot"
      BY <1>3, <2>3 DEF RebuildChain
    <3>2. QED
      BY <2>1, <3>1 DEF Marking
  <2>4. QED
    BY <2>2, <2>3
<1>4. CASE UNCHANGED vars
  BY <1>4 DEF vars, Marking
<1>5. CASE pc' \notin {"rebuild_slot", "rebuild_chain"}
  BY <1>5 DEF Marking
<1>6. QED
  BY <1>1, <1>2, <1>3, <1>4, <1>5
  DEF Next, Handler, Mounting, Creating, Writing, Deleting, Reading, Boot,
      Command, Crash, Stop, MountRead, FormatSuper, FormatDir, RebuildEnd,
      Mounted, CreateRefused, CreateEntry, CreateReturns, Return, WFind, WFull,
      WBlock, WLink, WDir, DelFind, DelReturns, DelChain, DelEntry, CatFind,
      CatChain, CatEnd

(* Without ATA failures a mount, after any number of crashes, marks        *)
(* exactly the blocks that the files on the disk use.                      *)
THEOREM MountComputesBitmap ==
  ASSUME Faults = {} PROVE Spec => MountExact
<1>1. ASSUME Inv, Marking, Next, ~mounted, mounted' PROVE Exact'
  <2>1. CASE RebuildEnd
    <3>1. UNCHANGED <<dir, blk, bitmap>> /\ slot = PFS_MAX_FILES
          /\ pc = "rebuild_slot"
      BY <2>1 DEF RebuildEnd, disk
    <3>2. RootsIn(dir, bitmap) /\ Closed(blk, bitmap)
      BY <1>1, <3>1, ConstantsAssumption
      DEF Inv, Ownership, Swept, RootsIn, Slots
    <3>3. Complete'
      BY <1>1, <3>1, <3>2 DEF Complete, Marking, Inv, Typed, TypeOK
    <3>4. QED
      BY <3>3, SweptIsExactNext
  <2>2. CASE FormatDir
    <3>1. dir' = [s \in Slots |-> NoEntry] /\ bitmap' = {}
      BY <2>2, NoFaults DEF FormatDir
    <3>2. Complete'
      BY <3>1, BlockNumbers DEF Complete, RootsIn, Closed, NoEntry
    <3>3. QED
      BY <3>2, SweptIsExactNext
  <2>3. CASE ~RebuildEnd /\ ~FormatDir
    <3>1. mounted' = mounted \/ mounted' = FALSE
      BY <1>1, <2>3, NoFaults
      DEF Next, Handler, Mounting, Creating, Writing, Deleting, Reading, Boot,
          Command, Crash, Stop, MountRead, FormatSuper, RebuildRead,
          RebuildSlot, RebuildChain, CreateRefused, CreateEntry, WFind, WFull,
          WBlock, WLink, WDir, DelFind, DelChain, DelEntry, CatFind, CatChain,
          CatEnd, memory
    <3>2. QED
      BY <1>1, <3>1
  <2>4. QED
    BY <2>1, <2>2, <2>3
<1>2. Inv /\ Marking /\ [Next]_vars
        => [~mounted /\ mounted' => bitmap' = Reachable']_vars
  <2>1. Exact' => bitmap' = Reachable'
    BY DEF Exact
  <2>2. QED
    BY <1>1, <2>1
<1>3. Init => Inv
  BY InitTyped, InitAscending, InitOwned DEF Inv
<1>4. QED
  BY <1>2, <1>3, NextOwned, InitMarking, NextMarking, PTL DEF Spec, MountExact

=============================================================================
