------------------------ MODULE PfsRefinesFileStore ------------------------
(***************************************************************************)
(* The block store of Pfs implements the map of FileStore, across crashes  *)
(* at any step, as long as ATA calls succeed and names fit an entry.       *)
(***************************************************************************)
EXTENDS Pfs

(* The content a reader would get from the entry in slot s, in full.       *)
SlotContent(s) ==
  LET c == Chain(dir[s].start)
  IN  [k \in 1..dir[s].size |-> blk[c[k - 1]].data]

StoredNames == {dir[s].name : s \in Slots} \ {NoName}
SlotOf(n) == CHOOSE s \in Slots : FoundAt(n, s)

Files == [n \in StoredNames |-> SlotContent(SlotOf(n))]
Answered == [res |-> res, got |-> IF res = "none" THEN <<>> ELSE got]

Store == INSTANCE FileStore WITH
  Names <- ShortNames,
  MaxFiles <- PFS_MAX_FILES,
  files <- Files,
  cmd <- op,
  answer <- Answered

(* Every behaviour of the block store is one of the map: what a command    *)
(* answers is what the map would answer, no entry is refused while one is  *)
(* left, and no step, crash or mount shows a content nobody wrote, loses a *)
(* file or touches another one.                                            *)
ImplementsFileStore == Store!Spec
=============================================================================
