---------------------------- MODULE MCPfsFaults ----------------------------
(* A small instance of the store on a disk that fails.                     *)
EXTENDS PfsFaults

CONSTANTS n1, n2, long, d1

MCClip == [n \in {long} |-> n1]

(* An uninitialised directory buffer: leftovers whose entries claim the    *)
(* first block and, with no name, the last one; and bytes that were never  *)
(* an entry, with a name that has no end, a size no file has, and block    *)
(* numbers just below and just above those of the store.                   *)
MCGarbage ==
  {[s \in Slots |->
      IF s = 0 THEN [name |-> n1, size |-> 1, start |-> PFS_DATA_START]
      ELSE [name |-> NoName, size |-> 0, start |-> PFS_DATA_END]],
   [s \in Slots |->
      IF s = 0 THEN [name |-> long, size |-> 9, start |-> PFS_DATA_START - 1]
      ELSE [name |-> n2, size |-> 2, start |-> PFS_DATA_END + 1]]}
=============================================================================
