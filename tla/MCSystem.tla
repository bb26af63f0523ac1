------------------------------ MODULE MCSystem ------------------------------
(* A small machine for TLC.                                                *)
EXTENDS System, TLC

CONSTANTS n1, n2, d1

MCNoClip == [n \in {} |-> n1]
(* An unread directory: numbers out of every range.                        *)
MCGarbage == {[s \in Slots |-> [name |-> n1, size |-> 9,
                                start |-> PFS_DATA_END + 1]]}
Interchangeable == Permutations({n1, n2})
=============================================================================
