------------------------------- MODULE MCPfs -------------------------------
(* Small instances of the store for TLC.                                   *)
EXTENDS PfsRefinesFileStore, TLC

CONSTANTS n1, n2, n3, d1, d2

MCNoClip == [n \in {} |-> n1]
Interchangeable == Permutations({n1, n2, n3}) \cup Permutations({d1, d2})
=============================================================================
