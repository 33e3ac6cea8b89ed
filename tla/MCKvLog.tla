------------------------------ MODULE MCKvLog ------------------------------
(***************************************************************************)
(* The key-value log with two keys and two values.                         *)
(***************************************************************************)
EXTENDS KvLog, TLC

CONSTANTS k1, k2, v1, v2

Interchangeable == Permutations({k1, k2}) \cup Permutations({v1, v2})
=============================================================================
