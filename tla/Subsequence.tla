----------------------------- MODULE Subsequence -----------------------------
EXTENDS Naturals, FiniteSets

(* The elements of the sequence q that are in S, in the order they have in *)
(* q: SelectSeq of module Sequences, but by their places in q, which needs *)
(* no recursion.                                                           *)
Kept(q, S) ==
  LET at == {i \in DOMAIN q : q[i] \in S}
      nth(k) == CHOOSE i \in at : Cardinality({j \in at : j <= i}) = k
  IN  [k \in 1..Cardinality(at) |-> q[nth(k)]]
==============================================================================
