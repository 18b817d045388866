----------------------------- MODULE LamportSums -----------------------------
(***************************************************************************)
(* Sums over sets of positions.  The lamports f[p] of every p in S are the *)
(* pairs <<p, i>> with i \in 1..f[p], so a sum is the number of pairs: the *)
(* facts about sums then are the library's facts about cardinality.        *)
(***************************************************************************)
EXTENDS Integers, FiniteSets

Lamports(f, S) == UNION { {p} \X (1..f[p]) : p \in S }

Total(f, S) == Cardinality(Lamports(f, S))
=============================================================================
