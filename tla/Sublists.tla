------------------------------ MODULE Sublists ------------------------------
(***************************************************************************)
(* What is left of a list when an iteration over it unlinks some of its    *)
(* elements.  As opposed to SelectSeq this is not defined by recursion, so *)
(* that it can be reasoned about (SublistLemmas).                          *)
(***************************************************************************)
EXTENDS Integers, Sequences, FiniteSets

(* The k-th smallest number of a set of them.                              *)
Nth(I, k) == CHOOSE i \in I : Cardinality({j \in I : j <= i}) = k

(* The elements of s at the positions in I, in their order.                *)
Sublist(s, I) == [k \in 1 .. Cardinality(I) |-> s[Nth(I, k)]]

(* The positions at which s has an element of S.                           *)
Where(s, S) == {i \in DOMAIN s : s[i] \in S}
============================================================================
