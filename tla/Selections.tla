------------------------------ MODULE Selections ------------------------------
(* The elements of a sequence that pass a test, in their order: the filter of   *)
(* an iterator.  The test is given as the positions that pass it.               *)
EXTENDS Integers, Sequences, FiniteSets

\* The nth of a finite set of numbers, from the least.
Nth(P, n) == CHOOSE i \in P : Cardinality({j \in P : j <= i}) = n

\* The elements of s at the positions P.
Kept(s, P) == [n \in 1..Cardinality(P) |-> s[Nth(P, n)]]
===============================================================================
