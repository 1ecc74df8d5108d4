----------------------------- MODULE Orderings -----------------------------
(***************************************************************************)
(* What the runtime's sort and filter do, in a form that can be reasoned   *)
(* about: SelectSeq and SortSeq are opaque to the provers.                 *)
(***************************************************************************)
EXTENDS Integers, Sequences, FiniteSets

(* Array.prototype.sort: the k-th element has k - 1 before it.  before is  *)
(* a strict total order of S.  (A concatenation is evaluated once by TLC.) *)
Sorted(S, before) ==
    << >> \o [k \in 1..Cardinality(S) |->
                 CHOOSE x \in S : Cardinality({y \in S : <<y, x>> \in before}) = k - 1]

Ascending(numbers) == Sorted(numbers, {p \in numbers \X numbers : p[1] < p[2]})

(* Array.prototype.filter: the elements of s at those places, in order.    *)
Subsequence(s, places) ==
    LET order == Ascending(places)
    IN  [k \in 1..Cardinality(places) |-> s[order[k]]]
=============================================================================
