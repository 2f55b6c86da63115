------------------------------- MODULE Sorting -------------------------------
(* sorted() of Python over the elements of a finite set: an element has as   *)
(* many before it as its index says.  The library's SortSeq is TLC's own,    *)
(* and no proof can look into it.                                          *)
EXTENDS Integers, FiniteSets

\* R holds <<x, y>> when x comes before y
SortedBy(S, R) ==
  [k \in 1..Cardinality(S) |-> CHOOSE x \in S : Cardinality({y \in S : <<y, x>> \in R}) = k - 1]
Sorted(S, Less(_, _)) == SortedBy(S, {p \in S \X S : Less(p[1], p[2])})
=============================================================================
