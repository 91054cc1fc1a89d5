------------------------------- MODULE Listing -------------------------------
(***************************************************************************)
(* What the pure functions do to lists: sort a set, keep some positions of *)
(* a list, join a list of lists.  SortSeq, SelectSeq and the folds are     *)
(* primitives or recursions that the provers know nothing of; these are    *)
(* first-order, so what is said of them can be proved.                     *)
(***************************************************************************)
EXTENDS Naturals, Sequences, FiniteSets

\* A finite set in the order of R, a strict order given as a set of pairs: the
\* n-th element has n - 1 before it.
Sorted(S, R) ==
  [n \in 1 .. Cardinality(S) |->
     CHOOSE i \in S : Cardinality({j \in S : <<j, i>> \in R}) = n - 1]

Ascending(S) == Sorted(S, {p \in S \X S : p[1] < p[2]})

\* The elements of s at the positions of keep, in their order.
Kept(s, keep) ==
  LET at == Ascending(keep) IN [n \in DOMAIN at |-> s[at[n]]]

\* The lists of ss, one after the other.
Joined(ss) ==
  LET upto[n \in 0 .. Len(ss)] == IF n = 0 THEN <<>> ELSE upto[n - 1] \o ss[n]
  IN upto[Len(ss)]
=============================================================================
