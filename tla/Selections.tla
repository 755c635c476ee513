----------------------------- MODULE Selections -----------------------------
(***************************************************************************)
(* What is taken out of a set of numbers or out of a sequence, in order.   *)
(***************************************************************************)
EXTENDS Integers, Sequences, FiniteSets

\* The n-th smallest number of a finite set.
NthLeast(T, n) == CHOOSE i \in T : Cardinality({j \in T : j < i}) = n - 1

\* The numbers of a finite set, in their order.
InOrder(T) == [n \in 1..Cardinality(T) |-> NthLeast(T, n)]

\* What remains of a sequence when everything outside of S is erased.
Only(s, S) ==
  LET kept == {i \in DOMAIN s : s[i] \in S}
  IN [n \in 1..Cardinality(kept) |-> s[NthLeast(kept, n)]]
=============================================================================
