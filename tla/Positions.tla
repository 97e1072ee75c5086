------------------------------ MODULE Positions ------------------------------
(***************************************************************************)
(* The loops that copy some elements of a slice and keep their order.      *)
(***************************************************************************)
EXTENDS Integers, FiniteSets

\* The position of I that has k positions of I up to it.
Nth(I, k) ==
  LET kth == {i \in I : Cardinality({j \in I : j <= i}) = k}
  IN  CHOOSE i \in kth : TRUE

\* The elements of s at the positions I, in order.
Picked(s, I) == [k \in 1 .. Cardinality(I) |-> s[Nth(I, k)]]
==============================================================================
