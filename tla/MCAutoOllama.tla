---------------------------- MODULE MCAutoOllama ----------------------------
(***************************************************************************)
(* Instances of AutoOllama for TLC: two jobs, one timer callback at a time,*)
(* the buttons, the exit path, and two servers in all.                     *)
(***************************************************************************)
EXTENDS AutoOllama, TLC

CONSTANTS a, b, s1, s2, idler

Symmetry == Permutations({a, b}) \cup Permutations({s1, s2})
=============================================================================
