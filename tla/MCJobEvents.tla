---------------------------- MODULE MCJobEvents ----------------------------
(***************************************************************************)
(* Instances of JobEvents for TLC: two jobs of one checkout, and a channel *)
(* of one slot, so that every send may have to wait.                       *)
(***************************************************************************)
EXTENDS JobEvents

CONSTANTS a, b, r

TwoJobs == {a, b}
OneJob == {a}
SameRow == [j \in Job |-> r]
NothingRestored == <<>>
OneRestored == <<a>>
=============================================================================
