----------------------------- MODULE MCJobRunner -----------------------------
(***************************************************************************)
(* Instances of JobRunner for TLC. Each one names its jobs' attributes.    *)
(***************************************************************************)
EXTENDS JobRunner, TLC

CONSTANTS a, b, r1, r2

Uniform(jobs, x) == [j \in jobs |-> x]

\* Every SetLanes call of these instances.
NoLanes == {}
OneEach == [l \in Lane |-> 1]
TwoLocal == [l \in Lane |-> IF l = "local" THEN 2 ELSE 1]

(***************************************************************************)
(* Two local extractions of one checkout: same lane, same output directory,*)
(* both lease the model server.                                            *)
(***************************************************************************)
PairJobs == {a, b}
PairCost == Uniform(PairJobs, "Metered")
PairLocal == Uniform(PairJobs, TRUE)
PairClass == Uniform(PairJobs, "mutates")
PairRepo == Uniform(PairJobs, r1)
PairSymmetry == Permutations(PairJobs)

(***************************************************************************)
(* Two billed jobs with no resource in common: only the metered lane keeps *)
(* them apart, and the settings dialog may widen it.                       *)
(***************************************************************************)
BilledLocal == Uniform(PairJobs, FALSE)
BilledClass == Uniform(PairJobs, "reads")
MeteredOneOrTwo == {[l \in Lane |-> IF l = "metered" THEN n ELSE 0] : n \in 1..2}

(***************************************************************************)
(* `global add` and `global remove` for two checkouts: free, and sharing   *)
(* the cross-repository graph.                                             *)
(***************************************************************************)
GlobalCost == Uniform(PairJobs, "Free")
GlobalClass == Uniform(PairJobs, "global")
GlobalRepo == [j \in PairJobs |-> IF j = a THEN r1 ELSE r2]
TwoFree == [l \in Lane |-> IF l = "free" THEN 2 ELSE 1]

(***************************************************************************)
(* One local extraction, paused, resumed and cancelled at any moment.      *)
(***************************************************************************)
SoloJobs == {a}
SoloCost == Uniform(SoloJobs, "Metered")
SoloLocal == Uniform(SoloJobs, TRUE)
SoloClass == Uniform(SoloJobs, "mutates")
SoloRepo == Uniform(SoloJobs, r1)
=============================================================================
