---------------------------- MODULE ExclusiveJobs ----------------------------
(***************************************************************************)
(* What the job runner promises about the files graphify writes: a job     *)
(* waits, then holds its resource alone, then is over, and processes of    *)
(* its own live only in between. Jobs with the same resource take turns;   *)
(* a job whose resource is Free shares with everybody.                     *)
(***************************************************************************)
CONSTANTS Job, Resource(_), Free

VARIABLES phase,  \* "unknown", "waiting", "working" or "over"
          live    \* jobs with a process alive
absVars == <<phase, live>>

AbsInit == phase = [j \in Job |-> "unknown"] /\ live = {}

\* Jobs enter together when a session is restored, alone when submitted.
Accept == \E S \in SUBSET Job :
  /\ \A j \in S : phase[j] = "unknown"
  /\ phase' = [j \in Job |-> IF j \in S THEN "waiting" ELSE phase[j]]
  /\ UNCHANGED live

Begin == \E j \in Job :
  /\ phase[j] = "waiting"
  /\ \A k \in Job : phase[k] = "working" => Resource(k) # Resource(j) \/ Resource(j) = Free
  /\ phase' = [phase EXCEPT ![j] = "working"]
  /\ UNCHANGED live

Spawn == \E j \in Job :
  /\ phase[j] = "working" /\ live' = live \cup {j}
  /\ UNCHANGED phase

Die == \E j \in live : live' = live \ {j} /\ UNCHANGED phase

\* A job is over only when nothing of it is left; one that never began may be
\* dropped.
End == \E j \in Job \ live :
  /\ phase[j] \in {"waiting", "working"}
  /\ phase' = [phase EXCEPT ![j] = "over"]
  /\ UNCHANGED live

AbsNext == Accept \/ Begin \/ Spawn \/ Die \/ End
AbsSpec == AbsInit /\ [][AbsNext]_absVars
=============================================================================
