------------------------------ MODULE JobChain ------------------------------
(***************************************************************************)
(* Runner.SubmitChain (internal/jobs/chain.go): a goroutine that submits   *)
(* each command of a Fix only after the one before it has succeeded. What  *)
(* the runner may do to the chain's current job meanwhile is in JobRunner; *)
(* here a job waits, held or not, runs, ends in any of its outcomes, and   *)
(* stays where it is for ever once the closed runner has passed it by.     *)
(* A job that ends is retired in the same step, and the runner's other     *)
(* jobs retire between the chain's.                                        *)
(***************************************************************************)
EXTENDS JobHistory

CONSTANTS Steps  \* how many commands the chain has

ASSUME StepsPositive == Steps \in Nat \ {0}

VARIABLES
  job,       \* the status of each step's job, "none" before it is submitted
  closing,   \* the runner: "open", "closing" (quit is closed), "closed"
  goroutine, \* where it is: "submit", "wait", "read" or "over"
  ran,       \* ChainResult.Ran
  err        \* ChainResult.Err: "nil", "refused", "closed", "failed" or "canceled"

chain == <<job, closing, goroutine, ran, err>>
chainVars == <<chain, historyVars>>

Step == 1..Steps
Terminal == {"succeeded", "failed", "canceled"}

ChainInit ==
  /\ job = [s \in Step |-> "none"]
  /\ closing = "open" /\ goroutine = "submit" /\ ran = 0 /\ err = "nil"
  /\ HistoryInit

\* The step the goroutine is at.
Now == ran + 1

Stops(why) == goroutine' = "over" /\ err' = why /\ UNCHANGED ran

-----------------------------------------------------------------------------
\* SubmitCmd: no builder, no provider, or a precheck against the world as it
\* is by now refuses the command; a closed runner still takes it.
SubmitStep ==
  /\ goroutine = "submit" /\ ran < Steps
  /\ \/ /\ job' = [job EXCEPT ![Now] = "queued"]
        /\ goroutine' = "wait" /\ UNCHANGED <<ran, err>>
     \/ Stops("refused") /\ UNCHANGED job
  /\ UNCHANGED closing

\* The select: either channel may be taken when both are ready.
WaitJob == goroutine = "wait" /\ job[Now] \in Terminal /\ goroutine' = "read"

JobDone == WaitJob /\ UNCHANGED <<job, closing, ran, err>>

MutQuit == closing = "closed" /\ FALSE  \* no case for quit
Quit == closing # "open"

RunnerQuit ==
  /\ goroutine = "wait" /\ Quit
  /\ Stops("closed") /\ UNCHANGED <<job, closing>>

\* The status is read under the lock, after Done.
MutMayGoOn == job[Now] # "canceled"
MayGoOn == job[Now] = "succeeded"

Advance == ran + 1

Judge ==
  /\ goroutine = "read"
  /\ IF MayGoOn THEN ran' = Advance /\ goroutine' = "submit" /\ UNCHANGED err
                ELSE Stops(IF job[Now] = "canceled" THEN "canceled" ELSE "failed")
  /\ UNCHANGED <<job, closing>>

\* Every step has run.
Complete ==
  /\ goroutine = "submit" /\ ran = Steps
  /\ Stops("nil") /\ UNCHANGED <<job, closing>>

-----------------------------------------------------------------------------
(***************************************************************************)
(* The runner, as far as a chain can tell.                                 *)
(***************************************************************************)
Dispatched(s) ==
  /\ closing = "open" /\ job[s] = "queued"
  /\ job' = [job EXCEPT ![s] = "running"]
  /\ UNCHANGED <<closing, goroutine, ran, err, historyVars>>

Ended(s) ==
  /\ job[s] = "running"
  /\ \E end \in Terminal : job' = [job EXCEPT ![s] = end] /\ Retire(end = "failed")
  /\ UNCHANGED <<closing, goroutine, ran, err>>

Dropped(s) ==
  /\ job[s] = "queued"
  /\ job' = [job EXCEPT ![s] = "canceled"] /\ Retire(FALSE)
  /\ UNCHANGED <<closing, goroutine, ran, err>>

\* A job of nobody's chain ends; after Close only a queued one can, by Cancel.
OtherEnds ==
  /\ \E f \in BOOLEAN : (f => closing # "closed") /\ Retire(f)
  /\ UNCHANGED chain

Close ==
  /\ closing = "open" /\ closing' = "closing"
  /\ UNCHANGED <<job, goroutine, ran, err>>

\* Close returns when nothing is running; a step submitted after its
\* CancelAll stays in the queue.
Closed ==
  /\ closing = "closing" /\ \A s \in Step : job[s] # "running"
  /\ closing' = "closed"
  /\ UNCHANGED <<job, goroutine, ran, err>>

Chain == (SubmitStep \/ JobDone \/ RunnerQuit \/ Judge \/ Complete) /\ UNCHANGED historyVars
Runner == \/ (Close \/ Closed) /\ UNCHANGED historyVars
          \/ OtherEnds
          \/ \E s \in Step : Dispatched(s) \/ Ended(s) \/ Dropped(s)
ChainNext == Chain \/ Runner

ChainSpec == ChainInit /\ [][ChainNext]_chainVars
\* The goroutine runs. A job need not end, nor a held one be released.
ChainFairSpec == ChainSpec /\ WF_chainVars(Chain)

-----------------------------------------------------------------------------
\* The type of every variable.
ChainTypeOK ==
  /\ job \in [Step -> {"none", "queued", "running"} \cup Terminal]
  /\ closing \in {"open", "closing", "closed"}
  /\ goroutine \in {"submit", "wait", "read", "over"}
  /\ ran \in 0..Steps /\ err \in {"nil", "refused", "closed", "failed", "canceled"}

\* A command that builds on another is never so much as queued before that one
\* has succeeded: a label is not billed for a rebuild that died.
NeverAhead ==
  \A s \in Step : job[s] # "none" => \A p \in 1..(s - 1) : job[p] = "succeeded"

\* What is reported is what happened: Ran commands succeeded, and a chain that
\* says it is complete left none out.
ReportsTruth ==
  goroutine = "over" =>
    /\ \A s \in Step : s <= ran => job[s] = "succeeded"
    /\ err = "nil" => \A s \in Step : job[s] = "succeeded"
    /\ err \in {"failed", "canceled"} => job[Now] = err

\* The two together: no command starts before its turn, and none is reported
\* that was not done.
ChainTells == NeverAhead /\ ReportsTruth

\* A closing runner ends every chain: nobody is left waiting for a step that
\* nothing will ever dispatch or release.
ChainEnds == closing # "open" ~> goroutine = "over"
=============================================================================
