----------------------------- MODULE JobHistory -----------------------------
(***************************************************************************)
(* Runner.retire, compactRetired and dropFullLog (internal/jobs/jobs.go):  *)
(* the bounded ring of finished jobs and the separate list of the latest   *)
(* failures, whose logs are kept whole. Every finished job passes through  *)
(* retire, under Runner.mu, from run, from Cancel and from Restore. Jobs   *)
(* are numbered in the order they are retired.                             *)
(***************************************************************************)
EXTENDS Integers, Sequences, FiniteSets

CONSTANTS
  History,          \* Options.History
  KeepFullFailures, \* how many failures keep their whole log
  MaxRetired        \* bound on the jobs retired

ASSUME HistoryPositive ==
  /\ History \in Nat \ {0}
  /\ KeepFullFailures \in Nat \ {0}
  /\ MaxRetired \in Nat

VARIABLES
  failed,   \* the jobs retired so far: whether each one failed
  history,  \* Runner.history
  histNext, \* Runner.histNext: the slot the next retire overwrites
  fullLogs, \* Runner.fullLogs, oldest first
  whole     \* the jobs whose log was not compacted

historyVars == <<failed, history, histNext, fullLogs, whole>>

Members(s) == {s[i] : i \in DOMAIN s}

HistoryInit == failed = <<>> /\ history = <<>> /\ histNext = 0 /\ fullLogs = <<>> /\ whole = {}

(***************************************************************************)
(* compactRetired, on the job about to enter the history.                  *)
(***************************************************************************)
MutOverflows(fl) == Len(fl) >= KeepFullFailures
Overflows(fl) == Len(fl) > KeepFullFailures

\* What becomes of fullLogs and of the whole logs when job j arrives.
Kept(j, f) == IF f THEN Append(fullLogs, j) ELSE fullLogs
AfterCompact(j, f) == IF Overflows(Kept(j, f)) THEN Tail(Kept(j, f)) ELSE Kept(j, f)
PushedOut(j, f) == IF Overflows(Kept(j, f)) THEN {Head(Kept(j, f))} ELSE {}

(***************************************************************************)
(* dropFullLog: a job that left the history leaves fullLogs as well.       *)
(***************************************************************************)
DropFullLog(fl, old) ==
  IF old \notin Members(fl) THEN fl
  ELSE LET i == CHOOSE i \in DOMAIN fl : fl[i] = old /\ \A k \in 1..(i - 1) : fl[k] # old
       IN  [n \in 1..(Len(fl) - 1) |-> IF n < i THEN fl[n] ELSE fl[n + 1]]

NextSlot == (histNext + 1) % Len(history)

Retire(f) ==
  LET j == Len(failed) + 1
  IN  /\ j <= MaxRetired
      /\ failed' = Append(failed, f)
      /\ whole' = (IF f THEN whole \cup {j} ELSE whole) \ PushedOut(j, f)
      /\ IF Len(history) < History
         THEN /\ history' = Append(history, j)
              /\ fullLogs' = AfterCompact(j, f)
              /\ UNCHANGED histNext
         ELSE /\ history' = [history EXCEPT ![histNext + 1] = j]
              /\ histNext' = NextSlot
              /\ fullLogs' = DropFullLog(AfterCompact(j, f), history[histNext + 1])

HistoryNext == \E f \in BOOLEAN : Retire(f)
HistorySpec == HistoryInit /\ [][HistoryNext]_historyVars

-----------------------------------------------------------------------------
Retired == 1..Len(failed)

\* The type of every variable, and the ring's bound.
HistoryTypeOK ==
  /\ failed \in Seq(BOOLEAN)
  /\ history \in Seq(Retired) /\ Len(history) <= History
  /\ histNext \in 0..(History - 1)
  /\ fullLogs \in Seq(Retired) /\ whole \subseteq Retired

\* The ring always holds the latest History finished jobs, however often it
\* has wrapped: what Snapshot, the run history and the sidecar show.
HoldsTheLatest == Members(history) = {j \in Retired : j + History > Len(failed)}

\* The failures among the jobs still reachable.
Failures == {j \in Members(history) : failed[j]}

\* The latest KeepFullFailures failures of the history can be read in full.
RecentFailuresWhole ==
  \A j \in Failures :
    Cardinality({k \in Failures : k > j}) < KeepFullFailures => j \in whole

\* Memory: among everything the runner can still reach, through the history
\* or through fullLogs, no more logs are whole than there may be, and nothing
\* is reachable through fullLogs alone.
LogsBounded ==
  /\ Cardinality(whole \cap (Members(history) \cup Members(fullLogs))) <= KeepFullFailures
  /\ Members(fullLogs) \subseteq Members(history)

\* What may be asked of the history: the latest jobs, the latest failures with
\* the whole of their logs, and no more memory than that takes.
HistoryKept == HoldsTheLatest /\ RecentFailuresWhole /\ LogsBounded
=============================================================================
