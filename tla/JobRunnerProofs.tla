--------------------------- MODULE JobRunnerProofs ---------------------------
(***************************************************************************)
(* Theorems about JobRunner, for every set of jobs, every lane limit and   *)
(* every number of clicks.                                                 *)
(***************************************************************************)
EXTENDS JobRunner, FiniteSetTheorems, TLAPS

-----------------------------------------------------------------------------
(***************************************************************************)
(* The helpers.                                                            *)
(***************************************************************************)
\* holdKey returns a resource, or NoKey, which is none of them.
LEMMA HoldKeyType ==
  ASSUME NEW j \in Job
  PROVE  holdKey(j) \in Key \cup {NoKey} /\ NoKey \notin Key /\ NoJob \notin Job
BY JobAttributes, NamesDiffer DEF holdKey, Key

\* laneOf returns one of the three lanes.
LEMMA LaneOfType == ASSUME NEW j \in Job PROVE laneOf(j) \in Lane
BY JobAttributes DEF laneOf, Lane

\* Removing position i of a queue keeps the other elements, in order, and a
\* queue without repetitions loses exactly the job at i.
LEMMA RemoveAtFacts ==
  ASSUME NEW q \in Seq(Job), NEW i \in DOMAIN q
  PROVE  /\ RemoveAt(q, i) \in Seq(Job)
         /\ \A n \in DOMAIN RemoveAt(q, i) :
              \E m \in DOMAIN q : m # i /\ RemoveAt(q, i)[n] = q[m]
         /\ (\A n, m \in DOMAIN q : q[n] = q[m] => n = m)
              => \A n, m \in DOMAIN RemoveAt(q, i) :
                   RemoveAt(q, i)[n] = RemoveAt(q, i)[m] => n = m
<1>1. Len(q) \in Nat /\ DOMAIN q = 1..Len(q) /\ i \in 1..Len(q)
  OBVIOUS
<1>2. RemoveAt(q, i) \in [1..(Len(q) - 1) -> Job]
  BY <1>1 DEF RemoveAt
<1>3. RemoveAt(q, i) \in Seq(Job) /\ DOMAIN RemoveAt(q, i) = 1..(Len(q) - 1)
  BY <1>1, <1>2
<1>4. \A n \in DOMAIN RemoveAt(q, i) :
        \E m \in DOMAIN q : m # i /\ RemoveAt(q, i)[n] = q[m]
  BY <1>1, <1>3 DEF RemoveAt
<1>5. ASSUME \A n, m \in DOMAIN q : q[n] = q[m] => n = m,
             NEW n \in DOMAIN RemoveAt(q, i), NEW m \in DOMAIN RemoveAt(q, i),
             RemoveAt(q, i)[n] = RemoveAt(q, i)[m]
      PROVE  n = m
  BY <1>1, <1>3, <1>5 DEF RemoveAt
<1> QED
  BY <1>3, <1>4, <1>5

-----------------------------------------------------------------------------
(***************************************************************************)
(* Types.                                                                  *)
(***************************************************************************)
\* The initial state has the type of every variable.
LEMMA InitTypeOK == Init => TypeOK
<1> SUFFICES ASSUME Init PROVE TypeOK
  OBVIOUS
<1>1. queue \in Seq(Job) /\ running \subseteq Job
  BY DEF Init
<1>2. limit \in [Lane -> Nat \ {0}] /\ peak \in [Lane -> Nat \ {0}]
  BY LimitsPositive DEF Init
<1> QED
  BY <1>1, <1>2 DEF Init, TypeOK

\* Every step keeps every variable in its type.
LEMMA StepTypeOK == TypeOK /\ [Next]_vars => TypeOK'
<1> SUFFICES ASSUME TypeOK, [Next]_vars PROVE TypeOK'
  OBVIOUS
<1> USE DEF TypeOK, Terminal, Kick, runnerVars, laneVars, closeVars, pauseVars,
            processVars, runVars
<1>1. ASSUME ReleaseAll PROVE TypeOK'
  BY <1>1 DEF ReleaseAll
<1>2. ASSUME CloseBegin PROVE TypeOK'
  BY <1>2 DEF CloseBegin, Gesture
<1>3. ASSUME CloseSnapshot PROVE TypeOK'
  BY <1>3 DEF CloseSnapshot
<1>4. ASSUME CloseWait PROVE TypeOK'
  BY <1>4 DEF CloseWait
<1>5. ASSUME CloseReturn PROVE TypeOK'
  BY <1>5 DEF CloseReturn
<1>6. ASSUME DispatchNone PROVE TypeOK'
  BY <1>6 DEF DispatchNone, MayLeave
<1>6a. ASSUME CheckIdle PROVE TypeOK'
  BY <1>6a DEF CheckIdle, MayLeave
<1>7. ASSUME Woken PROVE TypeOK'
  BY <1>7 DEF Woken
<1>8. ASSUME Tick PROVE TypeOK'
  BY <1>8 DEF Tick
<1>9. ASSUME NEW m \in 1..Cardinality(Job), NEW js \in [1..m -> Job],
            NEW hs \in SUBSET Job, Restore(js, hs) PROVE TypeOK'
  BY <1>9 DEF Restore
<1>10. ASSUME NEW c \in LimitChoices, SetLanes(c) PROVE TypeOK'
  BY <1>10, LimitsPositive DEF SetLanes, NewLimit, Gesture, Lane
<1>11. ASSUME NEW j \in Job, Submit(j) PROVE TypeOK'
  BY <1>11 DEF Submit
<1>12. ASSUME NEW j \in Job, Release(j) PROVE TypeOK'
  BY <1>12 DEF Release
<1>13. ASSUME NEW j \in Job, Cancel(j) PROVE TypeOK'
  <2>1. ASSUME DropQueued(j) PROVE TypeOK'
    BY <1>13, <2>1, RemoveAtFacts DEF Cancel, DropQueued, Gesture
  <2>2. ASSUME CancelContext(j) PROVE TypeOK'
    BY <1>13, <2>2 DEF Cancel, CancelContext, Gesture
  <2> QED
    BY <1>13, <2>1, <2>2 DEF Cancel
<1>14. ASSUME NEW j \in Job, CloseCancel(j) PROVE TypeOK'
  <2>1. ASSUME DropQueued(j) PROVE TypeOK'
    BY <1>14, <2>1, RemoveAtFacts DEF CloseCancel, DropQueued
  <2>2. ASSUME CancelContext(j) PROVE TypeOK'
    BY <1>14, <2>2 DEF CloseCancel, CancelContext
  <2>3. ASSUME UNCHANGED <<runnerVars, canceled>> PROVE TypeOK'
    BY <1>14, <2>3 DEF CloseCancel
  <2> QED
    BY <1>14, <2>1, <2>2, <2>3 DEF CloseCancel
<1>15. ASSUME NEW j \in Job, Dispatch(j) PROVE TypeOK'
  BY <1>15, RemoveAtFacts DEF Dispatch, Eligible
<1>16. ASSUME NEW j \in Job, Pause(j) PROVE TypeOK'
  BY <1>16 DEF Pause, Gesture, CanToggle
<1>17. ASSUME NEW j \in Job, Resume(j) PROVE TypeOK'
  BY <1>17 DEF Resume, Gesture, CanToggle
<1>18. ASSUME NEW j \in Job, TakeLease(j) PROVE TypeOK'
  BY <1>18 DEF TakeLease
<1>19. ASSUME NEW j \in Job, Start(j) PROVE TypeOK'
  BY <1>19 DEF Start
<1>20. ASSUME NEW j \in Job, StartFails(j) PROVE TypeOK'
  BY <1>20 DEF StartFails
<1>21. ASSUME NEW j \in Job, WaitReaps(j) PROVE TypeOK'
  BY <1>21 DEF WaitReaps
<1>22. ASSUME NEW j \in Job, WaitReturns(j) PROVE TypeOK'
  BY <1>22 DEF WaitReturns
<1>23. ASSUME NEW j \in Job, ReapGroup(j) PROVE TypeOK'
  BY <1>23 DEF ReapGroup, AfterLeader
<1>24. ASSUME NEW j \in Job, ReapGroupEnds(j) PROVE TypeOK'
  BY <1>24 DEF ReapGroupEnds
<1>25. ASSUME NEW j \in Job, ReturnLease(j) PROVE TypeOK'
  BY <1>25 DEF ReturnLease
<1>26. ASSUME NEW j \in Job, Finish(j) PROVE TypeOK'
  BY <1>26, HoldKeyType DEF Finish, Outcome
<1>27. ASSUME NEW j \in Job, ReaperSeesExit(j) PROVE TypeOK'
  BY <1>27 DEF ReaperSeesExit
<1>28. ASSUME NEW j \in Job, ReaperTerms(j) PROVE TypeOK'
  BY <1>28 DEF ReaperTerms
<1>29. ASSUME NEW j \in Job, ReaperSeesGone(j) PROVE TypeOK'
  BY <1>29 DEF ReaperSeesGone
<1>30. ASSUME NEW j \in Job, ReaperKills(j) PROVE TypeOK'
  BY <1>30 DEF ReaperKills
<1>31. ASSUME NEW j \in Job, SigStop(j) PROVE TypeOK'
  BY <1>31, ZenonT(60) DEF SigStop
<1>32. ASSUME NEW j \in Job, SuspendLease(j) PROVE TypeOK'
  BY <1>32 DEF SuspendLease, Suspend
<1>33. ASSUME NEW j \in Job, RecordPause(j) PROVE TypeOK'
  BY <1>33 DEF RecordPause
<1>34. ASSUME NEW j \in Job, AbandonPause(j) PROVE TypeOK'
  BY <1>34 DEF AbandonPause, Suspend
<1>35. ASSUME NEW j \in Job, HandOverLane(j) PROVE TypeOK'
  BY <1>35 DEF HandOverLane
<1>36. ASSUME NEW j \in Job, ResumeLease(j) PROVE TypeOK'
  BY <1>36 DEF ResumeLease, Retake
<1>37. ASSUME NEW j \in Job, SigCont(j) PROVE TypeOK'
  BY <1>37, ZenonT(60) DEF SigCont, Suspend
<1>38. ASSUME NEW j \in Job, RecordResume(j) PROVE TypeOK'
  BY <1>38 DEF RecordResume
<1>39. ASSUME NEW j \in Job, StragglerExits(j) PROVE TypeOK'
  BY <1>39 DEF StragglerExits
<1>40. ASSUME NEW j \in Job, NEW how \in {"ok", "fail"}, NEW leaves \in BOOLEAN,
            LeaderExits(j, how, leaves) PROVE TypeOK'
  BY <1>40 DEF LeaderExits
<1>41. ASSUME UNCHANGED vars PROVE TypeOK'
  BY <1>41 DEF vars
<1> QED
  BY <1>1, <1>2, <1>3, <1>4, <1>5, <1>6, <1>6a, <1>7, <1>8, <1>9, <1>10, <1>11,
       <1>12, <1>13, <1>14, <1>15, <1>16, <1>17, <1>18, <1>19, <1>20, <1>21,
       <1>22, <1>23, <1>24, <1>25, <1>26, <1>27, <1>28, <1>29, <1>30, <1>31,
       <1>32, <1>33, <1>34, <1>35, <1>36, <1>37, <1>38, <1>39, <1>40, <1>41
  DEF Next, Callers, Closer, Scheduler, Runs, Reaps, Toggles, Processes

-----------------------------------------------------------------------------
(***************************************************************************)
(* The structure of the runner.                                            *)
(***************************************************************************)
\* The queue holds queued jobs, each once; Runner.running holds the running
\* ones, which are those a run goroutine is working on; and a process, or what
\* one left behind, exists only while that goroutine has not yet reaped it.
Structure ==
  /\ \A i, n \in DOMAIN queue : queue[i] = queue[n] => i = n
  /\ \A i \in DOMAIN queue : status[queue[i]] = "Queued"
  /\ \A j \in Job : j \in running <=> status[j] = "Running"
  /\ \A j \in Job : status[j] = "Running" <=> run[j] \notin {"none", "over"}
  /\ \A j \in Job : leader[j] \in {"alive", "zombie"} => run[j] = "wait"
  /\ \A j \in Job : straggler[j] => run[j] \in {"wait", "group", "grace"}

\* Every running job that needs a resource is the one busyRepo names for it.
Reserved == \A j \in running : holdKey(j) # NoKey => busyRepo[holdKey(j)] = j

\* A billed job that is outstanding has been asked for, or waits for its click.
Consented ==
  \A j \in Job : laneOf(j) = "metered" /\ status[j] \in {"Queued", "Running"}
                   => j \in asked \/ (status[j] = "Queued" /\ held[j])
\* Before anything is submitted there is no queue to be out of order.
LEMMA InitStructure == Init => Structure /\ Reserved /\ Consented
BY DEF Init, Structure, Reserved, Consented

\* Dropping the job at one position of the queue from it leaves the others.
LEMMA QueueAfterRemoval ==
  ASSUME TypeOK, Structure, NEW j \in Job, NEW i \in DOMAIN queue, queue[i] = j
  PROVE  LET q == RemoveAt(queue, i) IN
           /\ \A n, m \in DOMAIN q : q[n] = q[m] => n = m
           /\ \A n \in DOMAIN q : q[n] # j /\ status[q[n]] = "Queued"
<1> DEFINE q == RemoveAt(queue, i)
<1>1. queue \in Seq(Job)
  BY DEF TypeOK
<1>2. \A n, m \in DOMAIN q : q[n] = q[m] => n = m
  BY <1>1, RemoveAtFacts DEF Structure
<1>3. \A n \in DOMAIN q : \E m \in DOMAIN queue : m # i /\ q[n] = queue[m]
  BY <1>1, RemoveAtFacts
<1>4. \A n \in DOMAIN q : q[n] # j /\ status[q[n]] = "Queued"
  BY <1>3 DEF Structure
<1> QED
  BY <1>2, <1>4

\* Every step keeps that structure.
LEMMA StepStructure == TypeOK /\ Structure /\ [Next]_vars => Structure'
<1> SUFFICES ASSUME TypeOK, Structure, [Next]_vars PROVE Structure'
  OBVIOUS
<1> USE DEF Structure, TypeOK, Terminal, Kick, runnerVars, laneVars, closeVars, pauseVars,
            processVars, runVars
<1>1. ASSUME ReleaseAll PROVE Structure'
  BY <1>1 DEF ReleaseAll, Queued
<1>2. ASSUME CloseBegin PROVE Structure'
  BY <1>2 DEF CloseBegin
<1>3. ASSUME CloseSnapshot PROVE Structure'
  BY <1>3 DEF CloseSnapshot
<1>4. ASSUME CloseWait PROVE Structure'
  BY <1>4 DEF CloseWait
<1>5. ASSUME CloseReturn PROVE Structure'
  BY <1>5 DEF CloseReturn
<1>6. ASSUME DispatchNone PROVE Structure'
  BY <1>6 DEF DispatchNone, MayLeave
<1>6a. ASSUME CheckIdle PROVE Structure'
  BY <1>6a DEF CheckIdle, MayLeave
<1>7. ASSUME Woken PROVE Structure'
  BY <1>7 DEF Woken
<1>8. ASSUME Tick PROVE Structure'
  BY <1>8 DEF Tick
<1>9. ASSUME NEW m \in 1..Cardinality(Job), NEW js \in [1..m -> Job],
            NEW hs \in SUBSET Job, Restore(js, hs) PROVE Structure'
  BY <1>9 DEF Restore
<1>10. ASSUME NEW c \in LimitChoices, SetLanes(c) PROVE Structure'
  BY <1>10 DEF SetLanes
<1>11. ASSUME NEW j \in Job, Submit(j) PROVE Structure'
  BY <1>11 DEF Submit
<1>12. ASSUME NEW j \in Job, Release(j) PROVE Structure'
  BY <1>12 DEF Release, Queued
<1>13. ASSUME NEW j \in Job, Cancel(j) PROVE Structure'
  <2>1. ASSUME DropQueued(j) PROVE Structure'
    <3>1. PICK i \in DOMAIN queue : queue[i] = j /\ queue' = RemoveAt(queue, i)
      BY <2>1 DEF DropQueued
    <3>2. status[j] = "Queued" /\ status' = [status EXCEPT ![j] = "Canceled"]
      BY <2>1, <3>1 DEF DropQueued
    <3>3. \A n, m \in DOMAIN queue' : queue'[n] = queue'[m] => n = m
      BY <3>1, QueueAfterRemoval
    <3>4. \A n \in DOMAIN queue' : queue'[n] # j /\ status[queue'[n]] = "Queued"
      BY <3>1, QueueAfterRemoval
    <3>5. queue' \in Seq(Job)
      BY <3>1, RemoveAtFacts
    <3>6. \A n \in DOMAIN queue' : status'[queue'[n]] = "Queued"
      BY <3>2, <3>4, <3>5
    <3> QED
      BY <1>13, <2>1, <3>2, <3>3, <3>6 DEF Cancel, DropQueued
  <2>2. ASSUME CancelContext(j) PROVE Structure'
    BY <1>13, <2>2 DEF Cancel, CancelContext
  <2> QED
    BY <1>13, <2>1, <2>2 DEF Cancel
<1>14. ASSUME NEW j \in Job, CloseCancel(j) PROVE Structure'
  <2>1. ASSUME DropQueued(j) PROVE Structure'
    <3>1. PICK i \in DOMAIN queue : queue[i] = j /\ queue' = RemoveAt(queue, i)
      BY <2>1 DEF DropQueued
    <3>2. status[j] = "Queued" /\ status' = [status EXCEPT ![j] = "Canceled"]
      BY <2>1, <3>1 DEF DropQueued
    <3>3. \A n, m \in DOMAIN queue' : queue'[n] = queue'[m] => n = m
      BY <3>1, QueueAfterRemoval
    <3>4. \A n \in DOMAIN queue' : queue'[n] # j /\ status[queue'[n]] = "Queued"
      BY <3>1, QueueAfterRemoval
    <3>5. queue' \in Seq(Job)
      BY <3>1, RemoveAtFacts
    <3>6. \A n \in DOMAIN queue' : status'[queue'[n]] = "Queued"
      BY <3>2, <3>4, <3>5
    <3> QED
      BY <1>14, <2>1, <3>2, <3>3, <3>6 DEF CloseCancel, DropQueued
  <2>2. ASSUME CancelContext(j) PROVE Structure'
    BY <1>14, <2>2 DEF CloseCancel, CancelContext
  <2>3. ASSUME UNCHANGED <<runnerVars, canceled>> PROVE Structure'
    BY <1>14, <2>3 DEF CloseCancel
  <2> QED
    BY <1>14, <2>1, <2>2, <2>3 DEF CloseCancel
<1>15. ASSUME NEW j \in Job, Dispatch(j) PROVE Structure'
  <2>1. PICK i \in DOMAIN queue : queue[i] = j /\ queue' = RemoveAt(queue, i)
    BY <1>15 DEF Dispatch, Eligible
  <2>2. status[j] = "Queued" /\ status' = [status EXCEPT ![j] = "Running"]
    BY <1>15, <2>1 DEF Dispatch
  <2>3. \A n, m \in DOMAIN queue' : queue'[n] = queue'[m] => n = m
    BY <2>1, QueueAfterRemoval
  <2>4. \A n \in DOMAIN queue' : queue'[n] # j /\ status[queue'[n]] = "Queued"
    BY <2>1, QueueAfterRemoval
  <2>5. queue' \in Seq(Job)
    BY <2>1, RemoveAtFacts
  <2>6. \A n \in DOMAIN queue' : status'[queue'[n]] = "Queued"
    BY <2>2, <2>4, <2>5
  <2>7. /\ \A k \in Job : k \in running' <=> status'[k] = "Running"
        /\ \A k \in Job : status'[k] = "Running" <=> run'[k] \notin {"none", "over"}
    BY <1>15, <2>2 DEF Dispatch
  <2>8. /\ \A k \in Job : leader'[k] \in {"alive", "zombie"} => run'[k] = "wait"
        /\ \A k \in Job : straggler'[k] => run'[k] \in {"wait", "group", "grace"}
    <3>1. leader[j] \notin {"alive", "zombie"} /\ ~straggler[j]
      BY <2>2
    <3>2. UNCHANGED <<leader, straggler>> /\ run' = [run EXCEPT ![j] = "lease"]
      BY <1>15 DEF Dispatch
    <3> QED
      BY <3>1, <3>2
  <2> QED
    BY <2>3, <2>6, <2>7, <2>8
<1>16. ASSUME NEW j \in Job, Pause(j) PROVE Structure'
  BY <1>16 DEF Pause
<1>17. ASSUME NEW j \in Job, Resume(j) PROVE Structure'
  BY <1>17 DEF Resume
<1>18. ASSUME NEW j \in Job, TakeLease(j) PROVE Structure'
  BY <1>18 DEF TakeLease
<1>19. ASSUME NEW j \in Job, Start(j) PROVE Structure'
  BY <1>19 DEF Start
<1>20. ASSUME NEW j \in Job, StartFails(j) PROVE Structure'
  BY <1>20 DEF StartFails
<1>21. ASSUME NEW j \in Job, WaitReaps(j) PROVE Structure'
  BY <1>21 DEF WaitReaps
<1>22. ASSUME NEW j \in Job, WaitReturns(j) PROVE Structure'
  BY <1>22 DEF WaitReturns
<1>23. ASSUME NEW j \in Job, ReapGroup(j) PROVE Structure'
  BY <1>23 DEF ReapGroup, AfterLeader
<1>24. ASSUME NEW j \in Job, ReapGroupEnds(j) PROVE Structure'
  BY <1>24 DEF ReapGroupEnds
<1>25. ASSUME NEW j \in Job, ReturnLease(j) PROVE Structure'
  <2>1. UNCHANGED queue /\ \A i \in DOMAIN queue : queue[i] \in Job
    BY <1>25 DEF ReturnLease
  <2>2. \A i \in DOMAIN queue : status'[queue[i]] = "Queued"
    BY <1>25, <2>1 DEF ReturnLease
  <2>3. /\ \A k \in Job : k \in running' <=> status'[k] = "Running"
        /\ \A k \in Job : status'[k] = "Running" <=> run'[k] \notin {"none", "over"}
    BY <1>25 DEF ReturnLease
  <2>4. /\ \A k \in Job : leader'[k] \in {"alive", "zombie"} => run'[k] = "wait"
        /\ \A k \in Job : straggler'[k] => run'[k] \in {"wait", "group", "grace"}
    BY <1>25 DEF ReturnLease
  <2> QED
    BY <2>1, <2>2, <2>3, <2>4
<1>26. ASSUME NEW j \in Job, Finish(j) PROVE Structure'
  <2>1. UNCHANGED queue /\ \A i \in DOMAIN queue : queue[i] \in Job
    BY <1>26 DEF Finish, Outcome
  <2>2. \A i \in DOMAIN queue : status'[queue[i]] = "Queued"
    BY <1>26, <2>1, ZenonT(60) DEF Finish, Outcome
  <2>3. /\ \A k \in Job : k \in running' <=> status'[k] = "Running"
        /\ \A k \in Job : status'[k] = "Running" <=> run'[k] \notin {"none", "over"}
    BY <1>26 DEF Finish, Outcome
  <2>4. /\ \A k \in Job : leader'[k] \in {"alive", "zombie"} => run'[k] = "wait"
        /\ \A k \in Job : straggler'[k] => run'[k] \in {"wait", "group", "grace"}
    BY <1>26 DEF Finish, Outcome
  <2> QED
    BY <2>1, <2>2, <2>3, <2>4
<1>27. ASSUME NEW j \in Job, ReaperSeesExit(j) PROVE Structure'
  BY <1>27 DEF ReaperSeesExit
<1>28. ASSUME NEW j \in Job, ReaperTerms(j) PROVE Structure'
  BY <1>28 DEF ReaperTerms
<1>29. ASSUME NEW j \in Job, ReaperSeesGone(j) PROVE Structure'
  BY <1>29 DEF ReaperSeesGone
<1>30. ASSUME NEW j \in Job, ReaperKills(j) PROVE Structure'
  BY <1>30 DEF ReaperKills
<1>31. ASSUME NEW j \in Job, SigStop(j) PROVE Structure'
  BY <1>31 DEF SigStop
<1>32. ASSUME NEW j \in Job, SuspendLease(j) PROVE Structure'
  BY <1>32 DEF SuspendLease
<1>33. ASSUME NEW j \in Job, RecordPause(j) PROVE Structure'
  BY <1>33 DEF RecordPause
<1>34. ASSUME NEW j \in Job, AbandonPause(j) PROVE Structure'
  BY <1>34 DEF AbandonPause
<1>35. ASSUME NEW j \in Job, HandOverLane(j) PROVE Structure'
  BY <1>35 DEF HandOverLane
<1>36. ASSUME NEW j \in Job, ResumeLease(j) PROVE Structure'
  BY <1>36 DEF ResumeLease
<1>37. ASSUME NEW j \in Job, SigCont(j) PROVE Structure'
  BY <1>37 DEF SigCont
<1>38. ASSUME NEW j \in Job, RecordResume(j) PROVE Structure'
  BY <1>38 DEF RecordResume
<1>39. ASSUME NEW j \in Job, StragglerExits(j) PROVE Structure'
  BY <1>39 DEF StragglerExits
<1>40. ASSUME NEW j \in Job, NEW how \in {"ok", "fail"}, NEW leaves \in BOOLEAN,
            LeaderExits(j, how, leaves) PROVE Structure'
  BY <1>40 DEF LeaderExits
<1>41. ASSUME UNCHANGED vars PROVE Structure'
  BY <1>41 DEF vars
<1> HIDE DEF Structure, TypeOK
<1> QED
  BY <1>1, <1>2, <1>3, <1>4, <1>5, <1>6, <1>6a, <1>7, <1>8, <1>9, <1>10, <1>11,
       <1>12, <1>13, <1>14, <1>15, <1>16, <1>17, <1>18, <1>19, <1>20, <1>21,
       <1>22, <1>23, <1>24, <1>25, <1>26, <1>27, <1>28, <1>29, <1>30, <1>31,
       <1>32, <1>33, <1>34, <1>35, <1>36, <1>37, <1>38, <1>39, <1>40, <1>41
  DEF Next, Callers, Closer, Scheduler, Runs, Reaps, Toggles, Processes

\* Every step keeps the reservations.
LEMMA StepReserved == TypeOK /\ Structure /\ Reserved /\ [Next]_vars => Reserved'
<1> SUFFICES ASSUME TypeOK, Structure, Reserved, [Next]_vars PROVE Reserved'
  OBVIOUS
<1> USE DEF Reserved, TypeOK, Terminal, runnerVars, laneVars, closeVars, pauseVars,
            processVars, runVars
<1>1. ASSUME ReleaseAll PROVE Reserved'
  BY <1>1 DEF ReleaseAll
<1>2. ASSUME CloseBegin PROVE Reserved'
  BY <1>2 DEF CloseBegin
<1>3. ASSUME CloseSnapshot PROVE Reserved'
  BY <1>3 DEF CloseSnapshot
<1>4. ASSUME CloseWait PROVE Reserved'
  BY <1>4 DEF CloseWait
<1>5. ASSUME CloseReturn PROVE Reserved'
  BY <1>5 DEF CloseReturn
<1>6. ASSUME DispatchNone PROVE Reserved'
  BY <1>6 DEF DispatchNone, MayLeave
<1>6a. ASSUME CheckIdle PROVE Reserved'
  BY <1>6a DEF CheckIdle, MayLeave
<1>7. ASSUME Woken PROVE Reserved'
  BY <1>7 DEF Woken
<1>8. ASSUME Tick PROVE Reserved'
  BY <1>8 DEF Tick
<1>9. ASSUME NEW m \in 1..Cardinality(Job), NEW js \in [1..m -> Job],
            NEW hs \in SUBSET Job, Restore(js, hs) PROVE Reserved'
  BY <1>9 DEF Restore
<1>10. ASSUME NEW c \in LimitChoices, SetLanes(c) PROVE Reserved'
  BY <1>10 DEF SetLanes
<1>11. ASSUME NEW j \in Job, Submit(j) PROVE Reserved'
  BY <1>11 DEF Submit
<1>12. ASSUME NEW j \in Job, Release(j) PROVE Reserved'
  BY <1>12 DEF Release
<1>13. ASSUME NEW j \in Job, Cancel(j) PROVE Reserved'
  BY <1>13 DEF Cancel, DropQueued, CancelContext
<1>14. ASSUME NEW j \in Job, CloseCancel(j) PROVE Reserved'
  BY <1>14 DEF CloseCancel, DropQueued, CancelContext
<1>15. ASSUME NEW j \in Job, Dispatch(j) PROVE Reserved'
  BY <1>15, HoldKeyType DEF Dispatch, Eligible, KeyFree
<1>16. ASSUME NEW j \in Job, Pause(j) PROVE Reserved'
  BY <1>16 DEF Pause
<1>17. ASSUME NEW j \in Job, Resume(j) PROVE Reserved'
  BY <1>17 DEF Resume
<1>18. ASSUME NEW j \in Job, TakeLease(j) PROVE Reserved'
  BY <1>18 DEF TakeLease
<1>19. ASSUME NEW j \in Job, Start(j) PROVE Reserved'
  BY <1>19 DEF Start
<1>20. ASSUME NEW j \in Job, StartFails(j) PROVE Reserved'
  BY <1>20 DEF StartFails
<1>21. ASSUME NEW j \in Job, WaitReaps(j) PROVE Reserved'
  BY <1>21 DEF WaitReaps
<1>22. ASSUME NEW j \in Job, WaitReturns(j) PROVE Reserved'
  BY <1>22 DEF WaitReturns
<1>23. ASSUME NEW j \in Job, ReapGroup(j) PROVE Reserved'
  BY <1>23 DEF ReapGroup
<1>24. ASSUME NEW j \in Job, ReapGroupEnds(j) PROVE Reserved'
  BY <1>24 DEF ReapGroupEnds
<1>25. ASSUME NEW j \in Job, ReturnLease(j) PROVE Reserved'
  BY <1>25 DEF ReturnLease
<1>26. ASSUME NEW j \in Job, Finish(j) PROVE Reserved'
  BY <1>26, HoldKeyType DEF Finish
<1>27. ASSUME NEW j \in Job, ReaperSeesExit(j) PROVE Reserved'
  BY <1>27 DEF ReaperSeesExit
<1>28. ASSUME NEW j \in Job, ReaperTerms(j) PROVE Reserved'
  BY <1>28 DEF ReaperTerms
<1>29. ASSUME NEW j \in Job, ReaperSeesGone(j) PROVE Reserved'
  BY <1>29 DEF ReaperSeesGone
<1>30. ASSUME NEW j \in Job, ReaperKills(j) PROVE Reserved'
  BY <1>30 DEF ReaperKills
<1>31. ASSUME NEW j \in Job, SigStop(j) PROVE Reserved'
  BY <1>31 DEF SigStop
<1>32. ASSUME NEW j \in Job, SuspendLease(j) PROVE Reserved'
  BY <1>32 DEF SuspendLease
<1>33. ASSUME NEW j \in Job, RecordPause(j) PROVE Reserved'
  BY <1>33 DEF RecordPause
<1>34. ASSUME NEW j \in Job, AbandonPause(j) PROVE Reserved'
  BY <1>34 DEF AbandonPause
<1>35. ASSUME NEW j \in Job, HandOverLane(j) PROVE Reserved'
  BY <1>35 DEF HandOverLane
<1>36. ASSUME NEW j \in Job, ResumeLease(j) PROVE Reserved'
  BY <1>36 DEF ResumeLease
<1>37. ASSUME NEW j \in Job, SigCont(j) PROVE Reserved'
  BY <1>37 DEF SigCont
<1>38. ASSUME NEW j \in Job, RecordResume(j) PROVE Reserved'
  BY <1>38 DEF RecordResume
<1>39. ASSUME NEW j \in Job, StragglerExits(j) PROVE Reserved'
  BY <1>39 DEF StragglerExits
<1>40. ASSUME NEW j \in Job, NEW how \in {"ok", "fail"}, NEW leaves \in BOOLEAN,
            LeaderExits(j, how, leaves) PROVE Reserved'
  BY <1>40 DEF LeaderExits
<1>41. ASSUME UNCHANGED vars PROVE Reserved'
  BY <1>41 DEF vars
<1> HIDE DEF Reserved, TypeOK
<1> QED
  BY <1>1, <1>2, <1>3, <1>4, <1>5, <1>6, <1>6a, <1>7, <1>8, <1>9, <1>10, <1>11,
       <1>12, <1>13, <1>14, <1>15, <1>16, <1>17, <1>18, <1>19, <1>20, <1>21,
       <1>22, <1>23, <1>24, <1>25, <1>26, <1>27, <1>28, <1>29, <1>30, <1>31,
       <1>32, <1>33, <1>34, <1>35, <1>36, <1>37, <1>38, <1>39, <1>40, <1>41
  DEF Next, Callers, Closer, Scheduler, Runs, Reaps, Toggles, Processes

\* Every step keeps the consent: only a click or a submission gives it, and
\* the hold of a billed job is lifted by nothing else.
LEMMA StepConsented == TypeOK /\ Structure /\ Consented /\ [Next]_vars => Consented'
<1> SUFFICES ASSUME TypeOK, Structure, Consented, [Next]_vars PROVE Consented'
  OBVIOUS
<1> USE DEF Consented, TypeOK, Terminal, runnerVars, laneVars, closeVars, pauseVars,
            processVars, runVars
<1>1. ASSUME ReleaseAll PROVE Consented'
  BY <1>1 DEF ReleaseAll, Queued
<1>2. ASSUME CloseBegin PROVE Consented'
  BY <1>2 DEF CloseBegin
<1>3. ASSUME CloseSnapshot PROVE Consented'
  BY <1>3 DEF CloseSnapshot
<1>4. ASSUME CloseWait PROVE Consented'
  BY <1>4 DEF CloseWait
<1>5. ASSUME CloseReturn PROVE Consented'
  BY <1>5 DEF CloseReturn
<1>6. ASSUME DispatchNone PROVE Consented'
  BY <1>6 DEF DispatchNone, MayLeave
<1>6a. ASSUME CheckIdle PROVE Consented'
  BY <1>6a DEF CheckIdle, MayLeave
<1>7. ASSUME Woken PROVE Consented'
  BY <1>7 DEF Woken
<1>8. ASSUME Tick PROVE Consented'
  BY <1>8 DEF Tick
<1>9. ASSUME NEW m \in 1..Cardinality(Job), NEW js \in [1..m -> Job],
            NEW hs \in SUBSET Job, Restore(js, hs) PROVE Consented'
  <2>1. ASSUME NEW k \in Job, laneOf(k) = "metered", status'[k] \in {"Queued", "Running"}
        PROVE  status'[k] = "Queued" /\ held'[k]
    <3>1. PICK i \in DOMAIN js : js[i] = k
      BY <1>9, <2>1 DEF Restore
    <3>2. k \in hs
      BY <1>9, <2>1, <3>1 DEF Restore
    <3> QED
      BY <1>9, <3>1, <3>2 DEF Restore
  <2> QED
    BY <2>1
<1>10. ASSUME NEW c \in LimitChoices, SetLanes(c) PROVE Consented'
  BY <1>10 DEF SetLanes
<1>11. ASSUME NEW j \in Job, Submit(j) PROVE Consented'
  BY <1>11 DEF Submit
<1>12. ASSUME NEW j \in Job, Release(j) PROVE Consented'
  BY <1>12 DEF Release, Queued
<1>13. ASSUME NEW j \in Job, Cancel(j) PROVE Consented'
  BY <1>13, RemoveAtFacts DEF Cancel, DropQueued, CancelContext
<1>14. ASSUME NEW j \in Job, CloseCancel(j) PROVE Consented'
  BY <1>14, RemoveAtFacts DEF CloseCancel, DropQueued, CancelContext
<1>15. ASSUME NEW j \in Job, Dispatch(j) PROVE Consented'
  BY <1>15, RemoveAtFacts DEF Dispatch, Eligible, Structure
<1>16. ASSUME NEW j \in Job, Pause(j) PROVE Consented'
  BY <1>16 DEF Pause
<1>17. ASSUME NEW j \in Job, Resume(j) PROVE Consented'
  BY <1>17 DEF Resume
<1>18. ASSUME NEW j \in Job, TakeLease(j) PROVE Consented'
  BY <1>18 DEF TakeLease
<1>19. ASSUME NEW j \in Job, Start(j) PROVE Consented'
  BY <1>19 DEF Start
<1>20. ASSUME NEW j \in Job, StartFails(j) PROVE Consented'
  BY <1>20 DEF StartFails
<1>21. ASSUME NEW j \in Job, WaitReaps(j) PROVE Consented'
  BY <1>21 DEF WaitReaps
<1>22. ASSUME NEW j \in Job, WaitReturns(j) PROVE Consented'
  BY <1>22 DEF WaitReturns
<1>23. ASSUME NEW j \in Job, ReapGroup(j) PROVE Consented'
  BY <1>23 DEF ReapGroup
<1>24. ASSUME NEW j \in Job, ReapGroupEnds(j) PROVE Consented'
  BY <1>24 DEF ReapGroupEnds
<1>25. ASSUME NEW j \in Job, ReturnLease(j) PROVE Consented'
  BY <1>25 DEF ReturnLease
<1>26. ASSUME NEW j \in Job, Finish(j) PROVE Consented'
  BY <1>26 DEF Finish, Outcome
<1>27. ASSUME NEW j \in Job, ReaperSeesExit(j) PROVE Consented'
  BY <1>27 DEF ReaperSeesExit
<1>28. ASSUME NEW j \in Job, ReaperTerms(j) PROVE Consented'
  BY <1>28 DEF ReaperTerms
<1>29. ASSUME NEW j \in Job, ReaperSeesGone(j) PROVE Consented'
  BY <1>29 DEF ReaperSeesGone
<1>30. ASSUME NEW j \in Job, ReaperKills(j) PROVE Consented'
  BY <1>30 DEF ReaperKills
<1>31. ASSUME NEW j \in Job, SigStop(j) PROVE Consented'
  BY <1>31 DEF SigStop
<1>32. ASSUME NEW j \in Job, SuspendLease(j) PROVE Consented'
  BY <1>32 DEF SuspendLease
<1>33. ASSUME NEW j \in Job, RecordPause(j) PROVE Consented'
  BY <1>33 DEF RecordPause
<1>34. ASSUME NEW j \in Job, AbandonPause(j) PROVE Consented'
  BY <1>34 DEF AbandonPause
<1>35. ASSUME NEW j \in Job, HandOverLane(j) PROVE Consented'
  BY <1>35 DEF HandOverLane, Heir, Heirs, HandsOver
<1>36. ASSUME NEW j \in Job, ResumeLease(j) PROVE Consented'
  BY <1>36 DEF ResumeLease
<1>37. ASSUME NEW j \in Job, SigCont(j) PROVE Consented'
  BY <1>37 DEF SigCont
<1>38. ASSUME NEW j \in Job, RecordResume(j) PROVE Consented'
  BY <1>38 DEF RecordResume
<1>39. ASSUME NEW j \in Job, StragglerExits(j) PROVE Consented'
  BY <1>39 DEF StragglerExits
<1>40. ASSUME NEW j \in Job, NEW how \in {"ok", "fail"}, NEW leaves \in BOOLEAN,
            LeaderExits(j, how, leaves) PROVE Consented'
  BY <1>40 DEF LeaderExits
<1>41. ASSUME UNCHANGED vars PROVE Consented'
  BY <1>41 DEF vars
<1> HIDE DEF Consented, TypeOK
<1> QED
  BY <1>1, <1>2, <1>3, <1>4, <1>5, <1>6, <1>6a, <1>7, <1>8, <1>9, <1>10, <1>11,
       <1>12, <1>13, <1>14, <1>15, <1>16, <1>17, <1>18, <1>19, <1>20, <1>21,
       <1>22, <1>23, <1>24, <1>25, <1>26, <1>27, <1>28, <1>29, <1>30, <1>31,
       <1>32, <1>33, <1>34, <1>35, <1>36, <1>37, <1>38, <1>39, <1>40, <1>41
  DEF Next, Callers, Closer, Scheduler, Runs, Reaps, Toggles, Processes

-----------------------------------------------------------------------------
(***************************************************************************)
(* The lanes.                                                              *)
(***************************************************************************)
\* A lane's running, unpaused, never resumed jobs are within the highest limit
\* the lane has had, which no current limit exceeds.
LaneInv == LaneBound /\ \A l \in Lane : limit[l] <= peak[l]

\* A step that starts nothing and wakes nothing it does not count as resumed
\* leaves every lane as full as it was, or emptier.
LEMMA LaneShrinks ==
  ASSUME TypeOK, TypeOK', LaneBound,
         running' \subseteq running, resumed \subseteq resumed',
         \A j \in running' : paused[j] => paused'[j] \/ j \in resumed',
         \A l \in Lane : peak[l] <= peak'[l]
  PROVE  LaneBound'
<1> SUFFICES ASSUME NEW l \in Lane
             PROVE  Cardinality(Active(l)' \ resumed') <= peak'[l]
  BY DEF LaneBound
<1>1. Active(l)' \ resumed' \subseteq Active(l) \ resumed
  BY DEF Active, laneOf
<1>2. IsFiniteSet(Active(l) \ resumed)
  BY JobAttributes, FS_Subset DEF Active, TypeOK
<1>3. /\ Cardinality(Active(l)' \ resumed') <= Cardinality(Active(l) \ resumed)
      /\ IsFiniteSet(Active(l)' \ resumed')
  BY <1>1, <1>2, FS_Subset
<1>4. /\ Cardinality(Active(l)' \ resumed') \in Nat
      /\ Cardinality(Active(l) \ resumed) \in Nat
  BY <1>2, <1>3, FS_CardinalityType
<1>5. peak[l] \in Nat /\ peak'[l] \in Nat
  BY DEF TypeOK
<1> QED
  BY <1>3, <1>4, <1>5 DEF LaneBound

\* A dispatch adds one job to a lane that has room for it, and to no other.
LEMMA DispatchKeepsLanes ==
  ASSUME TypeOK, LaneInv, NEW j \in Job, Dispatch(j)
  PROVE  LaneBound'
<1> SUFFICES ASSUME NEW l \in Lane
             PROVE  Cardinality(Active(l)' \ resumed') <= peak'[l]
  BY DEF LaneBound
<1>1. /\ HasRoom(laneOf(j))
      /\ running' = running \cup {j}
      /\ UNCHANGED <<paused, resumed, limit, peak>>
  BY DEF Dispatch, Eligible, laneVars, pauseVars
<1>2. peak[l] \in Nat /\ limit[l] \in Nat /\ limit[l] <= peak[l]
  BY DEF TypeOK, LaneInv
<1>3. IsFiniteSet(Active(l)) /\ Active(l) \subseteq Job
  BY JobAttributes, FS_Subset DEF Active, TypeOK
<1>4. IsFiniteSet(Active(l) \ resumed) /\ Cardinality(Active(l) \ resumed) \in Nat
  BY <1>3, FS_Subset, FS_CardinalityType
<1>5. CASE laneOf(j) # l
  <2>1. Active(l)' \ resumed' = Active(l) \ resumed
    BY <1>1, <1>5 DEF Active, laneOf
  <2> QED
    BY <1>1, <2>1 DEF LaneInv, LaneBound
<1>6. CASE laneOf(j) = l
  <2>1. Active(l)' \ resumed' \subseteq Active(l) \cup {j}
    BY <1>1 DEF Active, laneOf
  <2>2. Cardinality(Active(l)) \in Nat /\ Cardinality(Active(l)) < limit[l]
    BY <1>1, <1>3, <1>6, FS_CardinalityType DEF HasRoom
  <2>3. /\ IsFiniteSet(Active(l) \cup {j})
        /\ Cardinality(Active(l) \cup {j}) <= Cardinality(Active(l)) + 1
    <3>1. /\ IsFiniteSet(Active(l) \cup {j})
          /\ Cardinality(Active(l) \cup {j}) =
               IF j \in Active(l) THEN Cardinality(Active(l))
                                 ELSE Cardinality(Active(l)) + 1
      BY <1>3, FS_AddElement
    <3> QED
      BY <2>2, <3>1
  <2>4. /\ Cardinality(Active(l)' \ resumed') <= Cardinality(Active(l) \cup {j})
        /\ IsFiniteSet(Active(l)' \ resumed')
    BY <2>1, <2>3, FS_Subset
  <2>5. /\ Cardinality(Active(l)' \ resumed') \in Nat
        /\ Cardinality(Active(l) \cup {j}) \in Nat
    BY <2>3, <2>4, FS_CardinalityType
  <2> QED
    BY <1>1, <1>2, <2>2, <2>3, <2>4, <2>5
<1> QED
  BY <1>5, <1>6

\* Every step keeps the lanes within bounds.
LEMMA StepLanes == TypeOK /\ LaneInv /\ [Next]_vars => LaneInv'
<1> SUFFICES ASSUME TypeOK, LaneInv, [Next]_vars PROVE LaneInv'
  OBVIOUS
<1>0. TypeOK' /\ \A l \in Lane : peak[l] \in Nat /\ limit[l] \in Nat
  BY StepTypeOK DEF TypeOK
<1>1. ASSUME NEW c \in LimitChoices, SetLanes(c)
      PROVE  LaneInv'
  <2>1. \A l \in Lane : peak[l] <= peak'[l] /\ limit'[l] <= peak'[l]
    BY <1>0, <1>1, LimitsPositive DEF SetLanes, NewLimit, LaneInv
  <2>2. UNCHANGED <<running, resumed, paused>>
    BY <1>1 DEF SetLanes, runnerVars, pauseVars
  <2> QED
    BY <1>0, <2>1, <2>2, LaneShrinks DEF LaneInv
<1>2. ASSUME NEW j \in Job, Dispatch(j)
      PROVE  LaneInv'
  <2>1. UNCHANGED <<limit, peak>>
    BY <1>2 DEF Dispatch, laneVars
  <2> QED
    BY <1>2, <2>1, DispatchKeepsLanes DEF LaneInv
<1>3. ASSUME NEW j \in Job, RecordResume(j)
      PROVE  LaneInv'
  <2>1. /\ UNCHANGED <<running, limit, peak>> /\ resumed \subseteq resumed'
        /\ \A k \in running' : paused[k] => paused'[k] \/ k \in resumed'
    BY <1>3 DEF RecordResume, runnerVars, laneVars, TypeOK
  <2> QED
    BY <1>0, <2>1, LaneShrinks DEF LaneInv
<1>4. ASSUME NEW j \in Job, Finish(j)
      PROVE  LaneInv'
  <2>1. /\ UNCHANGED <<resumed, limit, peak>> /\ running' = running \ {j}
        /\ paused' = [paused EXCEPT ![j] = FALSE]
    BY <1>4 DEF Finish, laneVars
  <2>2. running \subseteq Job /\ paused \in [Job -> BOOLEAN]
    BY DEF TypeOK
  <2> QED
    BY <1>0, <2>1, <2>2, LaneShrinks DEF LaneInv
<1>5. ASSUME NEW j \in Job, RecordPause(j)
      PROVE  LaneInv'
  <2>1. /\ UNCHANGED <<running, resumed, limit, peak>>
        /\ paused' = [paused EXCEPT ![j] = TRUE]
    BY <1>5 DEF RecordPause, runnerVars, laneVars
  <2>2. running \subseteq Job /\ paused \in [Job -> BOOLEAN]
    BY DEF TypeOK
  <2> QED
    BY <1>0, <2>1, <2>2, LaneShrinks DEF LaneInv
<1>6. ASSUME UNCHANGED <<running, paused, resumed, limit, peak>>
      PROVE  LaneInv'
  BY <1>0, <1>6, LaneShrinks DEF LaneInv
<1> USE <1>6 DEF runnerVars, laneVars, pauseVars
<1>11. ASSUME ReleaseAll PROVE LaneInv'
  BY <1>11 DEF ReleaseAll
<1>12. ASSUME CloseBegin PROVE LaneInv'
  BY <1>12 DEF CloseBegin
<1>13. ASSUME CloseSnapshot PROVE LaneInv'
  BY <1>13 DEF CloseSnapshot
<1>14. ASSUME CloseWait PROVE LaneInv'
  BY <1>14 DEF CloseWait
<1>15. ASSUME CloseReturn PROVE LaneInv'
  BY <1>15 DEF CloseReturn
<1>16. ASSUME DispatchNone PROVE LaneInv'
  BY <1>16 DEF DispatchNone
<1>16a. ASSUME CheckIdle PROVE LaneInv'
  BY <1>16a DEF CheckIdle, MayLeave
<1>17. ASSUME Woken PROVE LaneInv'
  BY <1>17 DEF Woken
<1>18. ASSUME Tick PROVE LaneInv'
  BY <1>18 DEF Tick
<1>19. ASSUME NEW m \in 1..Cardinality(Job), NEW js \in [1..m -> Job],
            NEW hs \in SUBSET Job, Restore(js, hs) PROVE LaneInv'
  BY <1>19 DEF Restore
<1>20. ASSUME NEW j \in Job, Submit(j) PROVE LaneInv'
  BY <1>20 DEF Submit
<1>21. ASSUME NEW j \in Job, Release(j) PROVE LaneInv'
  BY <1>21 DEF Release
<1>22. ASSUME NEW j \in Job, Cancel(j) PROVE LaneInv'
  BY <1>22 DEF Cancel, DropQueued, CancelContext
<1>23. ASSUME NEW j \in Job, CloseCancel(j) PROVE LaneInv'
  BY <1>23 DEF CloseCancel, DropQueued, CancelContext
<1>24. ASSUME NEW j \in Job, Pause(j) PROVE LaneInv'
  BY <1>24 DEF Pause
<1>25. ASSUME NEW j \in Job, Resume(j) PROVE LaneInv'
  BY <1>25 DEF Resume
<1>26. ASSUME NEW j \in Job, TakeLease(j) PROVE LaneInv'
  BY <1>26 DEF TakeLease
<1>27. ASSUME NEW j \in Job, Start(j) PROVE LaneInv'
  BY <1>27 DEF Start
<1>28. ASSUME NEW j \in Job, StartFails(j) PROVE LaneInv'
  BY <1>28 DEF StartFails
<1>29. ASSUME NEW j \in Job, WaitReaps(j) PROVE LaneInv'
  BY <1>29 DEF WaitReaps
<1>30. ASSUME NEW j \in Job, WaitReturns(j) PROVE LaneInv'
  BY <1>30 DEF WaitReturns
<1>31. ASSUME NEW j \in Job, ReapGroup(j) PROVE LaneInv'
  BY <1>31 DEF ReapGroup
<1>32. ASSUME NEW j \in Job, ReapGroupEnds(j) PROVE LaneInv'
  BY <1>32 DEF ReapGroupEnds
<1>33. ASSUME NEW j \in Job, ReturnLease(j) PROVE LaneInv'
  BY <1>33 DEF ReturnLease
<1>34. ASSUME NEW j \in Job, ReaperSeesExit(j) PROVE LaneInv'
  BY <1>34 DEF ReaperSeesExit
<1>35. ASSUME NEW j \in Job, ReaperTerms(j) PROVE LaneInv'
  BY <1>35 DEF ReaperTerms
<1>36. ASSUME NEW j \in Job, ReaperSeesGone(j) PROVE LaneInv'
  BY <1>36 DEF ReaperSeesGone
<1>37. ASSUME NEW j \in Job, ReaperKills(j) PROVE LaneInv'
  BY <1>37 DEF ReaperKills
<1>38. ASSUME NEW j \in Job, SigStop(j) PROVE LaneInv'
  BY <1>38 DEF SigStop
<1>39. ASSUME NEW j \in Job, SuspendLease(j) PROVE LaneInv'
  BY <1>39 DEF SuspendLease
<1>40. ASSUME NEW j \in Job, AbandonPause(j) PROVE LaneInv'
  BY <1>40 DEF AbandonPause
<1>41. ASSUME NEW j \in Job, HandOverLane(j) PROVE LaneInv'
  BY <1>41 DEF HandOverLane
<1>42. ASSUME NEW j \in Job, ResumeLease(j) PROVE LaneInv'
  BY <1>42 DEF ResumeLease
<1>43. ASSUME NEW j \in Job, SigCont(j) PROVE LaneInv'
  BY <1>43 DEF SigCont
<1>44. ASSUME NEW j \in Job, StragglerExits(j) PROVE LaneInv'
  BY <1>44 DEF StragglerExits
<1>45. ASSUME NEW j \in Job, NEW how \in {"ok", "fail"}, NEW leaves \in BOOLEAN,
            LeaderExits(j, how, leaves) PROVE LaneInv'
  BY <1>45 DEF LeaderExits
<1>46. ASSUME UNCHANGED vars PROVE LaneInv'
  BY <1>46 DEF vars
<1> QED
  BY <1>1, <1>2, <1>3, <1>4, <1>5, <1>11, <1>12, <1>13, <1>14, <1>15, <1>16, <1>16a,
       <1>17, <1>18, <1>19, <1>20, <1>21, <1>22, <1>23, <1>24, <1>25, <1>26,
       <1>27, <1>28, <1>29, <1>30, <1>31, <1>32, <1>33, <1>34, <1>35, <1>36,
       <1>37, <1>38, <1>39, <1>40, <1>41, <1>42, <1>43, <1>44, <1>45, <1>46
  DEF Next, Callers, Closer, Scheduler, Runs, Reaps, Toggles, Processes

-----------------------------------------------------------------------------
(***************************************************************************)
(* The lease, and the end of Close.                                        *)
(***************************************************************************)
\* A lease is out only while run is between taking it and returning it, and a
\* job that has not been dispatched has no run.
LeaseInv ==
  /\ \A j \in Job : run[j] \in {"none", "lease"} => lease[j] = "none"
  /\ \A j \in Job : run[j] \in {"finish", "over"} => lease[j] \in {"none", "released"}
  /\ \A j \in Job : status[j] \in {"none", "Queued"} => run[j] = "none"

\* The scheduler leaves only a closed, idle runner; Close returns after it.
CloseInv ==
  /\ loop = "exited" => closed /\ running = {}
  /\ closing = "closed" => loop = "exited"
\* Before anything runs no lease is out and Close has not been called.
LEMMA InitLeaseClose == Init => LeaseInv /\ CloseInv
BY DEF Init, LeaseInv, CloseInv, closed

\* Every step keeps the leases, a pause or resume of an exited job included.
LEMMA StepLease == TypeOK /\ Structure /\ LeaseInv /\ [Next]_vars => LeaseInv'
<1> SUFFICES ASSUME TypeOK, Structure, LeaseInv, [Next]_vars PROVE LeaseInv'
  OBVIOUS
<1> USE DEF LeaseInv, TypeOK, Terminal, runnerVars, laneVars, closeVars, pauseVars,
            processVars, runVars
<1>1. ASSUME ReleaseAll PROVE LeaseInv'
  BY <1>1 DEF ReleaseAll
<1>2. ASSUME CloseBegin PROVE LeaseInv'
  BY <1>2 DEF CloseBegin
<1>3. ASSUME CloseSnapshot PROVE LeaseInv'
  BY <1>3 DEF CloseSnapshot
<1>4. ASSUME CloseWait PROVE LeaseInv'
  BY <1>4 DEF CloseWait
<1>5. ASSUME CloseReturn PROVE LeaseInv'
  BY <1>5 DEF CloseReturn
<1>6. ASSUME DispatchNone PROVE LeaseInv'
  BY <1>6 DEF DispatchNone, MayLeave
<1>6a. ASSUME CheckIdle PROVE LeaseInv'
  BY <1>6a DEF CheckIdle, MayLeave
<1>7. ASSUME Woken PROVE LeaseInv'
  BY <1>7 DEF Woken
<1>8. ASSUME Tick PROVE LeaseInv'
  BY <1>8 DEF Tick
<1>9. ASSUME NEW m \in 1..Cardinality(Job), NEW js \in [1..m -> Job],
            NEW hs \in SUBSET Job, Restore(js, hs) PROVE LeaseInv'
  BY <1>9 DEF Restore
<1>10. ASSUME NEW c \in LimitChoices, SetLanes(c) PROVE LeaseInv'
  BY <1>10 DEF SetLanes
<1>11. ASSUME NEW j \in Job, Submit(j) PROVE LeaseInv'
  BY <1>11 DEF Submit
<1>12. ASSUME NEW j \in Job, Release(j) PROVE LeaseInv'
  BY <1>12 DEF Release
<1>13. ASSUME NEW j \in Job, Cancel(j) PROVE LeaseInv'
  BY <1>13, RemoveAtFacts DEF Cancel, DropQueued, CancelContext
<1>14. ASSUME NEW j \in Job, CloseCancel(j) PROVE LeaseInv'
  BY <1>14, RemoveAtFacts DEF CloseCancel, DropQueued, CancelContext
<1>15. ASSUME NEW j \in Job, Dispatch(j) PROVE LeaseInv'
  BY <1>15, RemoveAtFacts DEF Dispatch, Eligible, Structure
<1>16. ASSUME NEW j \in Job, Pause(j) PROVE LeaseInv'
  BY <1>16 DEF Pause
<1>17. ASSUME NEW j \in Job, Resume(j) PROVE LeaseInv'
  BY <1>17 DEF Resume
<1>18. ASSUME NEW j \in Job, TakeLease(j) PROVE LeaseInv'
  BY <1>18 DEF TakeLease
<1>19. ASSUME NEW j \in Job, Start(j) PROVE LeaseInv'
  BY <1>19 DEF Start
<1>20. ASSUME NEW j \in Job, StartFails(j) PROVE LeaseInv'
  BY <1>20 DEF StartFails
<1>21. ASSUME NEW j \in Job, WaitReaps(j) PROVE LeaseInv'
  BY <1>21 DEF WaitReaps
<1>22. ASSUME NEW j \in Job, WaitReturns(j) PROVE LeaseInv'
  BY <1>22 DEF WaitReturns
<1>23. ASSUME NEW j \in Job, ReapGroup(j) PROVE LeaseInv'
  BY <1>23 DEF ReapGroup, AfterLeader
<1>24. ASSUME NEW j \in Job, ReapGroupEnds(j) PROVE LeaseInv'
  BY <1>24 DEF ReapGroupEnds
<1>25. ASSUME NEW j \in Job, ReturnLease(j) PROVE LeaseInv'
  BY <1>25 DEF ReturnLease
<1>26. ASSUME NEW j \in Job, Finish(j) PROVE LeaseInv'
  BY <1>26 DEF Finish, Outcome, Structure
<1>27. ASSUME NEW j \in Job, ReaperSeesExit(j) PROVE LeaseInv'
  BY <1>27 DEF ReaperSeesExit
<1>28. ASSUME NEW j \in Job, ReaperTerms(j) PROVE LeaseInv'
  BY <1>28 DEF ReaperTerms
<1>29. ASSUME NEW j \in Job, ReaperSeesGone(j) PROVE LeaseInv'
  BY <1>29 DEF ReaperSeesGone
<1>30. ASSUME NEW j \in Job, ReaperKills(j) PROVE LeaseInv'
  BY <1>30 DEF ReaperKills
<1>31. ASSUME NEW j \in Job, SigStop(j) PROVE LeaseInv'
  BY <1>31 DEF SigStop
<1>32. ASSUME NEW j \in Job, SuspendLease(j) PROVE LeaseInv'
  BY <1>32 DEF SuspendLease, Suspend
<1>33. ASSUME NEW j \in Job, RecordPause(j) PROVE LeaseInv'
  BY <1>33 DEF RecordPause
<1>34. ASSUME NEW j \in Job, AbandonPause(j) PROVE LeaseInv'
  BY <1>34 DEF AbandonPause, Suspend
<1>35. ASSUME NEW j \in Job, HandOverLane(j) PROVE LeaseInv'
  BY <1>35 DEF HandOverLane
<1>36. ASSUME NEW j \in Job, ResumeLease(j) PROVE LeaseInv'
  BY <1>36 DEF ResumeLease, Retake
<1>37. ASSUME NEW j \in Job, SigCont(j) PROVE LeaseInv'
  <2>1. UNCHANGED <<run, status>>
    BY <1>37 DEF SigCont
  <2>2. lease' = lease \/ lease' = [lease EXCEPT ![j] = Suspend(@)]
    BY <1>37 DEF SigCont
  <2>3. Suspend("none") = "none" /\ Suspend("released") = "released"
    BY DEF Suspend
  <2>4. CASE lease' = lease
    BY <2>1, <2>4
  <2>5. CASE lease' = [lease EXCEPT ![j] = Suspend(@)]
    <3>1. \A k \in Job : lease'[k] = IF k = j THEN Suspend(lease[j]) ELSE lease[k]
      BY <2>5
    <3>2. \A k \in Job : lease[k] \in {"none", "released"} => lease'[k] = lease[k]
      BY <3>1, <2>3
    <3> QED
      BY <2>1, <3>2
  <2> QED
    BY <2>2, <2>4, <2>5
<1>38. ASSUME NEW j \in Job, RecordResume(j) PROVE LeaseInv'
  BY <1>38 DEF RecordResume
<1>39. ASSUME NEW j \in Job, StragglerExits(j) PROVE LeaseInv'
  BY <1>39 DEF StragglerExits
<1>40. ASSUME NEW j \in Job, NEW how \in {"ok", "fail"}, NEW leaves \in BOOLEAN,
            LeaderExits(j, how, leaves) PROVE LeaseInv'
  BY <1>40 DEF LeaderExits
<1>41. ASSUME UNCHANGED vars PROVE LeaseInv'
  BY <1>41 DEF vars
<1> HIDE DEF LeaseInv, TypeOK
<1> QED
  BY <1>1, <1>2, <1>3, <1>4, <1>5, <1>6, <1>6a, <1>7, <1>8, <1>9, <1>10, <1>11,
       <1>12, <1>13, <1>14, <1>15, <1>16, <1>17, <1>18, <1>19, <1>20, <1>21,
       <1>22, <1>23, <1>24, <1>25, <1>26, <1>27, <1>28, <1>29, <1>30, <1>31,
       <1>32, <1>33, <1>34, <1>35, <1>36, <1>37, <1>38, <1>39, <1>40, <1>41
  DEF Next, Callers, Closer, Scheduler, Runs, Reaps, Toggles, Processes

\* Every step keeps the order in which Close ends.
LEMMA StepClose == TypeOK /\ CloseInv /\ [Next]_vars => CloseInv'
<1> SUFFICES ASSUME TypeOK, CloseInv, [Next]_vars PROVE CloseInv'
  OBVIOUS
<1> USE DEF CloseInv, closed, TypeOK, Terminal, runnerVars, laneVars, closeVars, pauseVars,
            processVars, runVars
<1>1. ASSUME ReleaseAll PROVE CloseInv'
  BY <1>1 DEF ReleaseAll
<1>2. ASSUME CloseBegin PROVE CloseInv'
  BY <1>2 DEF CloseBegin
<1>3. ASSUME CloseSnapshot PROVE CloseInv'
  BY <1>3 DEF CloseSnapshot
<1>4. ASSUME CloseWait PROVE CloseInv'
  BY <1>4 DEF CloseWait
<1>5. ASSUME CloseReturn PROVE CloseInv'
  BY <1>5 DEF CloseReturn
<1>6. ASSUME DispatchNone PROVE CloseInv'
  BY <1>6 DEF DispatchNone, MayLeave
<1>6a. ASSUME CheckIdle PROVE CloseInv'
  BY <1>6a DEF CheckIdle, MayLeave
<1>7. ASSUME Woken PROVE CloseInv'
  BY <1>7 DEF Woken
<1>8. ASSUME Tick PROVE CloseInv'
  BY <1>8 DEF Tick
<1>9. ASSUME NEW m \in 1..Cardinality(Job), NEW js \in [1..m -> Job],
            NEW hs \in SUBSET Job, Restore(js, hs) PROVE CloseInv'
  BY <1>9 DEF Restore
<1>10. ASSUME NEW c \in LimitChoices, SetLanes(c) PROVE CloseInv'
  BY <1>10 DEF SetLanes
<1>11. ASSUME NEW j \in Job, Submit(j) PROVE CloseInv'
  BY <1>11 DEF Submit
<1>12. ASSUME NEW j \in Job, Release(j) PROVE CloseInv'
  BY <1>12 DEF Release
<1>13. ASSUME NEW j \in Job, Cancel(j) PROVE CloseInv'
  BY <1>13, RemoveAtFacts DEF Cancel, DropQueued, CancelContext
<1>14. ASSUME NEW j \in Job, CloseCancel(j) PROVE CloseInv'
  BY <1>14, RemoveAtFacts DEF CloseCancel, DropQueued, CancelContext
<1>15. ASSUME NEW j \in Job, Dispatch(j) PROVE CloseInv'
  BY <1>15, RemoveAtFacts DEF Dispatch
<1>16. ASSUME NEW j \in Job, Pause(j) PROVE CloseInv'
  BY <1>16 DEF Pause
<1>17. ASSUME NEW j \in Job, Resume(j) PROVE CloseInv'
  BY <1>17 DEF Resume
<1>18. ASSUME NEW j \in Job, TakeLease(j) PROVE CloseInv'
  BY <1>18 DEF TakeLease
<1>19. ASSUME NEW j \in Job, Start(j) PROVE CloseInv'
  BY <1>19 DEF Start
<1>20. ASSUME NEW j \in Job, StartFails(j) PROVE CloseInv'
  BY <1>20 DEF StartFails
<1>21. ASSUME NEW j \in Job, WaitReaps(j) PROVE CloseInv'
  BY <1>21 DEF WaitReaps
<1>22. ASSUME NEW j \in Job, WaitReturns(j) PROVE CloseInv'
  BY <1>22 DEF WaitReturns
<1>23. ASSUME NEW j \in Job, ReapGroup(j) PROVE CloseInv'
  BY <1>23 DEF ReapGroup
<1>24. ASSUME NEW j \in Job, ReapGroupEnds(j) PROVE CloseInv'
  BY <1>24 DEF ReapGroupEnds
<1>25. ASSUME NEW j \in Job, ReturnLease(j) PROVE CloseInv'
  BY <1>25 DEF ReturnLease
<1>26. ASSUME NEW j \in Job, Finish(j) PROVE CloseInv'
  BY <1>26 DEF Finish
<1>27. ASSUME NEW j \in Job, ReaperSeesExit(j) PROVE CloseInv'
  BY <1>27 DEF ReaperSeesExit
<1>28. ASSUME NEW j \in Job, ReaperTerms(j) PROVE CloseInv'
  BY <1>28 DEF ReaperTerms
<1>29. ASSUME NEW j \in Job, ReaperSeesGone(j) PROVE CloseInv'
  BY <1>29 DEF ReaperSeesGone
<1>30. ASSUME NEW j \in Job, ReaperKills(j) PROVE CloseInv'
  BY <1>30 DEF ReaperKills
<1>31. ASSUME NEW j \in Job, SigStop(j) PROVE CloseInv'
  BY <1>31 DEF SigStop
<1>32. ASSUME NEW j \in Job, SuspendLease(j) PROVE CloseInv'
  BY <1>32 DEF SuspendLease
<1>33. ASSUME NEW j \in Job, RecordPause(j) PROVE CloseInv'
  BY <1>33 DEF RecordPause
<1>34. ASSUME NEW j \in Job, AbandonPause(j) PROVE CloseInv'
  BY <1>34 DEF AbandonPause
<1>35. ASSUME NEW j \in Job, HandOverLane(j) PROVE CloseInv'
  BY <1>35 DEF HandOverLane
<1>36. ASSUME NEW j \in Job, ResumeLease(j) PROVE CloseInv'
  BY <1>36 DEF ResumeLease
<1>37. ASSUME NEW j \in Job, SigCont(j) PROVE CloseInv'
  BY <1>37 DEF SigCont
<1>38. ASSUME NEW j \in Job, RecordResume(j) PROVE CloseInv'
  BY <1>38 DEF RecordResume
<1>39. ASSUME NEW j \in Job, StragglerExits(j) PROVE CloseInv'
  BY <1>39 DEF StragglerExits
<1>40. ASSUME NEW j \in Job, NEW how \in {"ok", "fail"}, NEW leaves \in BOOLEAN,
            LeaderExits(j, how, leaves) PROVE CloseInv'
  BY <1>40 DEF LeaderExits
<1>41. ASSUME UNCHANGED vars PROVE CloseInv'
  BY <1>41 DEF vars
<1> HIDE DEF CloseInv, TypeOK
<1> QED
  BY <1>1, <1>2, <1>3, <1>4, <1>5, <1>6, <1>6a, <1>7, <1>8, <1>9, <1>10, <1>11,
       <1>12, <1>13, <1>14, <1>15, <1>16, <1>17, <1>18, <1>19, <1>20, <1>21,
       <1>22, <1>23, <1>24, <1>25, <1>26, <1>27, <1>28, <1>29, <1>30, <1>31,
       <1>32, <1>33, <1>34, <1>35, <1>36, <1>37, <1>38, <1>39, <1>40, <1>41
  DEF Next, Callers, Closer, Scheduler, Runs, Reaps, Toggles, Processes

-----------------------------------------------------------------------------
(***************************************************************************)
(* The refinement: what each step of the runner does to the phases and the *)
(* live processes of ExclusiveJobs.                                        *)
(***************************************************************************)
phases == [j \in Job |-> Phase(j)]
alives == {j \in Job : GroupAlive(j)}

\* A step that leaves statuses and processes alone is a stutter.
LEMMA StutterImplements ==
  ASSUME UNCHANGED <<status, leader, straggler>>
  PROVE  UNCHANGED <<phases, alives>>
BY DEF phases, alives, Phase, GroupAlive

\* Dropping a queued job ends it without it ever having begun.
LEMMA DropImplements ==
  ASSUME TypeOK, Structure, NEW j \in Job, DropQueued(j),
         UNCHANGED <<leader, straggler>>
  PROVE  Promise!End
<1>1. status[j] = "Queued" /\ status' = [status EXCEPT ![j] = "Canceled"]
  BY DEF DropQueued, Structure
<1>2. j \notin alives
  BY <1>1 DEF Structure, alives, GroupAlive
<1>3. phases[j] = "waiting" /\ phases' = [phases EXCEPT ![j] = "over"]
  BY <1>1 DEF phases, Phase, TypeOK
<1>4. UNCHANGED alives
  BY DEF alives, GroupAlive
<1> QED
  BY <1>2, <1>3, <1>4 DEF Promise!End, phases, alives

\* A step that only ends a job's processes is a death, or a stutter.
LEMMA DeathImplements ==
  ASSUME NEW j \in Job, UNCHANGED status,
         alives' = alives \/ alives' = alives \ {j}
  PROVE  Promise!Die \/ UNCHANGED <<phases, alives>>
<1>1. UNCHANGED phases
  BY DEF phases, Phase
<1>2. CASE j \in alives /\ alives' = alives \ {j}
  BY <1>1, <1>2 DEF Promise!Die, phases, alives
<1>3. CASE j \notin alives \/ alives' = alives
  BY <1>1, <1>3
<1> QED
  BY <1>2, <1>3

\* Every step of the runner is a step of ExclusiveJobs or a stutter.
LEMMA StepImplements ==
  TypeOK /\ Structure /\ Reserved /\ [Next]_vars
    => Promise!AbsNext \/ UNCHANGED <<phases, alives>>
<1> SUFFICES ASSUME TypeOK, Structure, Reserved, [Next]_vars
             PROVE  Promise!AbsNext \/ UNCHANGED <<phases, alives>>
  OBVIOUS
<1> DEFINE Goal == Promise!AbsNext \/ UNCHANGED <<phases, alives>>
<1>0. ASSUME UNCHANGED <<status, leader, straggler>> PROVE Goal
  BY <1>0, StutterImplements
<1>1. ASSUME NEW j \in Job, Submit(j) PROVE Goal
  <2>1. status[j] = "none" /\ status' = [status EXCEPT ![j] = "Queued"]
    BY <1>1 DEF Submit
  <2>2. UNCHANGED alives
    BY <1>1 DEF Submit, processVars, alives, GroupAlive
  <2>3. /\ \A k \in {j} : phases[k] = "unknown"
        /\ phases' = [k \in Job |-> IF k \in {j} THEN "waiting" ELSE phases[k]]
    BY <2>1 DEF phases, Phase, TypeOK
  <2>4. Promise!Accept
    BY <2>2, <2>3 DEF Promise!Accept, phases, alives
  <2> QED
    BY <2>4 DEF Promise!AbsNext
<1>2. ASSUME NEW n \in 1..Cardinality(Job), NEW js \in [1..n -> Job],
             NEW hs \in SUBSET Job, Restore(js, hs)
      PROVE  Goal
  <2> DEFINE S == {j \in Job : \E i \in DOMAIN js : js[i] = j}
  <2>1. /\ \A j \in Job : status[j] = "none"
        /\ status' = [j \in Job |-> IF j \in S THEN "Queued" ELSE status[j]]
    BY <1>2 DEF Restore
  <2>2. UNCHANGED alives
    BY <1>2 DEF Restore, processVars, alives, GroupAlive
  <2>3. /\ \A k \in S : phases[k] = "unknown"
        /\ phases' = [k \in Job |-> IF k \in S THEN "waiting" ELSE phases[k]]
    BY <2>1 DEF phases, Phase
  <2>4. S \in SUBSET Job
    OBVIOUS
  <2> HIDE DEF S
  <2>5. Promise!Accept
    BY <2>2, <2>3, <2>4 DEF Promise!Accept, phases, alives
  <2> QED
    BY <2>5 DEF Promise!AbsNext
<1>3. ASSUME NEW j \in Job, Cancel(j) PROVE Goal
  <2>1. CASE DropQueued(j)
    BY <1>3, <2>1, DropImplements DEF Cancel, processVars, Promise!AbsNext
  <2>2. CASE CancelContext(j)
    BY <1>3, <2>2, <1>0 DEF Cancel, CancelContext, processVars, runnerVars
  <2> QED
    BY <1>3, <2>1, <2>2 DEF Cancel
<1>4. ASSUME NEW j \in Job, CloseCancel(j) PROVE Goal
  <2>1. CASE DropQueued(j)
    BY <1>4, <2>1, DropImplements DEF CloseCancel, processVars, Promise!AbsNext
  <2>2. CASE CancelContext(j) \/ UNCHANGED <<runnerVars, canceled>>
    BY <1>4, <2>2, <1>0 DEF CloseCancel, CancelContext, processVars, runnerVars
  <2> QED
    BY <1>4, <2>1, <2>2 DEF CloseCancel
<1>5. ASSUME NEW j \in Job, Dispatch(j) PROVE Goal
  <2>1. PICK i \in DOMAIN queue : queue[i] = j /\ KeyFree(queue[i])
    BY <1>5 DEF Dispatch, Eligible
  <2>2. status[j] = "Queued" /\ KeyFree(j)
    BY <2>1 DEF Structure
  <2>3. status' = [status EXCEPT ![j] = "Running"]
    BY <1>5 DEF Dispatch
  <2>4. phases[j] = "waiting" /\ phases' = [phases EXCEPT ![j] = "working"]
    BY <2>2, <2>3 DEF phases, Phase, TypeOK
  <2>5. ASSUME NEW k \in Job, phases[k] = "working", holdKey(j) # NoKey
        PROVE  holdKey(k) # holdKey(j)
    <3>1. k \in running
      BY <2>5 DEF phases, Phase, Structure, TypeOK
    <3>2. busyRepo[holdKey(j)] = NoJob
      BY <2>2, <2>5 DEF KeyFree
    <3> QED
      BY <2>5, <3>1, <3>2, NamesDiffer DEF Reserved
  <2>6. UNCHANGED alives
    BY <1>5 DEF Dispatch, processVars, alives, GroupAlive
  <2>7. Promise!Begin
    BY <2>4, <2>5, <2>6 DEF Promise!Begin, phases, alives
  <2> QED
    BY <2>7 DEF Promise!AbsNext
<1>6. ASSUME NEW j \in Job, Start(j) PROVE Goal
  <2>1. status[j] = "Running" /\ UNCHANGED phases
    BY <1>6 DEF Start, runnerVars, Structure, phases, Phase
  <2>2. alives' = alives \cup {j}
    BY <1>6 DEF Start, alives, GroupAlive, TypeOK
  <2>3. Promise!Spawn
    BY <2>1, <2>2 DEF Promise!Spawn, phases, alives, Phase
  <2> QED
    BY <2>3 DEF Promise!AbsNext
<1>7. ASSUME NEW j \in Job, WaitReaps(j) PROVE Goal
  <2>1. UNCHANGED <<phases, alives>>
    BY <1>7 DEF WaitReaps, runnerVars, phases, Phase, alives, GroupAlive, TypeOK
  <2> QED
    BY <2>1
<1>8. ASSUME NEW j \in Job, ReapGroupEnds(j) PROVE Goal
  <2>1. leader[j] # "alive" /\ UNCHANGED status
    BY <1>8 DEF ReapGroupEnds, runnerVars, Structure
  <2>2. alives' = alives \ {j}
    BY <1>8, <2>1 DEF ReapGroupEnds, alives, GroupAlive, TypeOK
  <2> QED
    BY <2>1, <2>2, DeathImplements DEF Promise!AbsNext
<1>9. ASSUME NEW j \in Job, Finish(j) PROVE Goal
  <2>1. status[j] = "Running" /\ j \notin alives
    BY <1>9 DEF Finish, Structure, alives, GroupAlive
  <2>2. status' = [status EXCEPT ![j] = Outcome(j)] /\ Outcome(j) \in Terminal
    BY <1>9 DEF Finish, Outcome, Terminal
  <2>3. phases[j] = "working" /\ phases' = [phases EXCEPT ![j] = "over"]
    BY <2>1, <2>2 DEF phases, Phase, TypeOK, Terminal
  <2>4. UNCHANGED alives
    BY <1>9 DEF Finish, processVars, alives, GroupAlive
  <2>5. Promise!End
    BY <2>1, <2>3, <2>4 DEF Promise!End, phases, alives
  <2> QED
    BY <2>5 DEF Promise!AbsNext
<1>10. ASSUME NEW j \in Job, ReaperKills(j) PROVE Goal
  <2>1. UNCHANGED status
    BY <1>10 DEF ReaperKills, runnerVars
  <2>2. alives' = alives \ {j}
    BY <1>10 DEF ReaperKills, alives, GroupAlive, TypeOK
  <2> QED
    BY <2>1, <2>2, DeathImplements DEF Promise!AbsNext
<1>11. ASSUME NEW j \in Job, NEW how \in {"ok", "fail"}, NEW leaves \in BOOLEAN,
              LeaderExits(j, how, leaves)
       PROVE  Goal
  <2>1. UNCHANGED status /\ leader[j] = "alive"
    BY <1>11 DEF LeaderExits, runnerVars
  <2>2. CASE leaves
    <3>1. alives' = alives
      BY <1>11, <2>1, <2>2 DEF LeaderExits, alives, GroupAlive, TypeOK
    <3> QED
      BY <2>1, <3>1, DeathImplements DEF Promise!AbsNext
  <2>3. CASE ~leaves
    <3>1. alives' = alives \ {j}
      BY <1>11, <2>3 DEF LeaderExits, alives, GroupAlive, TypeOK
    <3> QED
      BY <2>1, <3>1, DeathImplements DEF Promise!AbsNext
  <2> QED
    BY <2>2, <2>3
<1>12. ASSUME NEW j \in Job, StragglerExits(j) PROVE Goal
  <2>1. UNCHANGED <<status, leader>> /\ straggler' = [straggler EXCEPT ![j] = FALSE]
    BY <1>12 DEF StragglerExits, runnerVars
  <2>2. alives' = alives \/ alives' = alives \ {j}
    BY <2>1 DEF alives, GroupAlive, TypeOK
  <2> QED
    BY <2>1, <2>2, DeathImplements DEF Promise!AbsNext
<1> HIDE DEF Goal
<1> USE <1>0 DEF runnerVars, processVars
<1>21. ASSUME ReleaseAll PROVE Goal
  BY <1>21 DEF ReleaseAll
<1>22. ASSUME CloseBegin PROVE Goal
  BY <1>22 DEF CloseBegin
<1>23. ASSUME CloseSnapshot PROVE Goal
  BY <1>23 DEF CloseSnapshot
<1>24. ASSUME CloseWait PROVE Goal
  BY <1>24 DEF CloseWait
<1>25. ASSUME CloseReturn PROVE Goal
  BY <1>25 DEF CloseReturn
<1>26. ASSUME DispatchNone PROVE Goal
  BY <1>26 DEF DispatchNone
<1>26a. ASSUME CheckIdle PROVE Goal
  BY <1>26a DEF CheckIdle, MayLeave
<1>27. ASSUME Woken PROVE Goal
  BY <1>27 DEF Woken
<1>28. ASSUME Tick PROVE Goal
  BY <1>28 DEF Tick
<1>29. ASSUME NEW c \in LimitChoices, SetLanes(c) PROVE Goal
  BY <1>29 DEF SetLanes
<1>30. ASSUME NEW j \in Job, Release(j) PROVE Goal
  BY <1>30 DEF Release
<1>31. ASSUME NEW j \in Job, Pause(j) PROVE Goal
  BY <1>31 DEF Pause
<1>32. ASSUME NEW j \in Job, Resume(j) PROVE Goal
  BY <1>32 DEF Resume
<1>33. ASSUME NEW j \in Job, TakeLease(j) PROVE Goal
  BY <1>33 DEF TakeLease
<1>34. ASSUME NEW j \in Job, StartFails(j) PROVE Goal
  BY <1>34 DEF StartFails
<1>35. ASSUME NEW j \in Job, WaitReturns(j) PROVE Goal
  BY <1>35 DEF WaitReturns
<1>36. ASSUME NEW j \in Job, ReapGroup(j) PROVE Goal
  BY <1>36 DEF ReapGroup
<1>37. ASSUME NEW j \in Job, ReturnLease(j) PROVE Goal
  BY <1>37 DEF ReturnLease
<1>38. ASSUME NEW j \in Job, ReaperSeesExit(j) PROVE Goal
  BY <1>38 DEF ReaperSeesExit
<1>39. ASSUME NEW j \in Job, ReaperTerms(j) PROVE Goal
  BY <1>39 DEF ReaperTerms
<1>40. ASSUME NEW j \in Job, ReaperSeesGone(j) PROVE Goal
  BY <1>40 DEF ReaperSeesGone
<1>41. ASSUME NEW j \in Job, SigStop(j) PROVE Goal
  BY <1>41 DEF SigStop
<1>42. ASSUME NEW j \in Job, SuspendLease(j) PROVE Goal
  BY <1>42 DEF SuspendLease
<1>43. ASSUME NEW j \in Job, RecordPause(j) PROVE Goal
  BY <1>43 DEF RecordPause
<1>44. ASSUME NEW j \in Job, AbandonPause(j) PROVE Goal
  BY <1>44 DEF AbandonPause
<1>45. ASSUME NEW j \in Job, HandOverLane(j) PROVE Goal
  BY <1>45 DEF HandOverLane
<1>46. ASSUME NEW j \in Job, ResumeLease(j) PROVE Goal
  BY <1>46 DEF ResumeLease
<1>47. ASSUME NEW j \in Job, SigCont(j) PROVE Goal
  BY <1>47 DEF SigCont
<1>48. ASSUME NEW j \in Job, RecordResume(j) PROVE Goal
  BY <1>48 DEF RecordResume
<1>49. ASSUME UNCHANGED vars PROVE Goal
  BY <1>49 DEF vars
<1> QED
  <2>1. Goal
    BY <1>1, <1>2, <1>3, <1>4, <1>5, <1>6, <1>7, <1>8, <1>9, <1>10, <1>11,
         <1>12, <1>21, <1>22, <1>23, <1>24, <1>25, <1>26, <1>26a, <1>27, <1>28,
         <1>29, <1>30, <1>31, <1>32, <1>33, <1>34, <1>35, <1>36, <1>37,
         <1>38, <1>39, <1>40, <1>41, <1>42, <1>43, <1>44, <1>45, <1>46,
         <1>47, <1>48, <1>49
    DEF Next, Callers, Closer, Scheduler, Runs, Reaps, Toggles, Processes
  <2> QED
    BY <2>1 DEF Goal

-----------------------------------------------------------------------------
(***************************************************************************)
(* Pauses: what the process group, Job.paused and the lease say of a job,  *)
(* by what setPaused is about to do to it.                                 *)
(***************************************************************************)
\* While the leader runs and nothing terminates its group, the group is stopped
\* from the SIGSTOP to the SIGCONT, paused from the record to its clearing, and
\* without the lease from the suspension to the retaking.
Follows(j) ==
  /\ stopped[j] <=> \/ pauser[j] \in {"suspend", "record", "handover", "retake", "cont"}
                    \/ pauser[j] = "idle" /\ paused[j]
  /\ paused[j] => pauser[j] \notin {"stop", "suspend", "record"}
  /\ pauser[j] \in {"handover", "retake", "cont", "clear"} => paused[j]
  /\ j \in UsesServer =>
       /\ lease[j] \in {"held", "suspended"}
       /\ lease[j] = "held" <=> ~stopped[j] \/ pauser[j] \in {"suspend", "cont"}

\* A job that has no process yet is not being paused, and starts with its lease.
PauseOK(j) ==
  /\ status[j] \in {"none", "Queued"} => leader[j] = "none"
  /\ run[j] \in {"lease", "start"} => leader[j] = "none"
  /\ leader[j] = "none" => pauser[j] = "idle" /\ ~paused[j] /\ ~stopped[j]
  /\ exited[j] => leader[j] = "gone"
  /\ j \notin UsesServer => lease[j] = "none"
  /\ j \in UsesServer /\ run[j] = "start" => lease[j] = "held"
  /\ leader[j] = "alive" /\ reaper[j] = "armed" => Follows(j)

PauseInv == \A j \in Job : PauseOK(j)

\* Nothing is paused, started or leased at first.
LEMMA InitPause == Init => PauseInv
BY DEF Init, PauseInv, PauseOK, Follows

\* What a pause is about; a step that moves none of it, and brings no job back
\* to the queue, keeps PauseInv.
LEMMA PauseFrame ==
  ASSUME PauseInv,
         UNCHANGED <<paused, pauser, leader, stopped, exited, lease, reaper, run>>,
         \A j \in Job : status'[j] \in {"none", "Queued"} => status[j] \in {"none", "Queued"}
  PROVE  PauseInv'
BY DEF PauseInv, PauseOK, Follows

\* The jobs other than the one a step is about.
LEMMA PauseOthers ==
  ASSUME TypeOK, PauseInv, NEW j \in Job, NEW k \in Job, k # j,
         paused'[k] = paused[k], pauser'[k] = pauser[k], leader'[k] = leader[k],
         stopped'[k] = stopped[k], exited'[k] = exited[k], lease'[k] = lease[k],
         reaper'[k] = reaper[k], run'[k] = run[k], status'[k] = status[k]
  PROVE  PauseOK(k)'
BY DEF PauseInv, PauseOK, Follows

\* The run goroutine's own steps.
LEMMA RunsPause ==
  ASSUME TypeOK, Structure, PauseInv, NEW j \in Job, Runs(j)
  PROVE  PauseInv'
<1> SUFFICES ASSUME NEW k \in Job PROVE PauseOK(k)'
  BY DEF PauseInv
<1>0. PauseOK(k) /\ PauseOK(j)
  BY DEF PauseInv
<1> USE <1>0 DEF TypeOK, PauseOK, Follows, runnerVars, laneVars, closeVars, pauseVars,
                 processVars, runVars
<1>1. CASE TakeLease(j)
  BY <1>1 DEF TakeLease
<1>2. CASE Start(j)
  BY <1>2, ZenonT(60) DEF Start, Structure
<1>3. CASE StartFails(j)
  BY <1>3 DEF StartFails
<1>4. CASE WaitReaps(j)
  BY <1>4 DEF WaitReaps
<1>5. CASE WaitReturns(j)
  BY <1>5 DEF WaitReturns
<1>6. CASE ReapGroup(j)
  BY <1>6 DEF ReapGroup, AfterLeader, Structure
<1>7. CASE ReapGroupEnds(j)
  BY <1>7 DEF ReapGroupEnds
<1>8. CASE ReturnLease(j)
  BY <1>8 DEF ReturnLease, Structure
<1>9. CASE Finish(j)
  <2>1. Outcome(j) \notin {"none", "Queued"} /\ leader[j] # "alive"
    BY <1>9 DEF Finish, Outcome, Structure
  <2> QED
    BY <1>9, <2>1 DEF Finish
<1> QED
  BY <1>1, <1>2, <1>3, <1>4, <1>5, <1>6, <1>7, <1>8, <1>9 DEF Runs

\* The reaper's, and the processes': a group that is being terminated is no
\* longer followed.
LEMMA ProcessesPause ==
  ASSUME TypeOK, Structure, PauseInv, NEW j \in Job, Reaps(j) \/ Processes(j)
  PROVE  PauseInv'
<1> SUFFICES ASSUME NEW k \in Job PROVE PauseOK(k)'
  BY DEF PauseInv
<1>0. PauseOK(k) /\ PauseOK(j)
  BY DEF PauseInv
<1> USE <1>0 DEF TypeOK, PauseOK, Follows, runnerVars, laneVars, closeVars, pauseVars,
                 processVars, runVars
<1>1. CASE ReaperSeesExit(j)
  BY <1>1 DEF ReaperSeesExit
<1>2. CASE ReaperTerms(j)
  BY <1>2 DEF ReaperTerms
<1>3. CASE ReaperSeesGone(j)
  BY <1>3 DEF ReaperSeesGone
<1>4. CASE ReaperKills(j)
  BY <1>4 DEF ReaperKills
<1>5. ASSUME NEW how \in {"ok", "fail"}, NEW leaves \in BOOLEAN, LeaderExits(j, how, leaves)
      PROVE  PauseOK(k)'
  BY <1>5 DEF LeaderExits, Structure
<1>6. CASE StragglerExits(j)
  BY <1>6 DEF StragglerExits
<1> QED
  BY <1>1, <1>2, <1>3, <1>4, <1>5, <1>6 DEF Reaps, Processes

\* The clicks, and every step of setPaused.
LEMMA TogglesPause ==
  ASSUME TypeOK, Structure, PauseInv, NEW j \in Job, Toggles(j) \/ Pause(j) \/ Resume(j)
  PROVE  PauseInv'
<1> SUFFICES ASSUME NEW k \in Job PROVE PauseOK(k)'
  BY DEF PauseInv
<1>0. PauseOK(k) /\ PauseOK(j)
  BY DEF PauseInv
<1> USE <1>0 DEF TypeOK, PauseOK, Follows, runnerVars, laneVars, closeVars, pauseVars,
                 processVars, runVars
<1>a. leader[j] = "alive" => ~TooLate(j)
  BY DEF TooLate, Structure
<1>1. CASE Pause(j)
  BY <1>1 DEF Pause, CanToggle
<1>2. CASE Resume(j)
  BY <1>2, ZenonT(60) DEF Resume, CanToggle
<1>3. CASE SigStop(j)
  <2>1. CASE GroupExists(j)
    BY <1>3, <2>1 DEF SigStop
  <2>2. CASE ~GroupExists(j)
    BY <1>3, <2>2 DEF SigStop, GroupExists
  <2> QED
    BY <2>1, <2>2
<1>4. CASE SuspendLease(j)
  BY <1>4 DEF SuspendLease, Suspend
<1>5. CASE RecordPause(j)
  BY <1>5 DEF RecordPause
<1>6. CASE AbandonPause(j)
  BY <1>6, <1>a DEF AbandonPause, Suspend
<1>7. CASE HandOverLane(j)
  BY <1>7 DEF HandOverLane
<1>8. CASE ResumeLease(j)
  BY <1>8 DEF ResumeLease, Retake
<1>9. CASE SigCont(j)
  BY <1>9 DEF SigCont, Suspend, GroupExists
<1>10. CASE RecordResume(j)
  BY <1>10, <1>a DEF RecordResume
<1> QED
  BY <1>1, <1>2, <1>3, <1>4, <1>5, <1>6, <1>7, <1>8, <1>9, <1>10 DEF Toggles

\* Every other step leaves pauses alone, but a dispatch is of a job that has
\* no process yet.
LEMMA StepPause == TypeOK /\ Structure /\ PauseInv /\ [Next]_vars => PauseInv'
<1> SUFFICES ASSUME TypeOK, Structure, PauseInv, [Next]_vars PROVE PauseInv'
  OBVIOUS
<1> USE DEF runnerVars, laneVars, closeVars, pauseVars, processVars, runVars
<1>1. ASSUME NEW j \in Job, Submit(j) \/ Release(j) PROVE PauseInv'
  <2>1. \A k \in Job : status'[k] \in {"none", "Queued"} => status[k] \in {"none", "Queued"}
    BY <1>1 DEF Submit, Release, TypeOK
  <2> QED
    BY <1>1, <2>1, PauseFrame DEF Submit, Release
<1>2. ASSUME NEW j \in Job, Cancel(j) \/ CloseCancel(j) PROVE PauseInv'
  <2>1. \A k \in Job : status'[k] \in {"none", "Queued"} => status[k] \in {"none", "Queued"}
    BY <1>2 DEF Cancel, CloseCancel, DropQueued, CancelContext, TypeOK
  <2> QED
    BY <1>2, <2>1, PauseFrame DEF Cancel, CloseCancel
<1>3. ASSUME NEW m \in 1..Cardinality(Job), NEW js \in [1..m -> Job],
             NEW hs \in SUBSET Job, Restore(js, hs) PROVE PauseInv'
  BY <1>3, PauseFrame DEF Restore
<1>4. ASSUME NEW c \in LimitChoices, SetLanes(c) PROVE PauseInv'
  BY <1>4, PauseFrame DEF SetLanes
<1>5. CASE ReleaseAll \/ CloseBegin \/ CloseSnapshot \/ CloseWait \/ CloseReturn
  BY <1>5, PauseFrame DEF ReleaseAll, CloseBegin, CloseSnapshot, CloseWait, CloseReturn
<1>6. CASE DispatchNone \/ CheckIdle \/ Woken \/ Tick
  BY <1>6, PauseFrame DEF DispatchNone, CheckIdle, Woken, Tick
<1>7. ASSUME NEW j \in Job, Dispatch(j) PROVE PauseInv'
  <2> SUFFICES ASSUME NEW k \in Job PROVE PauseOK(k)'
    BY DEF PauseInv
  <2>1. status[j] = "Queued" /\ status' = [status EXCEPT ![j] = "Running"]
        /\ run' = [run EXCEPT ![j] = "lease"]
    BY <1>7 DEF Dispatch, Eligible, Structure
  <2>2. PauseOK(k) /\ PauseOK(j)
    BY DEF PauseInv
  <2> QED
    BY <1>7, <2>1, <2>2 DEF Dispatch, PauseOK, Follows, TypeOK
<1>8. CASE UNCHANGED vars
  BY <1>8, PauseFrame DEF vars
<1> QED
  BY <1>1, <1>2, <1>3, <1>4, <1>5, <1>6, <1>7, <1>8, RunsPause, ProcessesPause, TogglesPause
  DEF Next, Callers, Closer, Scheduler

-----------------------------------------------------------------------------
(***************************************************************************)
(* The wake channel.                                                       *)
(***************************************************************************)
Asleep == loop \in {"check", "wait"} /\ ~wake

\* Once pick has returned nil nothing becomes startable without a token in the
\* channel, but for the lane a pause is about to hand over; and the scheduler
\* does not go to sleep, or sleep on, with Close waiting and nothing running.
WakeInv ==
  /\ Asleep /\ ~closed /\ (\A j \in Job : pauser[j] # "handover") => Eligible = {}
  /\ Asleep /\ loop = "wait" /\ closing = "wait" => running # {}

\* A step that leaves pick's inputs and the channel alone.
LEMMA WakeFrame ==
  ASSUME WakeInv,
         UNCHANGED <<queue, held, running, busyRepo, limit, loop, wake, paused>>,
         \A j \in Job : pauser[j] = "handover" => pauser'[j] = "handover",
         closing' = closing \/ closing' \notin {"open", "wait"}
  PROVE  WakeInv'
<1>1. Eligible' = Eligible
  BY DEF Eligible, HasRoom, KeyFree, Active
<1> QED
  BY <1>1 DEF WakeInv, Asleep, closed

\* pick finds nothing in a queue that has only lost jobs, in lanes that have
\* only filled up.
LEMMA FewerEligible ==
  ASSUME TypeOK, TypeOK', Eligible = {}, UNCHANGED <<held, busyRepo, limit>>,
         \A i \in DOMAIN queue' : \E n \in DOMAIN queue : queue'[i] = queue[n],
         \A l \in Lane : Active(l) \subseteq Active(l)'
  PROVE  Eligible' = {}
<1> SUFFICES ASSUME NEW i \in Eligible' PROVE FALSE
  OBVIOUS
<1>1. PICK n \in DOMAIN queue : queue'[i] = queue[n]
  BY DEF Eligible
<1>2. PICK j \in Job, l \in Lane : j = queue[n] /\ l = laneOf(j)
  BY LaneOfType DEF TypeOK
<1>3. ~held[j] /\ KeyFree(j) /\ Cardinality(Active(l)') < limit[l]
  <2>1. ~held'[queue'[i]]
    BY DEF Eligible
  <2>2. holdKey(queue'[i]) # NoKey => busyRepo'[holdKey(queue'[i])] = NoJob
    BY DEF Eligible, KeyFree
  <2>3. Cardinality({k \in running' : ~paused'[k] /\ laneOf(k) = laneOf(queue'[i])})
          < limit'[laneOf(queue'[i])]
    BY DEF Eligible, HasRoom, Active
  <2> QED
    BY <1>1, <1>2, <2>1, <2>2, <2>3 DEF KeyFree, Active
<1>4. IsFiniteSet(Active(l)') /\ Active(l) \in SUBSET (Active(l)')
  <2>1. Active(l)' \in SUBSET Job
    BY DEF Active, TypeOK
  <2>2. IsFiniteSet(Active(l)')
    BY <2>1, JobAttributes, FS_Subset
  <2> QED
    BY <1>2, <2>2
<1>5. IsFiniteSet(Active(l)) /\ Cardinality(Active(l)) <= Cardinality(Active(l)')
  BY <1>4, FS_Subset
<1>6. limit[l] \in Nat /\ Cardinality(Active(l)') \in Nat /\ Cardinality(Active(l)) \in Nat
  BY <1>2, <1>4, <1>5, FS_CardinalityType DEF TypeOK
<1>7. HasRoom(l)
  BY <1>3, <1>5, <1>6 DEF HasRoom
<1> QED
  BY <1>2, <1>3, <1>7 DEF Eligible

\* The scheduler starts awake.
LEMMA InitWake == Init => WakeInv
BY DEF Init, WakeInv, Asleep

\* Cancelling a queued job wakes nobody, and need not.
LEMMA DropWakes ==
  ASSUME TypeOK, TypeOK', WakeInv, NEW j \in Job, DropQueued(j),
         UNCHANGED <<limit, loop, wake, paused, pauser, closing>>
  PROVE  WakeInv'
<1>1. PICK i \in DOMAIN queue : queue' = RemoveAt(queue, i)
  BY DEF DropQueued
<1>2. \A n \in DOMAIN queue' : \E m \in DOMAIN queue : queue'[n] = queue[m]
  BY <1>1, RemoveAtFacts DEF TypeOK
<1>3. UNCHANGED <<running, busyRepo, held>>
  BY DEF DropQueued
<1>4. \A l \in Lane : Active(l) \subseteq Active(l)'
  BY <1>3 DEF Active
<1>5. Eligible = {} => Eligible' = {}
  BY <1>2, <1>3, <1>4, FewerEligible
<1> QED
  BY <1>3, <1>5 DEF WakeInv, Asleep, closed

\* The token outlives whatever makes a job startable.
LEMMA StepWake == TypeOK /\ TypeOK' /\ WakeInv /\ [Next]_vars => WakeInv'
<1> SUFFICES ASSUME TypeOK, TypeOK', WakeInv, [Next]_vars PROVE WakeInv'
  OBVIOUS
<1> USE DEF runnerVars, laneVars, closeVars, pauseVars, processVars, runVars
<1>1. (wake' = TRUE \/ loop' = "dispatch") => WakeInv'
  BY DEF WakeInv, Asleep
<1>2. ASSUME NEW j \in Job, Submit(j) \/ Release(j) \/ Dispatch(j) \/ Finish(j) \/ HandOverLane(j)
      PROVE  WakeInv'
  BY <1>1, <1>2 DEF Submit, Release, Dispatch, Finish, HandOverLane, Kick
<1>3. ASSUME NEW m \in 1..Cardinality(Job), NEW js \in [1..m -> Job],
             NEW hs \in SUBSET Job, Restore(js, hs) PROVE WakeInv'
  BY <1>1, <1>3 DEF Restore, Kick
<1>4. ASSUME NEW c \in LimitChoices, SetLanes(c) PROVE WakeInv'
  BY <1>1, <1>4 DEF SetLanes, Kick
<1>5. CASE ReleaseAll \/ CloseWait \/ Woken \/ Tick
  BY <1>1, <1>5 DEF ReleaseAll, CloseWait, Woken, Tick, Kick
<1>6. ASSUME NEW j \in Job, Cancel(j) \/ CloseCancel(j) PROVE WakeInv'
  <2>1. CASE DropQueued(j)
    BY <1>6, <2>1, DropWakes DEF Cancel, CloseCancel
  <2>2. CASE ~DropQueued(j)
    BY <1>6, <2>2, WakeFrame DEF Cancel, CloseCancel, CancelContext
  <2> QED
    BY <2>1, <2>2
<1>7. CASE CloseBegin \/ CloseSnapshot \/ CloseReturn
  BY <1>7, WakeFrame DEF CloseBegin, CloseSnapshot, CloseReturn
<1>8. CASE DispatchNone
  BY <1>8 DEF DispatchNone, WakeInv, Asleep, closed, Eligible, HasRoom, KeyFree, Active
<1>9. CASE CheckIdle
  <2>1. UNCHANGED <<queue, held, running, busyRepo, limit, wake, paused, pauser, closing>>
        /\ loop = "check" /\ loop' \in {"exited", "wait"}
        /\ (loop' = "wait" => ~MayLeave)
    BY <1>9 DEF CheckIdle
  <2>2. Eligible' = Eligible
    BY <2>1 DEF Eligible, HasRoom, KeyFree, Active
  <2> QED
    BY <2>1, <2>2 DEF MayLeave, WakeInv, Asleep, closed
<1>10. ASSUME NEW j \in Job, Runs(j), ~Finish(j) PROVE WakeInv'
  BY <1>10, WakeFrame
  DEF Runs, TakeLease, Start, StartFails, WaitReaps, WaitReturns, ReapGroup,
      ReapGroupEnds, ReturnLease
<1>11. ASSUME NEW j \in Job, Reaps(j) PROVE WakeInv'
  BY <1>11, WakeFrame DEF Reaps, ReaperSeesExit, ReaperTerms, ReaperSeesGone, ReaperKills
<1>12. ASSUME NEW j \in Job, Processes(j) PROVE WakeInv'
  BY <1>12, WakeFrame DEF Processes, LeaderExits, StragglerExits
<1>13. ASSUME NEW j \in Job, \/ Pause(j) \/ Resume(j) \/ SigStop(j) \/ SuspendLease(j)
                             \/ AbandonPause(j) \/ ResumeLease(j) \/ SigCont(j)
       PROVE  WakeInv'
  <2>1. pauser[j] # "handover" /\ \E x : pauser' = [pauser EXCEPT ![j] = x]
    BY <1>13 DEF Pause, Resume, CanToggle, SigStop, SuspendLease, AbandonPause, ResumeLease,
                 SigCont
  <2>2. \A k \in Job : pauser[k] = "handover" => pauser'[k] = "handover"
    BY <2>1 DEF TypeOK
  <2> QED
    BY <1>13, <2>2, WakeFrame
    DEF Pause, Resume, SigStop, SuspendLease, AbandonPause, ResumeLease, SigCont
<1>14. ASSUME NEW j \in Job, RecordPause(j) PROVE WakeInv'
  BY <1>14 DEF RecordPause, WakeInv, Asleep, closed, TypeOK
<1>15. ASSUME NEW j \in Job, RecordResume(j) PROVE WakeInv'
  <2>1. UNCHANGED <<queue, held, running, busyRepo, limit, loop, wake, closing>>
        /\ \A k \in Job : paused'[k] => paused[k]
    BY <1>15 DEF RecordResume, TypeOK
  <2>2. \A l \in Lane : Active(l) \subseteq Active(l)'
    BY <2>1 DEF Active, TypeOK
  <2>3. Eligible = {} => Eligible' = {}
    BY <2>1, <2>2, FewerEligible
  <2>4. \A k \in Job : pauser[k] = "handover" => pauser'[k] = "handover"
    BY <1>15 DEF RecordResume, TypeOK
  <2> QED
    BY <2>1, <2>3, <2>4 DEF WakeInv, Asleep, closed
<1>16. CASE UNCHANGED vars
  BY <1>16, WakeFrame DEF vars
<1> QED
  BY <1>2, <1>3, <1>4, <1>5, <1>6, <1>7, <1>8, <1>9, <1>10, <1>11, <1>12, <1>13, <1>14,
     <1>15, <1>16
  DEF Next, Callers, Closer, Scheduler, Toggles, Runs

-----------------------------------------------------------------------------
(***************************************************************************)
(* The theorems.                                                           *)
(***************************************************************************)
Inductive == /\ TypeOK /\ Structure /\ Reserved /\ Consented
             /\ LaneInv /\ LeaseInv /\ CloseInv /\ PauseInv /\ WakeInv

\* The inductive invariant holds in every reachable state of the runner.
THEOREM InductiveHolds == Spec => []Inductive
<1>1. Init => Inductive
  <2>1. Init => LaneInv
    <3> SUFFICES ASSUME Init, NEW l \in Lane
                 PROVE  Cardinality(Active(l) \ resumed) <= peak[l] /\ limit[l] <= peak[l]
      BY DEF LaneInv, LaneBound
    <3>1. Active(l) \ resumed = {}
      BY DEF Init, Active
    <3>2. limit[l] = peak[l] /\ peak[l] \in Nat
      BY LimitsPositive DEF Init
    <3> QED
      BY <3>1, <3>2, FS_EmptySet
  <2> QED
    BY <2>1, InitTypeOK, InitStructure, InitLeaseClose, InitPause, InitWake DEF Inductive
<1>2. Inductive /\ [Next]_vars => Inductive'
  BY StepTypeOK, StepStructure, StepReserved, StepConsented, StepLanes, StepLease,
     StepClose, StepPause, StepWake DEF Inductive
<1> QED
  BY <1>1, <1>2, PTL DEF Spec

\* Every variable of the runner keeps its type.
THEOREM TypeCorrect == Spec => []TypeOK
<1>1. Inductive => TypeOK
  BY DEF Inductive
<1> QED
  BY <1>1, InductiveHolds, PTL

\* No two process groups of jobs that need the same output directory, or both
\* need the global graph, ever have a live member at the same time.
THEOREM ExclusionCorrect == Spec => []OutputExclusive
<1>1. Inductive => OutputExclusive
  <2> SUFFICES ASSUME TypeOK, Structure, Reserved, NEW j \in Job, NEW k \in Job,
                      GroupAlive(j), GroupAlive(k), holdKey(j) = holdKey(k),
                      holdKey(j) # NoKey
               PROVE  j = k
    BY DEF Inductive, OutputExclusive
  <2>1. j \in running /\ k \in running
    BY DEF Structure, GroupAlive
  <2> QED
    BY <2>1 DEF Reserved
<1> QED
  BY <1>1, InductiveHolds, PTL

\* No billed job is running that nobody submitted or released.
THEOREM ConsentCorrect == Spec => []NeverUnasked
<1>1. Inductive => NeverUnasked
  BY DEF Inductive, NeverUnasked, Structure, Consented, TypeOK
<1> QED
  BY <1>1, InductiveHolds, PTL

\* A lane exceeds its highest limit only by jobs that were resumed into it.
THEOREM LanesCorrect == Spec => []LaneBound
<1>1. Inductive => LaneBound
  BY DEF Inductive, LaneInv
<1> QED
  BY <1>1, InductiveHolds, PTL

\* A job that has ended has given its lease back.
THEOREM LeaseCorrect == Spec => []LeaseReturned
<1>1. Inductive => LeaseReturned
  BY DEF Inductive, LeaseReturned, LeaseInv, Structure, TypeOK, Terminal
<1> QED
  BY <1>1, InductiveHolds, PTL

\* When Close has returned, no process and no lease of any job is left.
THEOREM CloseCorrect == Spec => []NothingOutlivesClose
<1>1. Inductive => NothingOutlivesClose
  <2> SUFFICES ASSUME Inductive, closing = "closed", NEW j \in Job
               PROVE  ~GroupAlive(j) /\ lease[j] \in {"none", "released"}
    BY DEF NothingOutlivesClose
  <2>1. run[j] \in {"none", "over"}
    BY DEF Inductive, CloseInv, Structure, TypeOK
  <2> QED
    BY <2>1 DEF Inductive, Structure, LeaseInv, GroupAlive
<1> QED
  BY <1>1, InductiveHolds, PTL

\* A process that needs the model server has its lease whenever it can run, in
\* every window of a pause or a resume.
THEOREM CoverCorrect == Spec => []LeaseCoversProcess
<1>1. Inductive => LeaseCoversProcess
  BY JobAttributes DEF Inductive, PauseInv, PauseOK, Follows, LeaseCoversProcess, TypeOK
<1> QED
  BY <1>1, InductiveHolds, PTL

\* When no pause or resume is under way Job.paused is what the process group is
\* doing, and a paused job has no lease.
THEOREM PauseCorrect == Spec => []PauseMatchesProcess
<1>1. Inductive => PauseMatchesProcess
  BY DEF Inductive, PauseInv, PauseOK, Follows, PauseMatchesProcess, TypeOK
<1> QED
  BY <1>1, InductiveHolds, PTL

\* The scheduler is not left asleep beside a job that could start, or beside a
\* Close that waits for it.
THEOREM WakeupCorrect == Spec => []NoLostWakeup
<1>1. Inductive => NoLostWakeup
  BY DEF Inductive, WakeInv, Asleep, NoLostWakeup
<1> QED
  BY <1>1, InductiveHolds, PTL

\* The runner implements ExclusiveJobs.
THEOREM ImplementsPromise == Spec => Implements
<1>1. Init => Promise!AbsInit
  BY DEF Init, Promise!AbsInit, Phase, GroupAlive
<1>2. Inductive /\ [Next]_vars => [Promise!AbsNext]_(Promise!absVars)
  BY StepImplements DEF Inductive, Promise!absVars, phases, alives
<1> QED
  BY <1>1, <1>2, InductiveHolds, PTL DEF Spec, Implements, Promise!AbsSpec

=============================================================================
