-------------------------- MODULE AutoOllamaProofs --------------------------
(***************************************************************************)
(* What holds of the lease counter for any number of jobs, callbacks and   *)
(* servers: the counter counts the leases that are out, and on the         *)
(* detached route the board ends no server it did not start. And what      *)
(* holds for one job under each owner of MCIdleOllama: no server of its    *)
(* own outlives the owner. Each theorem combines the initial state, the    *)
(* steps and a temporal rule.                                              *)
(***************************************************************************)
EXTENDS MCIdleOllama, FiniteSetTheorems, TLAPS

\* Two elements are at most two.
LEMMA Pairs == \A p, q : Cardinality({p, q}) # 3
<1> TAKE p, q
<1>1. IsFiniteSet({p}) /\ Cardinality({p}) = 1
  BY FS_Singleton
<1>2. {p, q} = {p} \cup {q}
  OBVIOUS
<1>3. Cardinality({p} \cup {q}) = IF q \in {p} THEN Cardinality({p}) ELSE Cardinality({p}) + 1
  BY <1>1, FS_AddElement
<1> QED
  BY <1>1, <1>2, <1>3

\* The actors are pairwise different.
LEMMA ActorFacts ==
  /\ Starter # Stopper /\ Starter # Quitter /\ Stopper # Quitter
  /\ \A j \in Job : j \notin Idlers \cup {Starter, Stopper, Quitter}
  /\ \A x \in Idlers : x \notin {Starter, Stopper, Quitter}
<1>1. ASSUME Starter = Stopper PROVE FALSE
  <2>1. {Starter, Stopper, Quitter} = {Starter, Quitter}
    BY <1>1
  <2> QED
    BY <2>1, Pairs, ActorsDiffer
<1>2. ASSUME Starter = Quitter PROVE FALSE
  <2>1. {Starter, Stopper, Quitter} = {Starter, Stopper}
    BY <1>2
  <2> QED
    BY <2>1, Pairs, ActorsDiffer
<1>3. ASSUME Stopper = Quitter PROVE FALSE
  <2>1. {Starter, Stopper, Quitter} = {Starter, Stopper}
    BY <1>3
  <2> QED
    BY <2>1, Pairs, ActorsDiffer
<1> QED
  BY <1>1, <1>2, <1>3, ActorsDiffer

-----------------------------------------------------------------------------
\* The initial state has the type of every variable.
LEMMA InitTypeOK == Init => TypeOK
<1> SUFFICES ASSUME Init PROVE TypeOK
  OBVIOUS
<1>1. DOMAIN pc = Actor /\ \A x \in Actor : pc[x] = "idle"
  BY DEF Init
<1>2. /\ lease \in [Job -> {"new", "held", "suspended", "released", "inert"}]
      /\ now \in [Job -> BOOLEAN] /\ seen \in [Actor -> BOOLEAN]
      /\ claim \in [Actor -> Server \cup {NoServer, Unit}]
  BY DEF Init
<1>3. /\ server \in [Server -> {"none", "booting", "up", "stopping", "gone", "reaped"}]
      /\ origin \in [Server -> {"nobody", "job", "button", "user"}]
  BY DEF Init
<1>4. /\ n \in Nat /\ loose \in Nat /\ takes \in Nat /\ clicks \in Nat
      /\ timer \in {"nil", "armed", "fired"} /\ asked \subseteq Server
      /\ started \in Server \cup {NoServer, Unit} /\ pinned \in BOOLEAN
  BY DEF Init
<1> QED
  BY <1>1, <1>2, <1>3, <1>4 DEF TypeOK, Actor, StartAt, StopAt

\* Every step keeps every variable in its type, and every actor at its steps.
LEMMA StepTypeOK == TypeOK /\ [Next]_vars => TypeOK'
<1> SUFFICES ASSUME TypeOK, [Next]_vars PROVE TypeOK'
  OBVIOUS
<1> USE ActorFacts DEF TypeOK, StartAt, StopAt, Actor, leaseVars, timerVars, startVars,
    stopVars, serverVars, clickVars
<1>1. ASSUME NEW j \in Job, Take(j) PROVE TypeOK'
  BY <1>1 DEF Take, Step, Disarm, Quitting
<1>1a. ASSUME NEW j \in Job, AcquireInert(j) PROVE TypeOK'
  BY <1>1a DEF AcquireInert
<1>2. ASSUME NEW j \in Job, Release(j) PROVE TypeOK'
  BY <1>2 DEF Release, Step, GivesBack
<1>3. ASSUME NEW j \in Job, Suspend(j) PROVE TypeOK'
  BY <1>3 DEF Suspend, Step
<1>4. ASSUME NEW x \in Job \cup {Starter}, Probe(x) PROVE TypeOK'
  BY <1>4 DEF Probe, Step, Returned, Reached
<1>5. ASSUME NEW x \in Job \cup {Starter}, SpawnFails(x) PROVE TypeOK'
  BY <1>5 DEF SpawnFails, Step, Returned
<1>6. ASSUME NEW x \in Job \cup {Starter}, Spawn(x) PROVE TypeOK'
  BY <1>6 DEF Spawn, Step
<1>7. ASSUME NEW x \in Job \cup {Starter}, NoteOllamaStart(x) PROVE TypeOK'
  BY <1>7 DEF NoteOllamaStart, Step
<1>8. ASSUME NEW x \in Job \cup {Starter}, Await(x) PROVE TypeOK'
  BY <1>8 DEF Await, Step, Returned
<1>9. ASSUME NEW x \in Actor, Claim(x) PROVE TypeOK'
  BY <1>9 DEF Claim, Step, Ended
<1>10. ASSUME NEW x \in Actor, Signal(x) PROVE TypeOK'
  BY <1>10 DEF Signal, Step, Ended, Terminate
<1>11. ASSUME NEW x \in Actor, Forget(x) PROVE TypeOK'
  <2>1. started' = NoServer /\ pinned' = FALSE /\ pc' = [pc EXCEPT ![x] = Ended(x)]
    BY <1>11 DEF Forget, Step
  <2>2. UNCHANGED <<n, leaseVars, timerVars, stopVars, serverVars>>
    BY <1>11 DEF Forget
  <2>3. x \in Job \cup Idlers \cup {Starter, Stopper} => Ended(x) = "idle"
    BY DEF Ended
  <2>4. x = Quitter => Ended(x) = "exited"
    BY DEF Ended
  <2> QED
    BY <2>1, <2>2, <2>3, <2>4
<1>12. ASSUME NEW x \in Job \cup {Quitter}, ReadStarted(x) PROVE TypeOK'
  BY <1>12 DEF ReadStarted, Step
<1>13. ASSUME NEW x \in Job \cup {Quitter}, ReadPinned(x) PROVE TypeOK'
  BY <1>13 DEF ReadPinned, Step
<1>14. ASSUME NEW j \in Job, Give(j) PROVE TypeOK'
  BY <1>14 DEF Give, Step, Disarm, Arm
<1>15. ASSUME NEW x \in Idlers, Fire(x) PROVE TypeOK'
  BY <1>15 DEF Fire, Step
<1>16. ASSUME NEW x \in Idlers, IdleLock(x) PROVE TypeOK'
  BY <1>16 DEF IdleLock, Step
<1>17. ASSUME NEW x \in Idlers, IdleCheck(x) PROVE TypeOK'
  BY <1>17 DEF IdleCheck, Step
<1>18. ASSUME PinOllama PROVE TypeOK'
  BY <1>18 DEF PinOllama, Step
<1>19. ASSUME Shutdown PROVE TypeOK'
  BY <1>19 DEF Shutdown, Step, Disarm
<1>20. ASSUME Click(Starter, "probe") PROVE TypeOK'
  BY <1>20 DEF Click, Step
<1>21. ASSUME Click(Stopper, "claim") PROVE TypeOK'
  BY <1>21 DEF Click, Step
<1>22. ASSUME Quit PROVE TypeOK'
  BY <1>22 DEF Quit, Step
<1>23. ASSUME NEW s \in Server, UserStarts(s) PROVE TypeOK'
  BY <1>23 DEF UserStarts
<1>24. ASSUME NEW s \in Server, Boots(s) PROVE TypeOK'
  BY <1>24 DEF Boots
<1>25. ASSUME NEW s \in Server, Exits(s) PROVE TypeOK'
  BY <1>25 DEF Exits
<1>26. ASSUME NEW s \in Server, ReapOllama(s) PROVE TypeOK'
  BY <1>26, ZenonT(60) DEF ReapOllama
<1>27. ASSUME UNCHANGED vars PROVE TypeOK'
  BY <1>27 DEF vars
<1> QED
  BY <1>1, <1>1a, <1>2, <1>3, <1>4, <1>5, <1>6, <1>7, <1>8, <1>9, <1>10, <1>11,
     <1>12, <1>13, <1>14, <1>15, <1>16, <1>17, <1>18, <1>19, <1>20, <1>21,
     <1>22, <1>23, <1>24, <1>25, <1>26, <1>27
  DEF Next, Works, StartSteps, StopSteps, ReadSteps

-----------------------------------------------------------------------------
(***************************************************************************)
(* The counter. A lease is counted until the section of give that takes it *)
(* off, which is later than the change of its state.                       *)
(***************************************************************************)
Giving == {"readStarted", "readPinned", "give"}

CountInv ==
  /\ CountsLeases
  /\ \A j \in Job : pc[j] \in Giving => lease[j] \in {"suspended", "released"}

\* The leases that are out are finitely many.
LEMMA FiniteCounted == IsFiniteSet(Counted)
BY FS_Subset, Settings DEF Counted

\* Before any lease is taken the counter is zero.
LEMMA InitCount == Init => CountInv
<1> SUFFICES ASSUME Init PROVE CountInv
  OBVIOUS
<1>1. Counted = {}
  BY DEF Init, Counted, Actor
<1> QED
  BY <1>1, FS_EmptySet DEF Init, CountInv, CountsLeases, Giving, Actor

\* A step that changes no lease and moves no job into or out of give changes
\* no count.
LEMMA SameCount ==
  ASSUME CountInv, lease' = lease, ~Quitting' => ~Quitting /\ n' = n,
         \A j \in Job : pc'[j] \in Giving <=> pc[j] \in Giving
  PROVE  CountInv'
<1>1. Counted' = Counted
  BY DEF Counted, Giving
<1> QED
  BY <1>1 DEF CountInv, CountsLeases

\* Every step keeps the counter true to the leases.
LEMMA StepCount == TypeOK /\ CountInv /\ [Next]_vars => CountInv'
<1> SUFFICES ASSUME TypeOK, CountInv, [Next]_vars PROVE CountInv'
  OBVIOUS
<1> USE ActorFacts DEF TypeOK, StartAt, StopAt, Actor, Giving, Quitting,
    leaseVars, timerVars, startVars, stopVars, serverVars, clickVars
<1>1. ASSUME NEW j \in Job, Take(j) PROVE CountInv'
  <2>1. /\ lease' = [lease EXCEPT ![j] = "held"] /\ n' = n + 1 /\ ~Quitting
        /\ pc[j] = "idle" /\ lease[j] # "held"
        /\ pc' = [pc EXCEPT ![j] = IF n = 0 THEN "probe" ELSE "idle"]
    BY <1>1 DEF Take, Step
  <2>2. Counted' = Counted \cup {j} /\ j \notin Counted
    BY <2>1 DEF Counted
  <2>3. Cardinality(Counted') = Cardinality(Counted) + 1
    BY <2>2, FiniteCounted, FS_AddElement
  <2> QED
    BY <2>1, <2>3 DEF CountInv, CountsLeases
<1>1a. ASSUME NEW j \in Job, AcquireInert(j) PROVE CountInv'
  <2>1. Counted' = Counted
    BY <1>1a DEF AcquireInert, Counted
  <2> QED
    BY <2>1, <1>1a DEF AcquireInert, CountInv, CountsLeases
<1>2. ASSUME NEW j \in Job, Release(j) PROVE CountInv'
  <2>1. Counted' = Counted
    BY <1>2 DEF Release, Step, GivesBack, Counted
  <2> QED
    BY <2>1, <1>2 DEF Release, Step, GivesBack, CountInv, CountsLeases
<1>3. ASSUME NEW j \in Job, Suspend(j) PROVE CountInv'
  <2>1. Counted' = Counted
    BY <1>3 DEF Suspend, Step, Counted
  <2> QED
    BY <2>1, <1>3 DEF Suspend, Step, CountInv, CountsLeases
<1>4. ASSUME NEW x \in Job \cup {Starter}, Probe(x) PROVE CountInv'
  BY <1>4, SameCount DEF Probe, Step, Returned, Reached
<1>5. ASSUME NEW x \in Job \cup {Starter}, SpawnFails(x) PROVE CountInv'
  BY <1>5, SameCount DEF SpawnFails, Step, Returned
<1>6. ASSUME NEW x \in Job \cup {Starter}, Spawn(x) PROVE CountInv'
  BY <1>6, SameCount DEF Spawn, Step
<1>7. ASSUME NEW x \in Job \cup {Starter}, NoteOllamaStart(x) PROVE CountInv'
  BY <1>7, SameCount DEF NoteOllamaStart, Step
<1>8. ASSUME NEW x \in Job \cup {Starter}, Await(x) PROVE CountInv'
  BY <1>8, SameCount DEF Await, Step, Returned
<1>9. ASSUME NEW x \in Actor, Claim(x) PROVE CountInv'
  BY <1>9, SameCount DEF Claim, Step, Ended
<1>10. ASSUME NEW x \in Actor, Signal(x) PROVE CountInv'
  BY <1>10, SameCount DEF Signal, Step, Ended, Terminate
<1>11. ASSUME NEW x \in Actor, Forget(x) PROVE CountInv'
  BY <1>11, SameCount DEF Forget, Step, Ended
<1>12. ASSUME NEW x \in Job \cup {Quitter}, ReadStarted(x) PROVE CountInv'
  BY <1>12, SameCount DEF ReadStarted, Step
<1>13. ASSUME NEW x \in Job \cup {Quitter}, ReadPinned(x) PROVE CountInv'
  BY <1>13, SameCount DEF ReadPinned, Step
<1>14. ASSUME NEW j \in Job, Give(j) PROVE CountInv'
  <2>1. /\ pc[j] = "give" /\ n' = IF n > 0 THEN n - 1 ELSE 0
        /\ UNCHANGED lease
        /\ pc' = [pc EXCEPT ![j] = "idle"] \/ pc' = [pc EXCEPT ![j] = "claim"]
    BY <1>14 DEF Give, Step
  <2>2. Counted' = Counted \ {j} /\ j \in Counted
    BY <2>1 DEF Counted, CountInv
  <2>3. Cardinality(Counted') = Cardinality(Counted) - 1
    BY <2>2, FiniteCounted, FS_RemoveElement
  <2>4. Cardinality(Counted) \in Nat /\ Cardinality(Counted) # 0
    BY <2>2, FiniteCounted, FS_CardinalityType, FS_EmptySet
  <2>5. Quitting' <=> Quitting
    BY <2>1 DEF Quitting
  <2> QED
    BY <2>1, <2>3, <2>4, <2>5 DEF CountInv, CountsLeases
<1>15. ASSUME NEW x \in Idlers, Fire(x) PROVE CountInv'
  BY <1>15, SameCount DEF Fire, Step
<1>16. ASSUME NEW x \in Idlers, IdleLock(x) PROVE CountInv'
  BY <1>16, SameCount DEF IdleLock, Step
<1>17. ASSUME NEW x \in Idlers, IdleCheck(x) PROVE CountInv'
  BY <1>17, SameCount DEF IdleCheck, Step
<1>18. ASSUME PinOllama PROVE CountInv'
  BY <1>18, SameCount DEF PinOllama, Step
<1>19. ASSUME Shutdown PROVE CountInv'
  BY <1>19, SameCount DEF Shutdown, Step, Disarm
<1>20. ASSUME Click(Starter, "probe") PROVE CountInv'
  BY <1>20, SameCount DEF Click, Step
<1>21. ASSUME Click(Stopper, "claim") PROVE CountInv'
  BY <1>21, SameCount DEF Click, Step
<1>22. ASSUME Quit PROVE CountInv'
  BY <1>22, SameCount DEF Quit, Step
<1>23. ASSUME NEW s \in Server, UserStarts(s) PROVE CountInv'
  BY <1>23, SameCount DEF UserStarts
<1>24. ASSUME NEW s \in Server, Boots(s) PROVE CountInv'
  BY <1>24, SameCount DEF Boots
<1>25. ASSUME NEW s \in Server, Exits(s) PROVE CountInv'
  BY <1>25, SameCount DEF Exits
<1>26. ASSUME NEW s \in Server, ReapOllama(s) PROVE CountInv'
  BY <1>26, SameCount DEF ReapOllama
<1>27. ASSUME UNCHANGED vars PROVE CountInv'
  BY <1>27, SameCount DEF vars
<1> QED
  BY <1>1, <1>1a, <1>2, <1>3, <1>4, <1>5, <1>6, <1>7, <1>8, <1>9, <1>10, <1>11,
     <1>12, <1>13, <1>14, <1>15, <1>16, <1>17, <1>18, <1>19, <1>20, <1>21,
     <1>22, <1>23, <1>24, <1>25, <1>26, <1>27
  DEF Next, Works, StartSteps, StopSteps, ReadSteps

\* n is the number of leases that are out.
THEOREM CountCorrect == Spec => []CountsLeases
<1>1. Init => TypeOK /\ CountInv
  BY InitTypeOK, InitCount
<1>2. TypeOK /\ CountInv /\ [Next]_vars => (TypeOK /\ CountInv)'
  BY StepTypeOK, StepCount
<1>3. CountInv => CountsLeases
  BY DEF CountInv
<1> QED
  BY <1>1, <1>2, <1>3, PTL DEF Spec

-----------------------------------------------------------------------------
(***************************************************************************)
(* The ownership rule, where servers are detached: whatever is recorded in *)
(* ollamaStart, or was read from it, is a server the board started. A unit *)
(* has no such rule: it is one name for every server that ran under it.    *)
(***************************************************************************)
Ours(s) == server[s] # "none" /\ origin[s] \in {"job", "button"}

OursInv ==
  /\ started # Unit /\ (started \in Server => Ours(started))
  /\ \A x \in Actor : claim[x] # Unit /\ (claim[x] \in Server => Ours(claim[x]))

\* Before the board starts anything nothing is recorded.
LEMMA InitOurs == Init => OursInv
BY ServersDiffer DEF Init, OursInv

\* Every step on the detached route keeps the record to the board's servers.
LEMMA StepOurs == Route = "detached" /\ TypeOK /\ OursInv /\ [Next]_vars => OursInv'
<1> SUFFICES ASSUME Route = "detached", TypeOK, OursInv, [Next]_vars PROVE OursInv'
  OBVIOUS
<1> USE ServersDiffer DEF TypeOK, OursInv, Ours, leaseVars, timerVars, startVars,
    stopVars, serverVars, clickVars
<1>1. ASSUME NEW j \in Job, Take(j) PROVE OursInv'
  BY <1>1 DEF Take, Step, Disarm, Quitting
<1>1a. ASSUME NEW j \in Job, AcquireInert(j) PROVE OursInv'
  BY <1>1a DEF AcquireInert
<1>2. ASSUME NEW j \in Job, Release(j) PROVE OursInv'
  BY <1>2 DEF Release, Step, GivesBack
<1>3. ASSUME NEW j \in Job, Suspend(j) PROVE OursInv'
  BY <1>3 DEF Suspend, Step
<1>4. ASSUME NEW x \in Job \cup {Starter}, Probe(x) PROVE OursInv'
  BY <1>4 DEF Probe, Step, Returned, Reached
<1>5. ASSUME NEW x \in Job \cup {Starter}, SpawnFails(x) PROVE OursInv'
  BY <1>5 DEF SpawnFails, Step, Returned
<1>6. ASSUME NEW x \in Job \cup {Starter}, Spawn(x) PROVE OursInv'
  BY <1>6 DEF Spawn, Step
<1>7. ASSUME NEW x \in Job \cup {Starter}, NoteOllamaStart(x) PROVE OursInv'
  BY <1>7 DEF NoteOllamaStart, Step, Actor
<1>8. ASSUME NEW x \in Job \cup {Starter}, Await(x) PROVE OursInv'
  BY <1>8 DEF Await, Step, Returned
<1>9. ASSUME NEW x \in Actor, Claim(x) PROVE OursInv'
  BY <1>9 DEF Claim, Step, Ended
<1>10. ASSUME NEW x \in Actor, Signal(x) PROVE OursInv'
  BY <1>10 DEF Signal, Step, Ended, Terminate
<1>11. ASSUME NEW x \in Actor, Forget(x) PROVE OursInv'
  BY <1>11 DEF Forget, Step, Ended
<1>12. ASSUME NEW x \in Job \cup {Quitter}, ReadStarted(x) PROVE OursInv'
  BY <1>12 DEF ReadStarted, Step
<1>13. ASSUME NEW x \in Job \cup {Quitter}, ReadPinned(x) PROVE OursInv'
  BY <1>13 DEF ReadPinned, Step
<1>14. ASSUME NEW j \in Job, Give(j) PROVE OursInv'
  BY <1>14 DEF Give, Step, Disarm, Arm
<1>15. ASSUME NEW x \in Idlers, Fire(x) PROVE OursInv'
  BY <1>15 DEF Fire, Step
<1>16. ASSUME NEW x \in Idlers, IdleLock(x) PROVE OursInv'
  BY <1>16 DEF IdleLock, Step
<1>17. ASSUME NEW x \in Idlers, IdleCheck(x) PROVE OursInv'
  BY <1>17 DEF IdleCheck, Step
<1>18. ASSUME PinOllama PROVE OursInv'
  BY <1>18 DEF PinOllama, Step
<1>19. ASSUME Shutdown PROVE OursInv'
  BY <1>19 DEF Shutdown, Step, Disarm
<1>20. ASSUME Click(Starter, "probe") PROVE OursInv'
  BY <1>20 DEF Click, Step
<1>21. ASSUME Click(Stopper, "claim") PROVE OursInv'
  BY <1>21 DEF Click, Step
<1>22. ASSUME Quit PROVE OursInv'
  BY <1>22 DEF Quit, Step
<1>23. ASSUME NEW s \in Server, UserStarts(s) PROVE OursInv'
  BY <1>23 DEF UserStarts
<1>24. ASSUME NEW s \in Server, Boots(s) PROVE OursInv'
  BY <1>24 DEF Boots
<1>25. ASSUME NEW s \in Server, Exits(s) PROVE OursInv'
  BY <1>25 DEF Exits
<1>26. ASSUME NEW s \in Server, ReapOllama(s) PROVE OursInv'
  BY <1>26 DEF ReapOllama
<1>27. ASSUME UNCHANGED vars PROVE OursInv'
  BY <1>27 DEF vars
<1> QED
  BY <1>1, <1>1a, <1>2, <1>3, <1>4, <1>5, <1>6, <1>7, <1>8, <1>9, <1>10, <1>11,
     <1>12, <1>13, <1>14, <1>15, <1>16, <1>17, <1>18, <1>19, <1>20, <1>21,
     <1>22, <1>23, <1>24, <1>25, <1>26, <1>27
  DEF Next, Works, StartSteps, StopSteps, ReadSteps

\* No step of the board touches a server of somebody else.
LEMMA StepForeign ==
  Route = "detached" /\ TypeOK /\ OursInv /\ [Next]_vars =>
    \A s \in Server, x \in Actor :
      pc[x] = "signal" /\ pc'[x] # "signal" /\ origin[s] = "user" => server'[s] = server[s]
<1> SUFFICES ASSUME Route = "detached", TypeOK, OursInv, [Next]_vars,
                    NEW t \in Server, NEW y \in Actor,
                    pc[y] = "signal", pc'[y] # "signal", origin[t] = "user"
             PROVE  server'[t] = server[t]
  OBVIOUS
<1> DEFINE Kept == server'[t] = server[t]
<1> USE ServersDiffer, ActorFacts DEF TypeOK, OursInv, Ours, leaseVars, timerVars, startVars,
    stopVars, serverVars, clickVars
<1>1. ASSUME NEW j \in Job, Take(j) PROVE Kept
  BY <1>1 DEF Take, Step, Disarm, Quitting
<1>1a. ASSUME NEW j \in Job, AcquireInert(j) PROVE Kept
  BY <1>1a DEF AcquireInert
<1>2. ASSUME NEW j \in Job, Release(j) PROVE Kept
  BY <1>2 DEF Release, Step, GivesBack
<1>3. ASSUME NEW j \in Job, Suspend(j) PROVE Kept
  BY <1>3 DEF Suspend, Step
<1>4. ASSUME NEW x \in Job \cup {Starter}, Probe(x) PROVE Kept
  BY <1>4 DEF Probe, Step, Returned, Reached
<1>5. ASSUME NEW x \in Job \cup {Starter}, SpawnFails(x) PROVE Kept
  BY <1>5 DEF SpawnFails, Step, Returned
<1>6. ASSUME NEW x \in Job \cup {Starter}, Spawn(x) PROVE Kept
  BY <1>6 DEF Spawn, Step
<1>7. ASSUME NEW x \in Job \cup {Starter}, NoteOllamaStart(x) PROVE Kept
  BY <1>7 DEF NoteOllamaStart, Step
<1>8. ASSUME NEW x \in Job \cup {Starter}, Await(x) PROVE Kept
  BY <1>8 DEF Await, Step, Returned
<1>9. ASSUME NEW x \in Actor, Claim(x) PROVE Kept
  BY <1>9 DEF Claim, Step, Ended
<1>10. ASSUME NEW x \in Actor, Signal(x) PROVE Kept
  <2>1. claim[x] # Unit /\ (claim[x] \in Server => origin[claim[x]] # "user")
    OBVIOUS
  <2>2. t \notin Targets(x)
    BY <2>1 DEF Targets
  <2>3. server' = server \/ Terminate(x)
    BY <1>10 DEF Signal
  <2> QED
    BY <2>2, <2>3 DEF Terminate
<1>11. ASSUME NEW x \in Actor, Forget(x) PROVE Kept
  BY <1>11 DEF Forget, Step, Ended
<1>12. ASSUME NEW x \in Job \cup {Quitter}, ReadStarted(x) PROVE Kept
  BY <1>12 DEF ReadStarted, Step
<1>13. ASSUME NEW x \in Job \cup {Quitter}, ReadPinned(x) PROVE Kept
  BY <1>13 DEF ReadPinned, Step
<1>14. ASSUME NEW j \in Job, Give(j) PROVE Kept
  BY <1>14 DEF Give, Step, Disarm, Arm
<1>15. ASSUME NEW x \in Idlers, Fire(x) PROVE Kept
  BY <1>15 DEF Fire, Step
<1>16. ASSUME NEW x \in Idlers, IdleLock(x) PROVE Kept
  BY <1>16 DEF IdleLock, Step
<1>17. ASSUME NEW x \in Idlers, IdleCheck(x) PROVE Kept
  BY <1>17 DEF IdleCheck, Step
<1>18. ASSUME PinOllama PROVE Kept
  BY <1>18 DEF PinOllama, Step
<1>19. ASSUME Shutdown PROVE Kept
  BY <1>19 DEF Shutdown, Step, Disarm
<1>20. ASSUME Click(Starter, "probe") PROVE Kept
  BY <1>20 DEF Click, Step
<1>21. ASSUME Click(Stopper, "claim") PROVE Kept
  BY <1>21 DEF Click, Step
<1>22. ASSUME Quit PROVE Kept
  BY <1>22 DEF Quit, Step
<1>23. ASSUME NEW s \in Server, UserStarts(s) PROVE Kept
  BY <1>23 DEF UserStarts
<1>24. ASSUME NEW s \in Server, Boots(s) PROVE Kept
  BY <1>24 DEF Boots
<1>25. ASSUME NEW s \in Server, Exits(s) PROVE Kept
  BY <1>25 DEF Exits
<1>26. ASSUME NEW s \in Server, ReapOllama(s) PROVE Kept
  BY <1>26 DEF ReapOllama
<1>27. ASSUME UNCHANGED vars PROVE Kept
  BY <1>27 DEF vars
<1> HIDE DEF Kept
<1>q. Kept
  BY <1>1, <1>1a, <1>2, <1>3, <1>4, <1>5, <1>6, <1>7, <1>8, <1>9, <1>10, <1>11,
     <1>12, <1>13, <1>14, <1>15, <1>16, <1>17, <1>18, <1>19, <1>20, <1>21,
     <1>22, <1>23, <1>24, <1>25, <1>26, <1>27
  DEF Next, Works, StartSteps, StopSteps, ReadSteps
<1> QED
  BY <1>q DEF Kept

\* On the detached route the board stops only servers it started.
THEOREM OwnershipCorrect ==
  ASSUME Route = "detached" PROVE Spec => NeverStopsForeign
<1>1. Init => TypeOK /\ OursInv
  BY InitTypeOK, InitOurs
<1>2. TypeOK /\ OursInv /\ [Next]_vars => (TypeOK /\ OursInv)'
  BY StepTypeOK, StepOurs
<1>3. TypeOK /\ OursInv /\ [Next]_vars =>
        [\A s \in Server, x \in Actor :
           pc[x] = "signal" /\ pc'[x] # "signal" /\ claim[x] # Unit /\ origin[s] = "user"
             => server'[s] = server[s]]_vars
  BY StepForeign
<1> QED
  BY <1>1, <1>2, <1>3, PTL DEF Spec, NeverStopsForeign

-----------------------------------------------------------------------------
(***************************************************************************)
(* One job's server, whoever owns it.                                      *)
(***************************************************************************)
\* The steps that depend on the route and on whether the board has an idle timer, for
\* any of either.
AnySpawn(x) ==
  /\ Step(x, "spawn", "note")
  /\ \/ \E s \in Server : \E c \in {s, Unit} :
          /\ server[s] = "none"
          /\ server' = [server EXCEPT ![s] = "booting"]
          /\ origin' = [origin EXCEPT ![s] = IF x = Starter THEN "button" ELSE "job"]
          /\ claim' = [claim EXCEPT ![x] = c]
     \/ claim' = [claim EXCEPT ![x] = Unit] /\ UNCHANGED <<server, origin>>
  /\ UNCHANGED <<n, leaseVars, timerVars, startVars, seen, clickVars>>

AnyGive(j) ==
  /\ n' = IF n > 0 THEN n - 1 ELSE 0
  /\ \/ (n' > 0 \/ ~seen[j]) /\ Step(j, "give", "idle") /\ UNCHANGED timerVars
     \/ n' = 0 /\ seen[j] /\ now[j] /\ Step(j, "give", "claim") /\ Disarm
     \/ n' = 0 /\ seen[j] /\ ~now[j] /\ Step(j, "give", "idle") /\ (Disarm \/ Arm)
  /\ UNCHANGED <<leaseVars, startVars, stopVars, serverVars>>

AnyUserStarts(s) ==
  /\ server[s] = "none"
  /\ server' = [server EXCEPT ![s] = "booting"]
  /\ origin' = [origin EXCEPT ![s] = "user"]
  /\ UNCHANGED <<n, leaseVars, timerVars, startVars, stopVars, clickVars, pc>>

AnyNext ==
  \/ \E x \in Job \cup {Starter} :
       Probe(x) \/ SpawnFails(x) \/ AnySpawn(x) \/ NoteOllamaStart(x) \/ Await(x)
  \/ \E x \in Actor : StopSteps(x)
  \/ \E x \in Job \cup {Quitter} : ReadSteps(x)
  \/ \E x \in Idlers : Fire(x) \/ IdleLock(x) \/ IdleCheck(x)
  \/ \E j \in Job : AnyGive(j) \/ Take(j) \/ AcquireInert(j) \/ Release(j) \/ Suspend(j)
  \/ Click(Starter, "probe") \/ Click(Stopper, "claim") \/ PinOllama \/ Quit \/ Shutdown
  \/ \E s \in Server : AnyUserStarts(s) \/ Boots(s) \/ Exits(s) \/ ReapOllama(s)

\* The steps of the three owners are among them.
LEMMA BoardSteps == Next => AnyNext
<1>1. ASSUME NEW x \in Job \cup {Starter}, Spawn(x) PROVE AnySpawn(x)
  BY <1>1 DEF Spawn, AnySpawn
<1>2. ASSUME NEW j \in Job, Give(j) PROVE AnyGive(j)
  BY <1>2 DEF Give, AnyGive
<1>3. ASSUME NEW s \in Server, UserStarts(s) PROVE AnyUserStarts(s)
  BY <1>3 DEF UserStarts, AnyUserStarts
<1> QED
  BY <1>1, <1>2, <1>3 DEF Next, Works, AnyNext, StartSteps

LEMMA UnitSteps == UnitBoard!Next => AnyNext
<1> USE DEF UnitBoard!Step, Step, UnitBoard!Disarm, Disarm, UnitBoard!Quitting, Quitting,
            UnitBoard!MayReach, MayReach, UnitBoard!MaySilent, MaySilent, UnitBoard!Answering,
            Answering, UnitBoard!Runs, Runs, UnitBoard!Exists, Exists, UnitBoard!Actor, Actor,
            leaseVars, UnitBoard!leaseVars, clickVars, UnitBoard!clickVars, timerVars,
            UnitBoard!timerVars, startVars, UnitBoard!startVars, stopVars, UnitBoard!stopVars,
            serverVars, UnitBoard!serverVars
<1>1. ASSUME NEW x PROVE /\ UnitBoard!Probe(x) => Probe(x)
                         /\ UnitBoard!SpawnFails(x) => SpawnFails(x)
                         /\ UnitBoard!Spawn(x) => AnySpawn(x)
                         /\ UnitBoard!NoteOllamaStart(x) => NoteOllamaStart(x)
                         /\ UnitBoard!Await(x) => Await(x)
  BY DEF UnitBoard!Probe, Probe, UnitBoard!Returned, Returned, UnitBoard!Reached, Reached,
         UnitBoard!SpawnFails, SpawnFails, UnitBoard!Spawn, AnySpawn, UnitBoard!NoteOllamaStart,
         NoteOllamaStart, UnitBoard!Await, Await
<1>2. ASSUME NEW x PROVE /\ UnitBoard!Claim(x) => Claim(x)
                         /\ UnitBoard!Signal(x) => Signal(x)
                         /\ UnitBoard!Forget(x) => Forget(x)
  BY DEF UnitBoard!Claim, Claim, UnitBoard!Ended, Ended, UnitBoard!Signal, Signal,
         UnitBoard!Targets, Targets, UnitBoard!Terminate, Terminate, UnitBoard!Forget, Forget
<1>3. ASSUME NEW x PROVE /\ UnitBoard!ReadSteps(x) => ReadSteps(x)
                         /\ UnitBoard!Fire(x) => Fire(x)
                         /\ UnitBoard!IdleLock(x) => IdleLock(x)
                         /\ UnitBoard!IdleCheck(x) => IdleCheck(x)
  BY DEF UnitBoard!ReadSteps, ReadSteps, UnitBoard!ReadStarted, ReadStarted,
         UnitBoard!ReadPinned, ReadPinned, UnitBoard!Fire, Fire, UnitBoard!IdleLock, IdleLock,
         UnitBoard!IdleCheck, IdleCheck
<1>4. ASSUME NEW j PROVE /\ UnitBoard!Give(j) => AnyGive(j)
                         /\ UnitBoard!Take(j) => Take(j)
                         /\ UnitBoard!AcquireInert(j) => AcquireInert(j)
                         /\ UnitBoard!Release(j) => Release(j)
                         /\ UnitBoard!Suspend(j) => Suspend(j)
  BY DEF UnitBoard!Give, AnyGive, UnitBoard!Arm, Arm, UnitBoard!Take, Take,
         UnitBoard!AcquireInert, AcquireInert, UnitBoard!Release, Release, UnitBoard!GivesBack,
         GivesBack, UnitBoard!Suspend, Suspend
<1>5. /\ \A x, step : UnitBoard!Click(x, step) => Click(x, step)
      /\ UnitBoard!PinOllama => PinOllama
      /\ UnitBoard!Quit => Quit
      /\ UnitBoard!Shutdown => Shutdown
  BY DEF UnitBoard!Click, Click, UnitBoard!PinOllama, PinOllama, UnitBoard!Quit, Quit,
         UnitBoard!Shutdown, Shutdown
<1>6. ASSUME NEW s PROVE /\ UnitBoard!UserStarts(s) => AnyUserStarts(s)
                         /\ UnitBoard!Boots(s) => Boots(s)
                         /\ UnitBoard!Exits(s) => Exits(s)
                         /\ UnitBoard!ReapOllama(s) => ReapOllama(s)
  BY DEF UnitBoard!UserStarts, AnyUserStarts, UnitBoard!Boots, Boots, UnitBoard!Exits, Exits,
         UnitBoard!ReapOllama, ReapOllama
<1> QED
  BY ONLY <1>1, <1>2, <1>3, <1>4, <1>5, <1>6
     DEF UnitBoard!Next, UnitBoard!Works, UnitBoard!StartSteps, UnitBoard!StopSteps,
         UnitBoard!Actor, StopSteps, Actor, AnyNext

LEMMA OneShotSteps == OneShotJob!Next => AnyNext
<1> USE DEF OneShotJob!Step, Step, OneShotJob!Disarm, Disarm, OneShotJob!Quitting, Quitting,
            OneShotJob!MayReach, MayReach, OneShotJob!MaySilent, MaySilent, OneShotJob!Answering,
            Answering, OneShotJob!Runs, Runs, OneShotJob!Exists, Exists, OneShotJob!Actor, Actor,
            leaseVars, OneShotJob!leaseVars, clickVars, OneShotJob!clickVars, timerVars,
            OneShotJob!timerVars, startVars, OneShotJob!startVars, stopVars, OneShotJob!stopVars,
            serverVars, OneShotJob!serverVars
<1>1. ASSUME NEW x PROVE /\ OneShotJob!Probe(x) => Probe(x)
                         /\ OneShotJob!SpawnFails(x) => SpawnFails(x)
                         /\ OneShotJob!Spawn(x) => AnySpawn(x)
                         /\ OneShotJob!NoteOllamaStart(x) => NoteOllamaStart(x)
                         /\ OneShotJob!Await(x) => Await(x)
  BY DEF OneShotJob!Probe, Probe, OneShotJob!Returned, Returned, OneShotJob!Reached, Reached,
         OneShotJob!SpawnFails, SpawnFails, OneShotJob!Spawn, AnySpawn,
         OneShotJob!NoteOllamaStart, NoteOllamaStart, OneShotJob!Await, Await
<1>2. ASSUME NEW x PROVE /\ OneShotJob!Claim(x) => Claim(x)
                         /\ OneShotJob!Signal(x) => Signal(x)
                         /\ OneShotJob!Forget(x) => Forget(x)
  BY DEF OneShotJob!Claim, Claim, OneShotJob!Ended, Ended, OneShotJob!Signal, Signal,
         OneShotJob!Targets, Targets, OneShotJob!Terminate, Terminate, OneShotJob!Forget, Forget
<1>3. ASSUME NEW x PROVE /\ OneShotJob!ReadSteps(x) => ReadSteps(x)
                         /\ OneShotJob!Fire(x) => Fire(x)
                         /\ OneShotJob!IdleLock(x) => IdleLock(x)
                         /\ OneShotJob!IdleCheck(x) => IdleCheck(x)
  BY DEF OneShotJob!ReadSteps, ReadSteps, OneShotJob!ReadStarted, ReadStarted,
         OneShotJob!ReadPinned, ReadPinned, OneShotJob!Fire, Fire, OneShotJob!IdleLock, IdleLock,
         OneShotJob!IdleCheck, IdleCheck
<1>4. ASSUME NEW j PROVE /\ OneShotJob!Give(j) => AnyGive(j)
                         /\ OneShotJob!Take(j) => Take(j)
                         /\ OneShotJob!AcquireInert(j) => AcquireInert(j)
                         /\ OneShotJob!Release(j) => Release(j)
                         /\ OneShotJob!Suspend(j) => Suspend(j)
  BY DEF OneShotJob!Give, AnyGive, OneShotJob!Arm, Arm, OneShotJob!Take, Take,
         OneShotJob!AcquireInert, AcquireInert, OneShotJob!Release, Release,
         OneShotJob!GivesBack, GivesBack, OneShotJob!Suspend, Suspend
<1>5. /\ \A x, step : OneShotJob!Click(x, step) => Click(x, step)
      /\ OneShotJob!PinOllama => PinOllama
      /\ OneShotJob!Quit => Quit
      /\ OneShotJob!Shutdown => Shutdown
  BY DEF OneShotJob!Click, Click, OneShotJob!PinOllama, PinOllama, OneShotJob!Quit, Quit,
         OneShotJob!Shutdown, Shutdown
<1>6. ASSUME NEW s PROVE /\ OneShotJob!UserStarts(s) => AnyUserStarts(s)
                         /\ OneShotJob!Boots(s) => Boots(s)
                         /\ OneShotJob!Exits(s) => Exits(s)
                         /\ OneShotJob!ReapOllama(s) => ReapOllama(s)
  BY DEF OneShotJob!UserStarts, AnyUserStarts, OneShotJob!Boots, Boots, OneShotJob!Exits, Exits,
         OneShotJob!ReapOllama, ReapOllama
<1> QED
  BY ONLY <1>1, <1>2, <1>3, <1>4, <1>5, <1>6
     DEF OneShotJob!Next, OneShotJob!Works, OneShotJob!StartSteps, OneShotJob!StopSteps,
         OneShotJob!Actor, StopSteps, Actor, AnyNext

\* The servers of the job's that run and have not been told to stop, and whether a
\* record of a start is about one.
Living == {s \in Server : origin[s] = "job" /\ server[s] \in {"booting", "up"}}
Names(c, s) == c = Unit \/ c = s

\* The buttons are not pressed, nothing is pinned, and no other job has a lease.
Alone ==
  /\ pinned = FALSE /\ clicks = MaxClicks
  /\ pc[Starter] = "idle" /\ pc[Stopper] = "idle"
  /\ \A j \in Job \ {a} : pc[j] = "idle" /\ lease[j] = "inert"

\* The job stops the server on its way to a suspended lease only, and the count is
\* that of its lease.
Phases ==
  /\ lease[a] \in {"new", "inert"} => pc[a] = "idle"
  /\ lease[a] = "held" => pc[a] \in StartAt
  /\ lease[a] = "suspended" => pc[a] \in Giving \cup StopAt \cup {"idle"}
  /\ lease[a] = "released" => pc[a] \in Giving \cup {"idle"}
  /\ pc[a] \in Giving => now[a] = (lease[a] = "suspended")
  /\ Quitting \/ n = IF lease[a] = "held" \/ pc[a] \in Giving THEN 1 ELSE 0

\* Timers and the exit path only run once the job is through.
Resting == lease[a] \in {"new", "released", "inert"} /\ pc[a] = "idle"
Waiting ==
  /\ Quitting => Resting
  /\ timer # "nil" \/ loose > 0 \/ (\E x \in Idlers : pc[x] # "idle")
       => Resting /\ lease[a] = "released"

\* A server of the job's is the one recorded, or about to be.
Remembered ==
  /\ \A s \in Living : Names(IF pc[a] = "note" THEN claim[a] ELSE started, s)
  /\ lease[a] \in {"new", "suspended"} /\ pc[a] = "idle" => Living = {}
  /\ pc[a] \in {"probe", "spawn"} => Living = {}
  /\ \A x \in {a, Quitter} : pc[x] \in {"readPinned", "give"} /\ ~seen[x] => Living = {}

\* Whoever stops a server stops the one recorded.
Stopped ==
  /\ \A x \in Actor : pc[x] \in {"signal", "forget"} => started \in {claim[x], NoServer}
  /\ \A x \in Actor : pc[x] = "forget" => Living = {}
  /\ pc[Quitter] = "exited" => Living = {}

\* The types the steps need.
Typed ==
  /\ DOMAIN pc = Actor /\ claim \in [Actor -> Server \cup {NoServer, Unit}]
  /\ lease \in [Job -> {"new", "held", "suspended", "released", "inert"}]
  /\ now \in [Job -> BOOLEAN] /\ seen \in [Actor -> BOOLEAN]
  /\ DOMAIN server = Server /\ DOMAIN origin = Server
  /\ started \in Server \cup {NoServer, Unit}
  /\ n \in Nat /\ loose \in Nat

LifeInv == Typed /\ Alone /\ Phases /\ Waiting /\ Remembered /\ Stopped

\* Every step of an owner with one job keeps the invariant.
LEMMA StepLife == LifeInv /\ AnyNext => LifeInv'
<1> SUFFICES ASSUME LifeInv, AnyNext PROVE LifeInv'
  OBVIOUS
<1> USE ActorFacts, OwnJob, ServersDiffer, Settings
       DEF LifeInv, Typed, Alone, Phases, Waiting, Remembered, Stopped, Resting, Names, Quitting,
           Giving, StartAt, StopAt, Actor, leaseVars, timerVars, startVars, stopVars, serverVars,
           clickVars, Step
<1>1. ASSUME NEW x \in Job \cup {Starter}, Probe(x) PROVE LifeInv'
  <2>1. Living' = Living
    BY <1>1 DEF Returned, Reached, Probe, Living
  <2> QED
    BY <1>1, <2>1 DEF Returned, Reached, Probe
<1>2. ASSUME NEW x \in Job \cup {Starter}, SpawnFails(x) PROVE LifeInv'
  <2>1. Living' = Living
    BY <1>2 DEF Returned, SpawnFails, Living
  <2> QED
    BY <1>2, <2>1 DEF Returned, SpawnFails
<1>3. ASSUME NEW x \in Job \cup {Starter}, AnySpawn(x) PROVE LifeInv'
  BY <1>3 DEF AnySpawn, Living
<1>4. ASSUME NEW x \in Job \cup {Starter}, NoteOllamaStart(x) PROVE LifeInv'
  <2>1. Living' = Living
    BY <1>4 DEF NoteOllamaStart, Living
  <2> QED
    BY <1>4, <2>1 DEF NoteOllamaStart
<1>5. ASSUME NEW x \in Job \cup {Starter}, Await(x) PROVE LifeInv'
  <2>1. Living' = Living
    BY <1>5 DEF Returned, Await, Living
  <2> QED
    BY <1>5, <2>1 DEF Returned, Await
<1>6. ASSUME NEW x \in Actor, Claim(x) PROVE LifeInv'
  <2>1. Living' = Living
    BY <1>6 DEF Claim, Living
  <2>2. Typed' /\ Alone' /\ Phases' /\ Waiting'
    BY <1>6 DEF Claim, Ended
  <2>3. pc[a] # "note" /\ pc'[a] \in {"idle", "signal", "exited"} \cup {pc[a]}
    BY <1>6 DEF Claim, Ended
  <2>4. started = NoServer => Living = {}
    BY <2>3 DEF Living
  <2>5. Remembered'
    <3>1. \A y \in {a, Quitter} : pc'[y] \in {"readPinned", "give"} => pc[y] = pc'[y]
      BY <1>6 DEF Claim, Ended
    <3>2. lease' = lease /\ seen' = seen /\ started' = started
      BY <1>6 DEF Claim
    <3>3. pc'[a] = "idle" /\ pc[a] # "idle" => started = NoServer
      BY <1>6 DEF Claim, Ended
    <3> QED
      BY ONLY <2>1, <2>3, <2>4, <3>1, <3>2, <3>3, LifeInv DEF LifeInv, Remembered, Names
  <2>6. Stopped'
    <3>1. \A y \in Actor : pc'[y] \in {"signal", "forget"} =>
            \/ y = x /\ pc'[x] = "signal" /\ claim'[x] = started
            \/ pc[y] = pc'[y] /\ claim'[y] = claim[y]
      BY <1>6 DEF Claim, Ended
    <3>2. pc'[Quitter] = "exited" => pc[Quitter] = "exited" \/ started = NoServer
      BY <1>6 DEF Claim, Ended
    <3>3. started' = started
      BY <1>6 DEF Claim
    <3> QED
      BY ONLY <2>1, <2>4, <3>1, <3>2, <3>3, LifeInv DEF LifeInv, Stopped
  <2> QED
    BY <2>2, <2>5, <2>6
<1>7. ASSUME NEW x \in Actor, Signal(x) PROVE LifeInv'
  BY <1>7 DEF Ended, Targets, Terminate, Runs, Exists, Signal, Living
<1>8. ASSUME NEW x \in Actor, Forget(x) PROVE LifeInv'
  <2>1. Living' = Living
    BY <1>8 DEF Ended, Forget, Living
  <2> QED
    BY <1>8, <2>1 DEF Ended, Forget
<1>9. ASSUME NEW x \in Job \cup {Quitter}, ReadStarted(x) PROVE LifeInv'
  <2>1. Living' = Living
    BY <1>9 DEF ReadStarted, Living
  <2>2. Typed' /\ Alone' /\ Phases' /\ Waiting' /\ Stopped'
    BY <1>9, <2>1 DEF ReadStarted
  <2>3. Remembered'
    <3>1. pc[a] # "note" /\ (pc'[a] = pc[a] \/ pc'[a] = "readPinned")
      BY <1>9 DEF ReadStarted
    <3>2. started = NoServer => Living = {}
      BY <3>1 DEF Living
    <3>3. \A y \in {a, Quitter} : \/ pc'[y] = pc[y] /\ seen'[y] = seen[y]
                                  \/ ~seen'[y] => started = NoServer
      BY <1>9 DEF ReadStarted
    <3>4. lease' = lease /\ started' = started
      BY <1>9 DEF ReadStarted
    <3> QED
      BY ONLY <2>1, <3>1, <3>2, <3>3, <3>4, LifeInv DEF LifeInv, Remembered, Names
  <2> QED
    BY <2>2, <2>3
<1>10. ASSUME NEW x \in Job \cup {Quitter}, ReadPinned(x) PROVE LifeInv'
  <2>1. Living' = Living
    BY <1>10 DEF ReadPinned, Living
  <2> QED
    BY <1>10, <2>1 DEF ReadPinned
<1>11. ASSUME NEW x \in Idlers, Fire(x) PROVE LifeInv'
  <2>1. Living' = Living
    BY <1>11 DEF Fire, Living
  <2> QED
    BY <1>11, <2>1 DEF Fire
<1>12. ASSUME NEW x \in Idlers, IdleLock(x) PROVE LifeInv'
  <2>1. Living' = Living
    BY <1>12 DEF IdleLock, Living
  <2> QED
    BY <1>12, <2>1 DEF IdleLock
<1>13. ASSUME NEW x \in Idlers, IdleCheck(x) PROVE LifeInv'
  <2>1. Living' = Living
    BY <1>13 DEF IdleCheck, Living
  <2> QED
    BY <1>13, <2>1 DEF IdleCheck
<1>14. ASSUME NEW j \in Job, AnyGive(j) PROVE LifeInv'
  <2>1. Living' = Living
    BY <1>14 DEF Disarm, Arm, AnyGive, Living
  <2> QED
    BY <1>14, <2>1 DEF Disarm, Arm, AnyGive
<1>15. ASSUME NEW j \in Job, Take(j) PROVE LifeInv'
  <2>1. Living' = Living
    BY <1>15 DEF Disarm, Take, Living
  <2> QED
    BY <1>15, <2>1 DEF Disarm, Take
<1>16. ASSUME NEW j \in Job, AcquireInert(j) PROVE LifeInv'
  <2>1. Living' = Living
    BY <1>16 DEF AcquireInert, Living
  <2> QED
    BY <1>16, <2>1 DEF AcquireInert
<1>17. ASSUME NEW j \in Job, Release(j) PROVE LifeInv'
  <2>1. Living' = Living
    BY <1>17 DEF GivesBack, Release, Living
  <2> QED
    BY <1>17, <2>1, ZenonT(60) DEF GivesBack, Release
<1>18. ASSUME NEW j \in Job, Suspend(j) PROVE LifeInv'
  <2>1. Living' = Living
    BY <1>18 DEF Suspend, Living
  <2> QED
    BY <1>18, <2>1 DEF Suspend
<1>19. ASSUME Click(Starter, "probe") PROVE LifeInv'
  <2>1. Living' = Living
    BY <1>19 DEF Click, Living
  <2> QED
    BY <1>19, <2>1 DEF Click
<1>20. ASSUME Click(Stopper, "claim") PROVE LifeInv'
  <2>1. Living' = Living
    BY <1>20 DEF Click, Living
  <2> QED
    BY <1>20, <2>1 DEF Click
<1>21. ASSUME PinOllama PROVE LifeInv'
  <2>1. Living' = Living
    BY <1>21 DEF PinOllama, Living
  <2> QED
    BY <1>21, <2>1 DEF PinOllama
<1>22. ASSUME Quit PROVE LifeInv'
  <2>1. Living' = Living
    BY <1>22 DEF Quit, Living
  <2> QED
    BY <1>22, <2>1 DEF Quit
<1>23. ASSUME Shutdown PROVE LifeInv'
  <2>1. Living' = Living
    BY <1>23 DEF Disarm, Shutdown, Living
  <2> QED
    BY <1>23, <2>1 DEF Disarm, Shutdown
<1>24. ASSUME NEW s \in Server, AnyUserStarts(s) PROVE LifeInv'
  BY <1>24 DEF AnyUserStarts, Living
<1>25. ASSUME NEW s \in Server, Boots(s) PROVE LifeInv'
  BY <1>25 DEF Boots, Living
<1>26. ASSUME NEW s \in Server, Exits(s) PROVE LifeInv'
  BY <1>26 DEF Runs, Exits, Living
<1>27. ASSUME NEW s \in Server, ReapOllama(s) PROVE LifeInv'
  BY <1>27 DEF ReapOllama, Living
<1> QED
  BY <1>1, <1>2, <1>3, <1>4, <1>5, <1>6, <1>7, <1>8, <1>9, <1>10, <1>11, <1>12, <1>13, <1>14,
     <1>15, <1>16, <1>17, <1>18, <1>19, <1>20, <1>21, <1>22, <1>23, <1>24, <1>25, <1>26, <1>27
     DEF AnyNext, StopSteps, ReadSteps

\* It holds at the start.
LEMMA InitLife == OwnedInit /\ owner \in {"board", "unit", "headless"} => LifeInv
<1> SUFFICES ASSUME OwnedInit, owner \in {"board", "unit", "headless"} PROVE LifeInv
  OBVIOUS
<1>1. Living = {}
  BY DEF OwnedInit, Living
<1>2. lease = [j \in Job |-> IF j = a THEN "new" ELSE "inert"] /\ clicks = MaxClicks
  BY DEF OwnedInit, Spent
<1> QED
  BY <1>1, <1>2, ActorFacts, OwnJob
     DEF OwnedInit, LifeInv, Typed, Alone, Phases, Waiting, Remembered, Stopped, Actor, Quitting,
         Giving

\* A server that the one job of the board, of the board with a systemd unit or of the
\* headless command started does not outlive its owner, however many callbacks, servers
\* and pauses there are.
THEOREM OwnerCorrect == OwnedSpec => []NothingOutlivesOwner
<1> DEFINE Single == owner \in {"board", "unit", "headless"}
<1>1. OwnedInit => (Single => LifeInv)
  BY InitLife
<1>2. (Single => LifeInv) /\ [OwnedNext]_<<vars, owner>> => (Single => LifeInv)'
  <2> SUFFICES ASSUME Single => LifeInv, [OwnedNext]_<<vars, owner>>, Single PROVE LifeInv'
    BY DEF OwnedNext
  <2>1. CASE UNCHANGED <<vars, owner>>
    BY <2>1
       DEF vars, leaseVars, timerVars, startVars, stopVars, serverVars, clickVars, LifeInv,
           Typed, Alone, Phases, Waiting, Remembered, Stopped, Resting, Names, Quitting, Living
  <2>2. CASE OwnedNext
    BY <2>2, StepLife, BoardSteps, UnitSteps, OneShotSteps DEF OwnedNext
  <2> QED
    BY <2>1, <2>2
<1>3. (Single => LifeInv) => NothingOutlivesOwner
  BY DEF NothingOutlivesOwner, NothingOutlivesBoard, LifeInv, Stopped, Living
<1> QED
  BY <1>1, <1>2, <1>3, PTL DEF OwnedSpec
=============================================================================
