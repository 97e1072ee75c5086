--------------------------- MODULE JobEventsProofs ---------------------------
(***************************************************************************)
(* The event stream, for any jobs, checkouts, channel size and number of   *)
(* clicks.                                                                 *)
(***************************************************************************)
EXTENDS JobEvents, FiniteSetTheorems, WellFoundedInduction, TLAPS

\* Every nonempty set of naturals has a least element.
LEMMA LeastNatural ==
  ASSUME NEW S \in SUBSET Nat, S # {}
  PROVE  \E n \in S : \A m \in S : n <= m
<1> DEFINE Less == {p \in Nat \X Nat : p[1] < p[2]}
<1>1. Less = OpToRel(<, Nat)
  BY DEF OpToRel
<1>2. IsWellFoundedOn(Less, Nat)
  BY <1>1, NatLessThanWellFounded
<1>3. \A x, y \in Nat : x < y => <<x, y>> \in Less
  OBVIOUS
<1> HIDE DEF Less
<1>4. PICK n \in S : \A m \in S : <<m, n>> \notin Less
  <2>1. \E n \in S : \A m \in S : ~ (<<m, n>> \in Less)
    BY <1>2, WFMin
  <2> QED
    BY <2>1
<1>5. ASSUME NEW m \in S PROVE n <= m
  <2>1. <<m, n>> \notin Less
    BY <1>4
  <2>2. n \in Nat /\ m \in Nat
    OBVIOUS
  <2>3. ~(m < n)
    BY <1>3, <2>1, <2>2
  <2> QED
    BY <2>2, <2>3
<1> QED
  BY <1>5

\* Every nonempty set of positions up to a bound has a greatest element.
LEMMA GreatestPosition ==
  ASSUME NEW b \in Nat, NEW S \in SUBSET (1..b), S # {}
  PROVE  \E n \in S : \A m \in S : m <= n
<1> DEFINE T == {k \in Nat : b - k \in S}
<1>1. T \in SUBSET Nat /\ T # {}
  <2>1. PICK n \in S : TRUE
    OBVIOUS
  <2>2. b - n \in Nat /\ b - (b - n) = n
    OBVIOUS
  <2> QED
    BY <2>1, <2>2
<1>2. PICK k \in T : \A m \in T : k <= m
  BY <1>1, LeastNatural
<1>3. ASSUME NEW m \in S PROVE m <= b - k
  <2>1. m \in 1..b /\ b - m \in T
    <3>1. b - m \in Nat /\ b - (b - m) = m
      OBVIOUS
    <3> QED
      BY <3>1
  <2>2. k <= b - m
    BY <1>2, <2>1
  <2> QED
    BY <2>1, <2>2
<1> QED
  BY <1>2, <1>3

-----------------------------------------------------------------------------
(***************************************************************************)
(* The invariant.                                                          *)
(***************************************************************************)
Statuses == {"none", "queued", "running", "done"}
Events == [job : Job, status : Statuses \cup {"output"}, paused : BOOLEAN]

EventTypes ==
  /\ status \in [Job -> Statuses]
  /\ paused \in [Job -> BOOLEAN]
  /\ id \in [Job -> Nat]
  /\ at \in [Source -> {"idle", "enter", "send"}]
  /\ DOMAIN carries = Source
  /\ \A s \in Source : at[s] # "idle" =>
       /\ carries[s] \in [job : Job, status : Statuses, paused : BOOLEAN]
       /\ carries[s].job = s[2]
  /\ events \in Seq(Events)
  /\ row \in [Repo -> [id : Nat, status : Statuses, paused : BOOLEAN]]

\* A job the board has not been told of yet: an event of it is on its way.
InFlight(j) == \/ \E s \in Source : s[2] = j /\ at[s] # "idle"
               \/ \E i \in DOMAIN events : events[i].job = j /\ events[i].status # "output"

\* While the runner is open and somebody reads, the row of every job is about a
\* job at least as new, or will be.
Told == ~closed /\ reading =>
          \A j \in Job : id[j] <= row[RepoOf[j]].id \/ InFlight(j)

EventInv == EventTypes /\ Told /\ NeverSendsOnClosed

\* What an event appended to the channel leaves of it.
LEMMA AppendedEvent ==
  ASSUME NEW q \in Seq(Events), NEW e \in Events
  PROVE  LET p == Append(q, e)
         IN  /\ p \in Seq(Events) /\ DOMAIN p = 1..(Len(q) + 1) /\ Len(q) \in Nat
             /\ p[Len(q) + 1] = e
             /\ \A i \in DOMAIN q : i \in DOMAIN p /\ p[i] = q[i]
  OBVIOUS

\* restoreJobs seeds each row with its newest job.
LEMMA InitEvents == Init => EventInv
<1> SUFFICES ASSUME Init PROVE EventInv
  OBVIOUS
<1> USE EventAssumptions DEF Init
<1>1. id \in [Job -> Nat]
  <2> SUFFICES ASSUME NEW j \in Job, \E i \in DOMAIN Restored : Restored[i] = j
               PROVE  (CHOOSE i \in DOMAIN Restored : Restored[i] = j) \in Nat
    BY DEF Source
  <2>1. (CHOOSE i \in DOMAIN Restored : Restored[i] = j) \in DOMAIN Restored
    OBVIOUS
  <2> QED
    BY <2>1
<1>2. ASSUME NEW r \in Repo
      PROVE  /\ row[r] \in [id : Nat, status : Statuses, paused : BOOLEAN]
             /\ \A i \in DOMAIN Restored : RepoOf[Restored[i]] = r => i <= row[r].id
  <2> DEFINE mine == {i \in DOMAIN Restored : RepoOf[Restored[i]] = r}
  <2>1. CASE mine = {}
    BY <2>1 DEF Statuses
  <2>2. CASE mine # {}
    <3> DEFINE top == CHOOSE i \in mine : \A n \in mine : n <= i
    <3>1. Len(Restored) \in Nat /\ mine \in SUBSET (1..Len(Restored))
      OBVIOUS
    <3>2. \E i \in mine : \A n \in mine : n <= i
      BY <2>2, <3>1, GreatestPosition
    <3>3. top \in mine /\ \A n \in mine : n <= top
      BY <3>2
    <3>4. row[r] = [id |-> top, status |-> "queued", paused |-> FALSE]
      BY <2>2
    <3>5. top \in Nat
      BY <3>1, <3>3
    <3>6. ASSUME NEW t \in Nat, row[r] = [id |-> t, status |-> "queued", paused |-> FALSE]
          PROVE  row[r] \in [id : Nat, status : Statuses, paused : BOOLEAN] /\ row[r].id = t
      BY <3>6 DEF Statuses
    <3> HIDE DEF top
    <3> QED
      BY <3>3, <3>4, <3>5, <3>6
  <2> QED
    BY <2>1, <2>2
<1>3. ASSUME NEW j \in Job PROVE id[j] <= row[RepoOf[j]].id
  <2>1. RepoOf[j] \in Repo /\ row[RepoOf[j]].id \in Nat
    BY <1>2
  <2>2. CASE \E i \in DOMAIN Restored : Restored[i] = j
    <3>1. id[j] = CHOOSE i \in DOMAIN Restored : Restored[i] = j
      BY <2>2
    <3>2. id[j] \in DOMAIN Restored /\ Restored[id[j]] = j
      BY <2>2, <3>1
    <3> QED
      BY <1>2, <2>1, <3>2
  <2>3. CASE ~ \E i \in DOMAIN Restored : Restored[i] = j
    BY <2>1, <2>3
  <2> QED
    BY <2>2, <2>3
<1>4. DOMAIN row = Repo /\ row \in [Repo -> [id : Nat, status : Statuses, paused : BOOLEAN]]
  <2>1. \A r \in Repo : row[r] \in [id : Nat, status : Statuses, paused : BOOLEAN]
    BY <1>2
  <2> QED
    BY <2>1
<1>5. EventTypes
  <2>1. status \in [Job -> Statuses] /\ paused \in [Job -> BOOLEAN]
    BY DEF Statuses
  <2>2. at \in [Source -> {"idle", "enter", "send"}] /\ DOMAIN carries = Source
        /\ \A s \in Source : at[s] = "idle"
    OBVIOUS
  <2>3. events \in Seq(Events)
    OBVIOUS
  <2> QED
    BY <1>1, <1>4, <2>1, <2>2, <2>3 DEF EventTypes
<1> QED
  BY <1>3, <1>5 DEF EventInv, Told, NeverSendsOnClosed

-----------------------------------------------------------------------------
(***************************************************************************)
(* The steps.                                                              *)
(***************************************************************************)
\* A transition leaves an event of its job with the goroutine that made it.
LEMMA TransitionEvents ==
  ASSUME EventInv, NEW j \in Job, NEW who \in {"submit", "unhold", "toggle", "dispatch", "end"},
         Emits(who, j), status' \in [Job -> Statuses], paused' \in [Job -> BOOLEAN],
         id' \in [Job -> Nat], \A k \in Job : k # j => id'[k] = id[k]
  PROVE  EventInv'
<1> USE DEF EventInv, Emits
<1>1. <<who, j>> \in Source
  BY DEF Source
<1>2. Snapshot(j) \in [job : Job, status : Statuses, paused : BOOLEAN] /\ Snapshot(j).job = j
  BY DEF Snapshot, Event
<1>3. EventTypes'
  BY <1>1, <1>2 DEF EventTypes
<1>4. \A s \in Source : at[s] # "idle" => at'[s] # "idle"
  BY <1>1 DEF EventTypes
<1>5. InFlight(j)' /\ \A k \in Job : InFlight(k) => InFlight(k)'
  BY <1>1, <1>4 DEF InFlight, EventTypes
<1>6. Told'
  BY <1>5 DEF Told, closed
<1>7. NeverSendsOnClosed'
  BY <1>1 DEF NeverSendsOnClosed, Readers, EventTypes
<1> QED
  BY <1>3, <1>6, <1>7

LEMMA StepTransitions ==
  ASSUME EventInv, NEW j \in Job, Transitions(j)
  PROVE  EventInv'
<1> USE DEF EventInv, EventTypes, Statuses
<1>1. CASE Submit(j)
  <2>1. 1 + Cardinality({k \in Job : id[k] > 0}) \in Nat
    <3>1. IsFiniteSet({k \in Job : id[k] > 0})
      BY EventAssumptions, FS_Subset
    <3> QED
      BY <3>1, FS_CardinalityType
  <2> QED
    BY <1>1, <2>1, TransitionEvents DEF Submit
<1>2. CASE Unhold(j)
  BY <1>2, TransitionEvents DEF Unhold
<1>3. CASE Dispatch(j)
  BY <1>3, TransitionEvents DEF Dispatch
<1>4. CASE Toggle(j)
  BY <1>4, TransitionEvents DEF Toggle
<1>5. CASE Finish(j)
  BY <1>5, TransitionEvents DEF Finish
<1>6. CASE CancelQueued(j)
  BY <1>6, TransitionEvents DEF CancelQueued
<1> QED
  BY <1>1, <1>2, <1>3, <1>4, <1>5, <1>6 DEF Transitions

\* emit passes the event on, unless the runner is closed.
LEMMA StepEmit ==
  ASSUME EventInv, NEW s \in Source, Enter(s) \/ Send(s)
  PROVE  EventInv'
<1> USE DEF EventInv
<1>0. UNCHANGED <<jobVars, row, reading, closing>>
  BY DEF Enter, Send
<1>1. CASE Enter(s)
  <2>1. EventTypes'
    BY <1>1 DEF EventTypes, Enter, Leaves, jobVars
  <2>2. Told'
    BY <1>1, SMTT(30) DEF Told, Enter, jobVars, InFlight, closed, EventTypes
  <2>3. NeverSendsOnClosed'
    BY <1>1 DEF NeverSendsOnClosed, Enter, Leaves, Readers, EventTypes, closed
  <2> QED
    BY <2>1, <2>2, <2>3
<1>2. CASE Send(s)
  <2>1. /\ at' = [at EXCEPT ![s] = "idle"] /\ carries' = [carries EXCEPT ![s] = NoEvent]
        /\ carries[s] \in [job : Job, status : Statuses, paused : BOOLEAN]
        /\ carries[s].job = s[2]
    BY <1>2 DEF Send, Leaves, EventTypes
  <2>2. carries[s] \in Events /\ carries[s].status # "output"
    BY <2>1 DEF Events, Statuses
  <2>3. events' = Append(events, carries[s]) \/ (closed /\ UNCHANGED events)
    BY <1>2 DEF Send, QuitClosed, closed
  <2>4. EventTypes'
    <3>1. events' \in Seq(Events)
      <4>1. events \in Seq(Events)
        BY DEF EventTypes
      <4>2. CASE events' = Append(events, carries[s])
        BY <2>2, <4>1, <4>2, AppendedEvent
      <4> QED
        BY <2>3, <4>1, <4>2
    <3>2. /\ at' \in [Source -> {"idle", "enter", "send"}] /\ DOMAIN carries' = Source
          /\ \A x \in Source : at'[x] # "idle" => at[x] # "idle" /\ carries'[x] = carries[x]
      BY <2>1 DEF EventTypes
    <3> QED
      BY <1>0, <3>1, <3>2 DEF EventTypes, jobVars
  <2>5. ASSUME ~closed, NEW j \in Job, InFlight(j) PROVE InFlight(j)'
    <3>1. /\ DOMAIN events' = 1..(Len(events) + 1) /\ Len(events) \in Nat
          /\ events'[Len(events) + 1] = carries[s]
          /\ \A i \in DOMAIN events : i \in DOMAIN events' /\ events'[i] = events[i]
      BY <2>2, <2>3, <2>5, AppendedEvent DEF EventTypes
    <3>2. CASE s[2] = j
      BY <2>1, <2>2, <3>1, <3>2 DEF InFlight
    <3>3. CASE \E x \in Source : x # s /\ x[2] = j /\ at[x] # "idle"
      BY <2>1, <3>3 DEF InFlight, EventTypes
    <3>4. CASE \E i \in DOMAIN events : events[i].job = j /\ events[i].status # "output"
      BY <3>1, <3>4 DEF InFlight
    <3> QED
      BY <2>5, <3>2, <3>3, <3>4 DEF InFlight
  <2>6. Told'
    BY <1>0, <2>5 DEF Told, closed, jobVars
  <2>7. NeverSendsOnClosed'
    BY <1>0, <2>1 DEF NeverSendsOnClosed, Readers, EventTypes
  <2> QED
    BY <2>4, <2>6, <2>7
<1> QED
  BY <1>1, <1>2

\* A received transition makes its row as new as its job; a row never ages.
LEMMA StepReceive == EventInv /\ Receive => EventInv'
<1> SUFFICES ASSUME EventInv, Receive PROVE EventInv'
  OBVIOUS
<1> USE DEF EventInv
<1> DEFINE e == Head(events)
<1>0. UNCHANGED <<jobVars, at, carries, closing, reading>>
  BY DEF Receive
<1>1. /\ e \in Events /\ events' = Tail(events) /\ events' \in Seq(Events)
      /\ e = events[1] /\ DOMAIN events = 1..Len(events) /\ DOMAIN events' = 1..(Len(events) - 1)
      /\ \A i \in DOMAIN events' : events'[i] = events[i + 1]
  BY DEF Receive, EventTypes
<1>2. e.job \in Job /\ RepoOf[e.job] \in Repo /\ (e.status # "output" => e.status \in Statuses)
      /\ e.paused \in BOOLEAN
  BY <1>1, EventAssumptions DEF Events
<1>3. /\ row' \in [Repo -> [id : Nat, status : Statuses, paused : BOOLEAN]]
      /\ \A r \in Repo : row[r].id <= row'[r].id
      /\ e.status # "output" => id[e.job] <= row'[RepoOf[e.job]].id
  <2>1. CASE e.status = "output"
    <3>1. row' = row
      BY <2>1 DEF Receive
    <3> QED
      BY <2>1, <3>1 DEF EventTypes
  <2>2. CASE e.status # "output" /\ Newer(e.job)
    <3>1. row' = [row EXCEPT ![RepoOf[e.job]] =
                    [id |-> id[e.job], status |-> e.status, paused |-> e.paused]]
      BY <2>2 DEF Receive
    <3> HIDE DEF e
    <3>2. id[e.job] \in Nat /\ row[RepoOf[e.job]].id <= id[e.job]
      BY <1>2, <2>2 DEF Newer, EventTypes
    <3> QED
      BY <1>2, <2>2, <3>1, <3>2 DEF EventTypes
  <2>3. CASE e.status # "output" /\ ~Newer(e.job)
    <3>1. row' = row
      BY <2>3 DEF Receive
    <3> HIDE DEF e
    <3> QED
      BY <1>2, <2>3, <3>1 DEF EventTypes, Newer
  <2> QED
    BY <2>1, <2>2, <2>3
<1>4. EventTypes'
  BY <1>0, <1>1, <1>3 DEF EventTypes, jobVars
<1>5. ASSUME NEW j \in Job, InFlight(j) PROVE InFlight(j)' \/ id[j] <= row'[RepoOf[j]].id
  <2>1. CASE \E s \in Source : s[2] = j /\ at[s] # "idle"
    BY <1>0, <2>1 DEF InFlight
  <2>2. ASSUME NEW i \in DOMAIN events, events[i].job = j, events[i].status # "output"
        PROVE  InFlight(j)' \/ id[j] <= row'[RepoOf[j]].id
    <3>1. CASE i = 1
      BY <1>1, <1>3, <2>2, <3>1
    <3>2. CASE i # 1
      <4>1. i - 1 \in DOMAIN events' /\ events'[i - 1] = events[i]
        BY <1>1, <3>2
      <4> QED
        BY <2>2, <4>1 DEF InFlight
    <3> QED
      BY <3>1, <3>2
  <2> QED
    BY <1>5, <2>1, <2>2 DEF InFlight
<1>6. \A j \in Job : id[j] <= row[RepoOf[j]].id => id[j] <= row'[RepoOf[j]].id
  BY <1>3, EventAssumptions DEF EventTypes
<1>7. Told'
  BY <1>0, <1>5, <1>6 DEF Told, closed, jobVars
<1>8. NeverSendsOnClosed'
  BY <1>0 DEF NeverSendsOnClosed, Readers
<1> QED
  BY <1>4, <1>7, <1>8

\* Close, output, and a consumer that stops.
LEMMA StepOthers ==
  ASSUME EventInv, Closer \/ StopReading \/ (\E j \in Job : EmitOutput(j)) \/ UNCHANGED vars
  PROVE  EventInv'
<1> USE DEF EventInv
<1>1. CASE CloseSwap \/ CloseQuit \/ CloseWaits \/ CloseEvents \/ StopReading
  BY <1>1 DEF CloseSwap, CloseQuit, CloseWaits, CloseEvents, StopReading, jobVars, EventTypes,
              Told, closed, NeverSendsOnClosed, Readers, InFlight
<1>2. CASE CloseCancelAll
  BY <1>2 DEF CloseCancelAll, EventTypes, Statuses, Told, closed, NeverSendsOnClosed, Readers
<1>3. ASSUME NEW j \in Job, EmitOutput(j) PROVE EventInv'
  <2>1. /\ UNCHANGED <<jobVars, at, carries, closing, reading, row>>
        /\ Event(j, "output", FALSE) \in Events
        /\ events' = Append(events, Event(j, "output", FALSE))
    BY <1>3 DEF EmitOutput, Event, Events
  <2> HIDE DEF EventInv
  <2>0. events \in Seq(Events)
    BY DEF EventInv, EventTypes
  <2>a. events' \in Seq(Events) /\ \A i \in DOMAIN events : i \in DOMAIN events' /\ events'[i] = events[i]
    <3> DEFINE e == Event(j, "output", FALSE)
    <3>1. e \in Events /\ events' = Append(events, e)
      BY <2>1
    <3> HIDE DEF e
    <3> QED
      BY <2>0, <3>1, AppendedEvent
  <2> USE DEF EventInv
  <2>2. EventTypes'
    <3>1. events' \in Seq(Events)
      BY <2>a
    <3> QED
      BY <2>1, <3>1 DEF EventTypes, jobVars
  <2>3. \A k \in Job : InFlight(k) => InFlight(k)'
    <3>1. \A i \in DOMAIN events : i \in DOMAIN events' /\ events'[i] = events[i]
      BY <2>a
    <3> QED
      BY <2>1, <3>1 DEF InFlight
  <2> QED
    BY <2>1, <2>2, <2>3 DEF Told, closed, jobVars, NeverSendsOnClosed, Readers
<1>4. CASE UNCHANGED vars
  BY <1>4 DEF vars, jobVars, EventTypes, Told, closed, NeverSendsOnClosed, Readers, InFlight
<1> QED
  BY <1>1, <1>2, <1>3, <1>4 DEF Closer

\* The invariant holds in every reachable state.
THEOREM EventsHold == Spec => []EventInv
<1>1. EventInv /\ [Next]_vars => EventInv'
  BY StepTransitions, StepEmit, StepReceive, StepOthers DEF Next
<1> QED
  BY InitEvents, <1>1, PTL DEF Spec

\* No goroutine is about to send when the channel is closed.
THEOREM SendsCorrect == Spec => []NeverSendsOnClosed
<1>1. EventInv => NeverSendsOnClosed
  BY DEF EventInv
<1> QED
  BY EventsHold, <1>1, PTL

\* When every event has arrived each row is about the newest job of its checkout,
\* in whatever order the goroutines sent them.
THEOREM NewestCorrect == Spec => []NewestShown
<1>1. EventInv => NewestShown
  BY DEF EventInv, Told, NewestShown, Settled, InFlight
<1> QED
  BY EventsHold, <1>1, PTL
=============================================================================
