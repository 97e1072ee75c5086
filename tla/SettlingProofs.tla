--------------------------- MODULE SettlingProofs ---------------------------
(***************************************************************************)
(* What the window is told, for any values of the constants of its parts.  *)
(***************************************************************************)
EXTENDS MCSettling, WellFoundedInduction, TLAPS

\* A step is one of the part whose behaviour it is, and leaves it that part.
LEMMA PartSteps ==
  ASSUME [SettlingNext]_settlingVars
  PROVE  /\ part' = part
         /\ part = "graph" => Graph!GraphNext \/ UNCHANGED graphVars
         /\ part = "panes" => Pane!PanesNext \/ UNCHANGED paneVars
         /\ part = "view" => View!ViewNext \/ UNCHANGED viewVars
         /\ part = "discovery" => Walk!DiscoveryNext \/ UNCHANGED walkVars
         /\ part = "readiness" => Probe!ReadinessNext \/ UNCHANGED probeVars
  BY DEF SettlingNext, Others, settlingVars, ChainStep, StoreStep, GraphStep, PaneStep, ViewStep,
         WalkStep, ProbeStep

-----------------------------------------------------------------------------
(***************************************************************************)
(* The console of the Query page.                                          *)
(***************************************************************************)
\* The question that runs is the one that was asked last.
PaneInv ==
  /\ query = [job |-> query.job, gen |-> query.gen, row |-> query.row, asked |-> query.asked,
              answer |-> query.answer, save |-> query.save, out |-> query.out]
  /\ query.job # 0 => query.job = query.asked
  /\ query.answer # 0 => query.answer = query.asked

LEMMA InitPane == SettlingInit /\ part = "panes" => PaneInv
  BY DEF SettlingInit, Pane!PanesInit, PaneInv

LEMMA StepPane ==
  ASSUME PaneInv, Pane!PanesNext \/ UNCHANGED paneVars
  PROVE  PaneInv'
<1>1. CASE UNCHANGED query
  BY <1>1 DEF PaneInv
<1>2. CASE \E r, t : Pane!Load(r, t)
  BY <1>2 DEF PaneInv, Pane!Load, Pane!Console
<1>3. CASE Pane!Ask
  BY <1>3 DEF PaneInv, Pane!Ask, Pane!Forgotten
<1>4. CASE Pane!SaveResult
  BY <1>4 DEF PaneInv, Pane!SaveResult
<1>5. CASE Pane!Tick
  BY <1>5 DEF PaneInv, Pane!Tick, Pane!TickQuery
<1> QED
  BY <1>1, <1>2, <1>3, <1>4, <1>5
     DEF Pane!PanesNext, Pane!Announced, Pane!Unannounced, Pane!OnJobEvent, Pane!Select, Pane!Turn,
         paneVars

-----------------------------------------------------------------------------
(***************************************************************************)
(* The Jobs page.                                                          *)
(***************************************************************************)
IsList(s) == Len(s) \in Nat /\ s = [i \in 1 .. Len(s) |-> s[i]]

LEMMA SeqIsList ==
  ASSUME NEW A, NEW s \in Seq(A)
  PROVE  IsList(s)
  BY DEF IsList

LEMMA ListIsSeq ==
  ASSUME NEW s, IsList(s)
  PROVE  /\ DOMAIN s = 1 .. Len(s) /\ Len(s) \in Nat
         /\ \A x : s \in Seq({s[i] : i \in 1 .. Len(s)} \cup {x})
<1>1. PICK m \in Nat : m = Len(s)
  BY DEF IsList
<1>2. s = [i \in 1 .. m |-> s[i]]
  BY <1>1 DEF IsList
<1>3. ASSUME NEW x PROVE s \in Seq({s[i] : i \in 1 .. m} \cup {x})
  <2>1. s \in [1 .. m -> {s[i] : i \in 1 .. m} \cup {x}]
    BY <1>2
  <2> QED
    BY <2>1
<1> QED
  BY <1>1, <1>2, <1>3

LEMMA ListTail ==
  ASSUME NEW s, IsList(s), s # <<>>
  PROVE  /\ IsList(Tail(s)) /\ Len(s) \in Nat \ {0} /\ Len(Tail(s)) = Len(s) - 1
         /\ Head(s) = s[1] /\ \A i \in 1 .. Len(s) - 1 : Tail(s)[i] = s[i + 1]
<1> DEFINE A == {s[i] : i \in 1 .. Len(s)} \cup {0}
<1>1. s \in Seq(A)
  BY ListIsSeq
<1> HIDE DEF A
<1>2. Tail(s) \in Seq(A) /\ Len(s) \in Nat \ {0} /\ Len(Tail(s)) = Len(s) - 1 /\ Head(s) = s[1]
  BY <1>1
<1>3. \A i \in 1 .. Len(s) - 1 : Tail(s)[i] = s[i + 1]
  BY <1>1
<1>4. IsList(Tail(s))
  BY <1>2, SeqIsList
<1> QED
  BY <1>2, <1>3, <1>4

LEMMA ListAppend ==
  ASSUME NEW s, IsList(s), NEW x
  PROVE  /\ IsList(Append(s, x)) /\ Len(Append(s, x)) = Len(s) + 1
         /\ Append(s, x)[Len(s) + 1] = x /\ \A i \in 1 .. Len(s) : Append(s, x)[i] = s[i]
<1> DEFINE A == {s[i] : i \in 1 .. Len(s)} \cup {x}
<1>1. s \in Seq(A) /\ x \in A
  BY ListIsSeq
<1> HIDE DEF A
<1>2. Append(s, x) \in Seq(A)
  BY <1>1
<1>3. Len(Append(s, x)) = Len(s) + 1 /\ Append(s, x)[Len(s) + 1] = x
      /\ \A i \in 1 .. Len(s) : Append(s, x)[i] = s[i]
  BY <1>1
<1> QED
  BY <1>2, <1>3, SeqIsList

\* One put in at place k moves those behind it.
LEMMA ListInsert ==
  ASSUME NEW s, IsList(s), NEW x, NEW k \in 1 .. Len(s) + 1
  PROVE  LET t == Pane!InsertAt(s, k, x)
         IN  /\ IsList(t) /\ Len(t) = Len(s) + 1 /\ t[k] = x
             /\ \A i \in 1 .. k - 1 : t[i] = s[i]
             /\ \A i \in k .. Len(s) : t[i + 1] = s[i]
<1> DEFINE A == {s[i] : i \in 1 .. Len(s)} \cup {x}
           a == SubSeq(s, 1, k - 1)
           b == SubSeq(s, k, Len(s))
           t == Pane!InsertAt(s, k, x)
<1>1. s \in Seq(A) /\ x \in A /\ Len(s) \in Nat
  BY ListIsSeq
<1> HIDE DEF A
<1>2. a \in Seq(A) /\ Len(a) = k - 1 /\ \A i \in 1 .. k - 1 : a[i] = s[i]
  BY <1>1
<1>3. b \in Seq(A) /\ Len(b) = Len(s) - k + 1 /\ \A i \in 1 .. Len(s) - k + 1 : b[i] = s[k + i - 1]
  BY <1>1
<1>4. t = (a \o <<x>>) \o b
  BY DEF Pane!InsertAt
<1> HIDE DEF a, b, t
<1> DEFINE c == a \o <<x>>
<1>5. c \in Seq(A) /\ Len(c) = k /\ c[k] = x /\ \A i \in 1 .. k - 1 : c[i] = a[i]
  BY <1>1, <1>2
<1> HIDE DEF c
<1>6. t = c \o b
  BY <1>4 DEF c
<1>7. t \in Seq(A) /\ Len(t) = Len(s) + 1
  BY <1>1, <1>3, <1>5, <1>6
<1>8. \A i \in 1 .. k : t[i] = c[i]
  BY <1>3, <1>5, <1>6
<1>9. \A i \in 1 .. Len(s) - k + 1 : t[k + i] = b[i]
  BY <1>3, <1>5, <1>6
<1>10. ASSUME NEW i \in k .. Len(s) PROVE t[i + 1] = s[i]
  <2>1. (i - k) + 1 \in 1 .. Len(s) - k + 1 /\ k + ((i - k) + 1) = i + 1 /\ k + ((i - k) + 1) - 1 = i
    BY <1>1
  <2> QED
    BY <1>3, <1>9, <2>1
<1>11. t[k] = x /\ \A i \in 1 .. k - 1 : t[i] = s[i]
  BY <1>2, <1>5, <1>8
<1>12. IsList(t)
  BY <1>7, SeqIsList
<1> QED
  BY <1>7, <1>10, <1>11, <1>12 DEF t

IsJob(j) ==
  /\ j = [repo |-> j.repo, class |-> j.class, status |-> j.status, paused |-> j.paused,
          gen |-> j.gen, asks |-> j.asks, saves |-> j.saves]
  /\ j.gen \in Nat

JobList == IsList(jobs) /\ \A i \in 1 .. Len(jobs) : IsJob(jobs[i])
EventList == IsList(events) /\ \A n \in 1 .. Len(events) : events[n].id \in 1 .. Len(jobs)

\* What the thread knows of a repository is of a job of it.
Known ==
  /\ last = [r \in Repos |-> last[r]]
  /\ \A r \in Repos :
       last[r].id # 0 => last[r].id \in 1 .. Len(jobs) /\ jobs[last[r].id].repo = r

\* The last event of a job on its way shows the job as it is; with none on its way the
\* thread knows that, or a newer job.
Arrives(i) ==
  \/ \E k \in 1 .. Len(events) :
       events[k] = Pane!Snapshot(jobs, i) /\ \A n \in k + 1 .. Len(events) : events[n].id # i
  \/ /\ \A n \in 1 .. Len(events) : events[n].id # i
     /\ LET r == jobs[i].repo
        IN  r \in Repos => last[r].id > i \/ last[r] = Pane!Snapshot(jobs, i)

PageKnows ==
  /\ selected \in Repos \cup {NoRepo} /\ page = [job |-> page.job, gen |-> page.gen]
  /\ tab = "jobs" /\ selected # NoRepo => page.job = last[selected]

EventInv ==
  JobList /\ EventList /\ Known /\ (\A i \in 1 .. Len(jobs) : Arrives(i)) /\ PageKnows

LEMMA InitEvents == SettlingInit /\ part = "panes" => EventInv
<1> SUFFICES ASSUME Pane!PanesInit PROVE EventInv
  BY DEF SettlingInit
<1>1. /\ jobs = <<>> /\ events = <<>> /\ selected = NoRepo
      /\ last = [r \in Repos |-> Pane!NoSnap] /\ page = Pane!Shown(Pane!NoSnap, 0)
  BY DEF Pane!PanesInit
<1>2. IsList(<<>>) /\ Len(<<>>) = 0
  BY DEF IsList
<1> QED
  BY <1>1, <1>2 DEF EventInv, JobList, EventList, Known, PageKnows, Pane!NoSnap, Pane!Shown

LEMMA SnapshotOf ==
  ASSUME NEW s, NEW t, NEW i, s[i].status = t[i].status, s[i].paused = t[i].paused
  PROVE  Pane!Snapshot(s, i) = Pane!Snapshot(t, i) /\ Pane!Snapshot(s, i).id = i
  BY DEF Pane!Snapshot

\* The job i changes, or comes to be, and its event is put in.
LEMMA AnnounceEvents ==
  ASSUME EventInv, NEW i \in 1 .. Len(jobs'), Pane!Announce(i), JobList',
         Len(jobs) <= Len(jobs'), \A j \in 1 .. Len(jobs') : j # i => j \in 1 .. Len(jobs),
         \A j \in 1 .. Len(jobs) : j # i => jobs'[j] = jobs[j],
         \A j \in 1 .. Len(jobs) : jobs'[j].repo = jobs[j].repo,
         UNCHANGED <<last, selected, tab, page>>
  PROVE  EventInv'
<1>0. /\ Len(jobs) \in Nat /\ Len(jobs') \in Nat /\ Len(events) \in Nat
      /\ 1 .. Len(jobs) \subseteq 1 .. Len(jobs')
  BY DEF EventInv, JobList, EventList, IsList
<1>1. PICK k \in 1 .. Len(events) + 1 :
        /\ \A n \in k .. Len(events) : events[n].id # i
        /\ events' = Pane!InsertAt(events, k, Pane!Snapshot(jobs', i))
  BY DEF Pane!Announce
<1>2. /\ IsList(events') /\ Len(events') = Len(events) + 1 /\ events'[k] = Pane!Snapshot(jobs', i)
      /\ \A n \in 1 .. k - 1 : events'[n] = events[n]
      /\ \A n \in k .. Len(events) : events'[n + 1] = events[n]
  BY <1>1, ListInsert DEF EventInv, EventList
<1>3. events'[k].id = i
  BY <1>2, SnapshotOf
<1>4. \A n \in 1 .. Len(events') :
        \/ n < k /\ n \in 1 .. k - 1 /\ n \in 1 .. Len(events)
        \/ n = k
        \/ n > k /\ n - 1 \in k .. Len(events) /\ (n - 1) + 1 = n /\ n - 1 \in 1 .. Len(events)
  BY <1>0, <1>2
<1>5. ASSUME NEW n \in 1 .. Len(events'), n # k
      PROVE  \E m \in 1 .. Len(events) : /\ events'[n] = events[m] /\ m = IF n < k THEN n ELSE n - 1
  BY <1>2, <1>4, <1>5
<1>6. EventList'
  <2> SUFFICES ASSUME NEW n \in 1 .. Len(events') PROVE events'[n].id \in 1 .. Len(jobs')
    BY <1>2 DEF EventList
  <2> QED
    BY <1>0, <1>3, <1>5 DEF EventInv, EventList
<1>7. Known'
  BY <1>0 DEF EventInv, Known
<1>8. ASSUME NEW j \in 1 .. Len(jobs') PROVE Arrives(j)'
  <2>1. CASE j = i
    <3>1. k \in 1 .. Len(events')
      BY <1>0, <1>2
    <3>2. ASSUME NEW n \in k + 1 .. Len(events') PROVE events'[n].id # i
      <4>1. n - 1 \in k .. Len(events) /\ (n - 1) + 1 = n
        BY <1>0, <1>2
      <4> QED
        BY <1>1, <1>2, <4>1
    <3> QED
      BY <1>2, <2>1, <3>1, <3>2 DEF Arrives
  <2>2. CASE j # i
    <3>1. j \in 1 .. Len(jobs) /\ jobs'[j] = jobs[j] /\ Arrives(j)
      BY <2>2 DEF EventInv
    <3>2. Pane!Snapshot(jobs', j) = Pane!Snapshot(jobs, j)
      BY <3>1, SnapshotOf
    <3>3. CASE \A n \in 1 .. Len(events) : events[n].id # j
      <4>1. \A n \in 1 .. Len(events') : events'[n].id # j
        BY <1>3, <1>5, <2>2, <3>3
      <4>2. \A n \in 1 .. Len(events) : events[n] # Pane!Snapshot(jobs, j)
        BY <3>3, SnapshotOf
      <4>3. jobs[j].repo \in Repos => last[jobs[j].repo].id > j \/ last[jobs[j].repo] = Pane!Snapshot(jobs, j)
        BY <3>1, <4>2 DEF Arrives
      <4> QED
        BY <3>1, <3>2, <4>1, <4>3 DEF Arrives
    <3>4. CASE \E m \in 1 .. Len(events) :
                 events[m] = Pane!Snapshot(jobs, j) /\ \A n \in m + 1 .. Len(events) : events[n].id # j
      <4>1. PICK m \in 1 .. Len(events) :
                 events[m] = Pane!Snapshot(jobs, j) /\ \A n \in m + 1 .. Len(events) : events[n].id # j
        BY <3>4
      <4>2. PICK l \in 1 .. Len(events') : events'[l] = events[m] /\ l = IF m < k THEN m ELSE m + 1
        <5>1. CASE m < k
          <6>1. m \in 1 .. k - 1 /\ m \in 1 .. Len(events')
            BY <1>0, <1>2, <5>1
          <6> QED
            BY <1>2, <5>1, <6>1
        <5>2. CASE ~(m < k)
          <6>1. m \in k .. Len(events) /\ m + 1 \in 1 .. Len(events')
            BY <1>0, <1>2, <5>2
          <6> QED
            BY <1>2, <5>2, <6>1
        <5> QED
          BY <5>1, <5>2
      <4>3. ASSUME NEW n \in l + 1 .. Len(events') PROVE events'[n].id # j
        <5>1. CASE n = k
          BY <1>3, <2>2, <5>1
        <5>2. CASE n # k
          <6>1. n \in 1 .. Len(events')
            BY <1>0, <1>2
          <6>2. PICK o \in 1 .. Len(events) : events'[n] = events[o] /\ o = IF n < k THEN n ELSE n - 1
            BY <1>5, <5>2, <6>1
          <6>3. o \in m + 1 .. Len(events)
            BY <1>0, <1>2, <4>2, <5>2, <6>2
          <6> QED
            BY <4>1, <6>2, <6>3
        <5> QED
          BY <5>1, <5>2
      <4> QED
        BY <3>2, <4>1, <4>2, <4>3 DEF Arrives
    <3> QED
      BY <3>1, <3>3, <3>4 DEF Arrives
  <2> QED
    BY <2>1, <2>2
<1>9. PageKnows'
  BY DEF EventInv, PageKnows
<1> QED
  BY <1>6, <1>7, <1>8, <1>9 DEF EventInv

\* The job i changes or comes to be, and the others stay as they are.
Touched(i) ==
  /\ JobList' /\ i \in 1 .. Len(jobs') /\ Len(jobs) <= Len(jobs')
  /\ \A j \in 1 .. Len(jobs') : j # i => j \in 1 .. Len(jobs)
  /\ \A j \in 1 .. Len(jobs) : j # i => jobs'[j] = jobs[j]
  /\ \A j \in 1 .. Len(jobs) : jobs'[j].repo = jobs[j].repo

LEMMA SubmitTouches ==
  ASSUME JobList, NEW new, IsJob(new), Pane!SubmitJob(new)
  PROVE  Touched(Len(jobs')) /\ Len(jobs') \notin 1 .. Len(jobs)
<1>1. jobs' = Append(jobs, new)
  BY DEF Pane!SubmitJob
<1>2. Len(jobs) \in Nat
  BY DEF JobList, IsList
<1>3. /\ IsList(jobs') /\ Len(jobs') = Len(jobs) + 1 /\ jobs'[Len(jobs) + 1] = new
      /\ \A j \in 1 .. Len(jobs) : jobs'[j] = jobs[j]
  BY <1>1, ListAppend DEF JobList
<1>4. \A j \in 1 .. Len(jobs') : j # Len(jobs') => j \in 1 .. Len(jobs)
  BY <1>2, <1>3
<1>5. JobList'
  <2> SUFFICES ASSUME NEW j \in 1 .. Len(jobs') PROVE IsJob(jobs'[j])
    BY <1>3 DEF JobList, IsJob
  <2> QED
    BY <1>3, <1>4 DEF JobList
<1> QED
  BY <1>2, <1>3, <1>4, <1>5 DEF Touched

LEMMA BecomesTouches ==
  ASSUME JobList, NEW i \in 1 .. Len(jobs), NEW new, IsJob(new), new.repo = jobs[i].repo,
         Pane!Becomes(i, new)
  PROVE  Touched(i) /\ jobs'[i] = new /\ Len(jobs') = Len(jobs)
<1> DEFINE A == {jobs[j] : j \in 1 .. Len(jobs)} \cup {new}
<1>1. jobs \in Seq(A) /\ new \in A /\ Len(jobs) \in Nat
  BY ListIsSeq DEF JobList
<1> HIDE DEF A
<1>2. jobs' = [jobs EXCEPT ![i] = new]
  BY DEF Pane!Becomes
<1>3. jobs' \in Seq(A) /\ Len(jobs') = Len(jobs)
  BY <1>1, <1>2
<1>4. \A j \in 1 .. Len(jobs) : jobs'[j] = IF j = i THEN new ELSE jobs[j]
  BY <1>1, <1>2
<1>5. IsList(jobs')
  BY <1>3, SeqIsList
<1>6. JobList'
  BY <1>3, <1>4, <1>5 DEF JobList, IsJob
<1> QED
  BY <1>1, <1>3, <1>4, <1>6 DEF Touched

LEMMA QueuedIsJob ==
  \A r, c, a, q : /\ IsJob(Pane!Queued(r, c))
                  /\ IsJob([Pane!Queued(r, c) EXCEPT !.asks = q])
                  /\ IsJob([Pane!Queued(r, c) EXCEPT !.saves = a])
<1> SUFFICES ASSUME NEW r, NEW c, NEW a, NEW q
             PROVE  /\ IsJob(Pane!Queued(r, c))
                    /\ IsJob([Pane!Queued(r, c) EXCEPT !.asks = q])
                    /\ IsJob([Pane!Queued(r, c) EXCEPT !.saves = a])
  OBVIOUS
<1> DEFINE j == Pane!Queued(r, c)
<1>1. IsJob(j)
  BY DEF IsJob, Pane!Queued
<1> HIDE DEF j
<1>2. IsJob([j EXCEPT !.asks = q])
  BY <1>1 DEF IsJob
<1>3. IsJob([j EXCEPT !.saves = a])
  BY <1>1 DEF IsJob
<1> QED
  BY <1>1, <1>2, <1>3 DEF j

\* A change of state touches one job, and makes it another record.
LEMMA ChangeTouches ==
  ASSUME JobList, Pane!Changes
  PROVE  \E i : Touched(i) /\ (i \notin 1 .. Len(jobs) \/ jobs'[i] # jobs[i])
<1>0. Pane!Ids = 1 .. Len(jobs)
  BY ListIsSeq DEF JobList, Pane!Ids
<1>1. CASE Pane!Submit
  <2>1. PICK r, c : Pane!SubmitJob(Pane!Queued(r, c))
    BY <1>1 DEF Pane!Submit
  <2>2. IsJob(Pane!Queued(r, c))
    BY QueuedIsJob
  <2> QED
    BY <2>1, <2>2, SubmitTouches
<1>2. CASE Pane!Start
  <2>1. PICK i \in Pane!In("queued") :
          Pane!Becomes(i, [jobs[i] EXCEPT !.status = "running", !.gen = 1])
    BY <1>2 DEF Pane!Start
  <2> DEFINE new == [jobs[i] EXCEPT !.status = "running", !.gen = 1]
  <2>2. i \in 1 .. Len(jobs) /\ jobs[i].status = "queued" /\ IsJob(jobs[i])
    BY <1>0 DEF Pane!In, JobList
  <2>3. IsJob(new) /\ new.repo = jobs[i].repo /\ new.status = "running"
    <3> DEFINE j == [jobs[i] EXCEPT !.status = "running"]
    <3>1. IsJob(j) /\ j.repo = jobs[i].repo /\ j.status = "running"
      BY <2>2 DEF IsJob
    <3> HIDE DEF j
    <3>2. LET new1 == [j EXCEPT !.gen = 1]
          IN  IsJob(new1) /\ new1.repo = j.repo /\ new1.status = j.status
      BY <3>1 DEF IsJob
    <3> QED
      BY <3>1, <3>2 DEF j
  <2> HIDE DEF new
  <2>4. Touched(i) /\ jobs'[i] = new
    BY <2>1, <2>2, <2>3, BecomesTouches DEF new
  <2> QED
    BY <2>2, <2>3, <2>4
<1>3. CASE Pane!Pause
  <2>1. PICK i \in Pane!In("running") :
          Pane!Becomes(i, [jobs[i] EXCEPT !.paused = ~@, !.gen = @ + 1])
    BY <1>3 DEF Pane!Pause
  <2> DEFINE new == [jobs[i] EXCEPT !.paused = ~@, !.gen = @ + 1]
  <2>2. i \in 1 .. Len(jobs) /\ IsJob(jobs[i])
    BY <1>0 DEF Pane!In, JobList
  <2>3. IsJob(new) /\ new.repo = jobs[i].repo /\ new.gen # jobs[i].gen
    <3> DEFINE j == [jobs[i] EXCEPT !.paused = ~@]
    <3>1. IsJob(j) /\ j.repo = jobs[i].repo /\ j.gen = jobs[i].gen
      BY <2>2 DEF IsJob
    <3> HIDE DEF j
    <3>2. LET new1 == [j EXCEPT !.gen = @ + 1]
          IN  IsJob(new1) /\ new1.repo = j.repo /\ new1.gen = j.gen + 1
      BY <3>1 DEF IsJob
    <3>3. jobs[i].gen \in Nat /\ jobs[i].gen + 1 # jobs[i].gen
      BY <2>2 DEF IsJob
    <3>4. IsJob(new) /\ new.repo = j.repo /\ new.gen = j.gen + 1
      BY <3>2 DEF j
    <3> QED
      BY <3>1, <3>3, <3>4
  <2> HIDE DEF new
  <2>4. Touched(i) /\ jobs'[i] = new
    BY <2>1, <2>2, <2>3, BecomesTouches DEF new
  <2> QED
    BY <2>3, <2>4
<1>4. CASE Pane!End
  <2>1. PICK i \in Pane!In("running"), s \in {"succeeded", "failed"} :
          Pane!Becomes(i, [jobs[i] EXCEPT !.status = s])
    BY <1>4 DEF Pane!End
  <2> DEFINE new == [jobs[i] EXCEPT !.status = s]
  <2>2. i \in 1 .. Len(jobs) /\ jobs[i].status = "running" /\ IsJob(jobs[i])
    BY <1>0 DEF Pane!In, JobList
  <2>3. IsJob(new) /\ new.repo = jobs[i].repo /\ new.status = s
    BY <2>2 DEF IsJob
  <2> HIDE DEF new
  <2>4. Touched(i) /\ jobs'[i] = new
    BY <2>1, <2>2, <2>3, BecomesTouches DEF new
  <2> QED
    BY <2>2, <2>3, <2>4
<1>5. CASE Pane!Cancel
  <2>1. PICK i \in Pane!In("queued") : Pane!Becomes(i, [jobs[i] EXCEPT !.status = "canceled"])
    BY <1>5 DEF Pane!Cancel
  <2> DEFINE new == [jobs[i] EXCEPT !.status = "canceled"]
  <2>2. i \in 1 .. Len(jobs) /\ jobs[i].status = "queued" /\ IsJob(jobs[i])
    BY <1>0 DEF Pane!In, JobList
  <2>3. IsJob(new) /\ new.repo = jobs[i].repo /\ new.status = "canceled"
    BY <2>2 DEF IsJob
  <2> HIDE DEF new
  <2>4. Touched(i) /\ jobs'[i] = new
    BY <2>1, <2>2, <2>3, BecomesTouches DEF new
  <2> QED
    BY <2>2, <2>3, <2>4
<1> QED
  BY <1>1, <1>2, <1>3, <1>4, <1>5 DEF Pane!Changes

\* The event of a change is of the job that changed.
LEMMA AnnouncedEvents ==
  ASSUME EventInv, Pane!Announced
  PROVE  EventInv'
<1>1. PICK i : Touched(i) /\ (i \notin 1 .. Len(jobs) \/ jobs'[i] # jobs[i])
  BY ChangeTouches DEF EventInv, Pane!Announced
<1>2. Pane!Ids = 1 .. Len(jobs) /\ DOMAIN jobs' = 1 .. Len(jobs')
  BY <1>1, ListIsSeq DEF EventInv, JobList, Touched, Pane!Ids
<1>3. \A j \in DOMAIN jobs' : (j \notin Pane!Ids \/ jobs'[j] # jobs[j]) <=> j = i
  BY <1>1, <1>2 DEF Touched
<1>4. i \in DOMAIN jobs'
  BY <1>1, <1>2 DEF Touched
<1>5. (CHOOSE j \in DOMAIN jobs' : j \notin Pane!Ids \/ jobs'[j] # jobs[j]) = i
  BY <1>3, <1>4
<1>6. Pane!Announce(i)
  BY <1>5 DEF Pane!Announced
<1>7. UNCHANGED <<last, selected, tab, page>>
  BY DEF Pane!Announced, Pane!detail
<1> QED
  BY <1>1, <1>6, <1>7, AnnounceEvents DEF Touched

LEMMA SubmitEvents ==
  ASSUME EventInv, NEW new, IsJob(new), Pane!SubmitJob(new), Pane!Announce(Len(jobs')),
         UNCHANGED <<last, selected, tab, page>>
  PROVE  EventInv'
<1>1. Touched(Len(jobs'))
  BY SubmitTouches DEF EventInv
<1> QED
  BY <1>1, AnnounceEvents DEF Touched

\* Output shows in no event.
LEMMA OutputEvents ==
  ASSUME EventInv, Pane!Output, UNCHANGED <<events, last, selected, tab, page>>
  PROVE  EventInv'
<1>1. PICK i \in Pane!In("running") : Pane!Becomes(i, [jobs[i] EXCEPT !.gen = @ + 1])
  BY DEF Pane!Output
<1> DEFINE new == [jobs[i] EXCEPT !.gen = @ + 1]
<1>2. i \in 1 .. Len(jobs) /\ IsJob(jobs[i])
  BY ListIsSeq DEF EventInv, JobList, Pane!In, Pane!Ids
<1>3. /\ IsJob(new) /\ new.repo = jobs[i].repo
      /\ new.status = jobs[i].status /\ new.paused = jobs[i].paused
  BY <1>2 DEF IsJob
<1> HIDE DEF new
<1>4. Touched(i) /\ jobs'[i] = new /\ Len(jobs') = Len(jobs)
  BY <1>1, <1>2, <1>3, BecomesTouches DEF EventInv, new
<1>5. ASSUME NEW j \in 1 .. Len(jobs)
      PROVE  Pane!Snapshot(jobs', j) = Pane!Snapshot(jobs, j) /\ jobs'[j].repo = jobs[j].repo
  <2>1. jobs'[j].status = jobs[j].status /\ jobs'[j].paused = jobs[j].paused
    BY <1>3, <1>4 DEF Touched
  <2> QED
    BY <1>4, <2>1, SnapshotOf DEF Touched
<1>6. \A j \in 1 .. Len(jobs) : Arrives(j)'
  BY <1>5 DEF EventInv, Arrives
<1>7. Known' /\ EventList' /\ PageKnows' /\ JobList'
  BY <1>4, <1>5 DEF EventInv, Known, EventList, PageKnows, Touched
<1> QED
  BY <1>4, <1>6, <1>7 DEF EventInv

\* The event that arrives leaves the others where they are, and tells the thread
\* unless it knows of a newer job.
LEMMA ArriveEvents ==
  ASSUME EventInv, Pane!OnJobEvent
  PROVE  EventInv'
<1> DEFINE told == Head(events)
           i == told.id
           r == jobs[i].repo
<1>1. /\ IsList(events') /\ Len(events) \in Nat \ {0} /\ Len(events') = Len(events) - 1
      /\ told = events[1] /\ \A n \in 1 .. Len(events) - 1 : events'[n] = events[n + 1]
  BY ListTail DEF EventInv, EventList, Pane!OnJobEvent
<1>2. /\ UNCHANGED <<jobs, selected, tab>> /\ page' = Pane!JobsPage(selected, last')
      /\ last' = IF Pane!Newer(told, last[r]) THEN [last EXCEPT ![r] = told] ELSE last
  BY DEF Pane!OnJobEvent
<1>3. i \in 1 .. Len(jobs) /\ Len(jobs) \in Nat
  BY <1>1 DEF EventInv, EventList, JobList, IsList
<1>4. \A q \in Repos : last'[q] = IF q = r /\ Pane!Newer(told, last[r]) THEN told ELSE last[q]
  BY <1>2 DEF EventInv, Known
<1>5. \A q \in Repos : last[q].id \in Nat
  BY <1>3 DEF EventInv, Known
<1>6. Pane!Newer(told, last[r]) <=> i >= last[r].id
  BY DEF Pane!Newer
<1>7. EventList' /\ JobList'
  BY <1>1, <1>2 DEF EventInv, EventList, JobList, IsJob
<1> HIDE DEF i, r
<1>8. told.id = i /\ jobs[i].repo = r
  BY DEF i, r
<1> HIDE DEF told
<1>9. Known'
  <2>1. last' = [q \in Repos |-> last'[q]]
    BY <1>2 DEF EventInv, Known
  <2> QED
    BY <1>2, <1>3, <1>4, <1>8, <2>1 DEF EventInv, Known
<1>10. ASSUME NEW j \in 1 .. Len(jobs) PROVE Arrives(j)'
  <2>1. Arrives(j) /\ j \in Nat
    BY <1>3 DEF EventInv
  <2>2. Pane!Snapshot(jobs', j) = Pane!Snapshot(jobs, j) /\ Pane!Snapshot(jobs, j).id = j
    BY <1>2, SnapshotOf
  <2>3. \A n \in 1 .. Len(events') : n + 1 \in 2 .. Len(events) /\ events'[n] = events[n + 1]
    BY <1>1
  <2>4. CASE \E k \in 1 .. Len(events) : k # 1 /\
               events[k] = Pane!Snapshot(jobs, j) /\ \A n \in k + 1 .. Len(events) : events[n].id # j
    <3>1. PICK k \in 1 .. Len(events) : k # 1 /\
               events[k] = Pane!Snapshot(jobs, j) /\ \A n \in k + 1 .. Len(events) : events[n].id # j
      BY <2>4
    <3>2. k - 1 \in 1 .. Len(events') /\ (k - 1) + 1 = k
      BY <1>1, <3>1
    <3>3. \A n \in (k - 1) + 1 .. Len(events') : events'[n].id # j
      BY <1>1, <2>3, <3>1
    <3>4. events'[k - 1] = Pane!Snapshot(jobs', j)
      BY <2>2, <2>3, <3>1, <3>2
    <3> QED
      BY <3>2, <3>3, <3>4 DEF Arrives
  <2>5. CASE events[1] = Pane!Snapshot(jobs, j) /\ \A n \in 2 .. Len(events) : events[n].id # j
    <3>1. i = j /\ r = jobs[j].repo /\ told = Pane!Snapshot(jobs, j)
      BY <1>1, <1>8, <2>2, <2>5
    <3>2. \A n \in 1 .. Len(events') : events'[n].id # j
      BY <2>3, <2>5
    <3>3. r \in Repos => last'[r].id > j \/ last'[r] = Pane!Snapshot(jobs, j)
      BY <1>4, <1>5, <1>6, <2>1, <3>1
    <3> QED
      BY <1>2, <2>2, <3>1, <3>2, <3>3 DEF Arrives
  <2>6. CASE /\ \A n \in 1 .. Len(events) : events[n].id # j
             /\ jobs[j].repo \in Repos =>
                  last[jobs[j].repo].id > j \/ last[jobs[j].repo] = Pane!Snapshot(jobs, j)
    <3>1. i # j /\ \A n \in 1 .. Len(events') : events'[n].id # j
      BY <1>1, <1>8, <2>3, <2>6
    <3>2. ASSUME jobs[j].repo \in Repos
          PROVE  last'[jobs[j].repo].id > j \/ last'[jobs[j].repo] = Pane!Snapshot(jobs, j)
      <4>1. CASE jobs[j].repo = r /\ Pane!Newer(told, last[r])
        <5>1. last'[r] = told /\ i >= last[r].id /\ last[r].id \in Nat /\ i \in Nat
          BY <1>3, <1>4, <1>5, <1>6, <3>2, <4>1
        <5>2. last[r].id >= j
          BY <2>1, <2>2, <2>6, <3>2, <4>1, <5>1
        <5> QED
          BY <1>8, <2>1, <3>1, <4>1, <5>1, <5>2
      <4>2. CASE ~(jobs[j].repo = r /\ Pane!Newer(told, last[r]))
        BY <1>4, <2>6, <3>2, <4>2
      <4> QED
        BY <4>1, <4>2
    <3> QED
      BY <1>2, <2>2, <3>1, <3>2 DEF Arrives
  <2> QED
    BY <1>1, <2>1, <2>4, <2>5, <2>6 DEF Arrives
<1>11. PageKnows'
  BY <1>2 DEF EventInv, PageKnows, Pane!JobsPage, Pane!Shown
<1> QED
  BY <1>2, <1>7, <1>9, <1>10, <1>11 DEF EventInv

\* What is shown moves no event.
LEMMA ShownEvents ==
  ASSUME EventInv, UNCHANGED <<jobs, events, last>>, PageKnows'
  PROVE  EventInv'
<1>1. \A j \in 1 .. Len(jobs) : Arrives(j)'
  BY DEF EventInv, Arrives
<1> QED
  BY <1>1 DEF EventInv, JobList, EventList, Known

LEMMA StepEvents ==
  ASSUME EventInv, Pane!PanesNext \/ UNCHANGED paneVars
  PROVE  EventInv'
<1>1. CASE Pane!Announced
  BY <1>1, AnnouncedEvents
<1>2. CASE Pane!Unannounced
  BY <1>2, OutputEvents DEF Pane!Unannounced, Pane!detail
<1>3. CASE Pane!OnJobEvent
  BY <1>3, ArriveEvents
<1>4. ASSUME NEW r \in Repos \cup {NoRepo}, NEW t, Pane!Load(r, t) PROVE EventInv'
  <2>1. PageKnows'
    BY <1>4 DEF EventInv, PageKnows, Pane!Load, Pane!JobsPage, Pane!Shown
  <2> QED
    BY <1>4, <2>1, ShownEvents DEF Pane!Load, Pane!runner
<1>5. CASE Pane!Select
  BY <1>4, <1>5 DEF Pane!Select
<1>6. CASE Pane!Turn
  BY <1>4, <1>6 DEF Pane!Turn, EventInv, PageKnows
<1>7. CASE Pane!Ask
  <2>1. PICK c : Pane!SubmitJob([Pane!Queued(query.row, c) EXCEPT !.asks = TRUE])
    BY <1>7 DEF Pane!Ask
  <2> DEFINE new == [Pane!Queued(query.row, c) EXCEPT !.asks = TRUE]
  <2>2. IsJob(new)
    BY QueuedIsJob
  <2>3. Pane!SubmitJob(new)
    BY <2>1
  <2> HIDE DEF new
  <2> QED
    BY <1>7, <2>2, <2>3, SubmitEvents DEF Pane!Ask, Pane!detail
<1>8. CASE Pane!SaveResult
  <2> DEFINE new == [Pane!Queued(query.row, "free") EXCEPT !.saves = query.answer]
  <2>1. IsJob(new)
    BY QueuedIsJob
  <2>2. Pane!SubmitJob(new)
    BY <1>8 DEF Pane!SaveResult
  <2> HIDE DEF new
  <2> QED
    BY <1>8, <2>1, <2>2, SubmitEvents DEF Pane!SaveResult, Pane!detail
<1>9. CASE Pane!Tick
  <2>1. PageKnows'
    BY <1>9 DEF EventInv, PageKnows, Pane!Tick, Pane!TickJobsPage, Pane!JobsPage, Pane!Shown
  <2> QED
    BY <1>9, <2>1, ShownEvents DEF Pane!Tick, Pane!runner
<1>10. CASE UNCHANGED paneVars
  BY <1>10, ShownEvents DEF paneVars, EventInv, PageKnows
<1> QED
  BY <1>1, <1>2, <1>3, <1>5, <1>6, <1>7, <1>8, <1>9, <1>10 DEF Pane!PanesNext

\* The job the thread knows is then the newest there is, and it knows it as it is.
LEMMA EventsTell == EventInv => Pane!EventsTold
<1> SUFFICES ASSUME EventInv, events = <<>>, NEW r \in Repos \ {NoRepo}, tab = "jobs", selected = r,
                    Pane!Newest(r) # 0
             PROVE  page.job = Pane!Snapshot(jobs, Pane!Newest(r))
  BY DEF Pane!EventsTold
<1> DEFINE S == {i \in Pane!Ids : jobs[i].repo = r}
           m == last[r].id
<1>1. Pane!Ids = 1 .. Len(jobs) /\ Len(jobs) \in Nat
  BY ListIsSeq DEF EventInv, JobList, Pane!Ids
<1>2. Len(events) = 0
  OBVIOUS
<1>3. \A j \in S : m > j \/ last[r] = Pane!Snapshot(jobs, j)
  BY <1>1, <1>2 DEF EventInv, Arrives
<1>4. \A j \in S : Pane!Snapshot(jobs, j).id = j
  BY SnapshotOf
<1>5. m # 0 => m \in S
  BY <1>1 DEF EventInv, Known
<1>6. page.job = last[r]
  BY DEF EventInv, PageKnows
<1>7. Pane!Newest(r) = CHOOSE i \in S \cup {0} : \A k \in S : k <= i
  BY DEF Pane!Newest
<1> HIDE DEF m
<1>8. S \subseteq Nat \ {0}
  BY <1>1
<1> HIDE DEF S
<1>9. CASE m = 0
  <2>1. S = {}
    BY <1>3, <1>4, <1>8, <1>9 DEF m
  <2> QED
    BY <1>7, <2>1
<1>10. CASE m # 0
  <2>1. m \in S /\ \A k \in S : k <= m
    BY <1>3, <1>4, <1>5, <1>8, <1>10 DEF m
  <2>2. Pane!Newest(r) \in S \cup {0} /\ \A k \in S : k <= Pane!Newest(r)
    BY <1>7, <2>1
  <2>3. m \in Nat /\ m > 0 /\ m <= Pane!Newest(r)
    BY <1>8, <2>1, <2>2
  <2>4. Pane!Newest(r) \in S
    BY <2>2, <2>3
  <2>5. Pane!Newest(r) \in Nat /\ Pane!Newest(r) <= m
    BY <1>8, <2>1, <2>4
  <2>6. Pane!Newest(r) = m
    BY <2>3, <2>5
  <2>7. last[r] = Pane!Snapshot(jobs, m)
    BY <1>3, <2>1, <2>3 DEF m
  <2> QED
    BY <1>6, <2>6, <2>7
<1> QED
  BY <1>9, <1>10

-----------------------------------------------------------------------------
(***************************************************************************)
(* The cached probe of the local server.                                   *)
(***************************************************************************)
Measurement ==
  [epoch : Nat, up : BOOLEAN, at : Nat, pc : {"none", "started", "measured"}]

\* A measurement of this epoch was made after the last invalidation.
ProbeInv ==
  /\ {time, epoch, floor} \subseteq Nat /\ up \in BOOLEAN /\ floor <= time
  /\ probes \in [Probe!Callers \cup {"background"} -> Measurement]
  /\ \A c \in DOMAIN probes :
       /\ probes[c].epoch <= epoch
       /\ probes[c].pc = "measured" /\ probes[c].epoch = epoch => probes[c].at >= floor
  /\ cache.known => cache.at >= floor

LEMMA InitProbe == SettlingInit /\ part = "readiness" => ProbeInv
<1> SUFFICES ASSUME Probe!ReadinessInit PROVE ProbeInv
  BY DEF SettlingInit
<1>1. Probe!None \in Measurement /\ Probe!None.epoch = 0 /\ Probe!None.pc = "none"
  BY DEF Measurement, Probe!None
<1>2. /\ probes = [c \in Probe!Callers \cup {"background"} |-> Probe!None]
      /\ time = 0 /\ epoch = 0 /\ floor = 0 /\ ~cache.known
  BY DEF Probe!ReadinessInit, Probe!NoProbe
<1>3. up \in BOOLEAN
  BY DEF Probe!ReadinessInit
<1> QED
  BY <1>1, <1>2, <1>3 DEF ProbeInv

LEMMA AskProbe ==
  ASSUME ProbeInv, NEW c \in Probe!Callers, Probe!ProbeLocal(c),
         UNCHANGED <<up, time, cache, epoch, floor>>
  PROVE  ProbeInv'
<1>1. Probe!Probing(epoch) \in Measurement /\ Probe!Probing(epoch).epoch = epoch
      /\ Probe!Probing(epoch).pc = "started"
  BY DEF ProbeInv, Probe!Probing, Probe!None, Measurement
<1>2. probes' = probes \/ \E d \in DOMAIN probes : probes' = [probes EXCEPT ![d] = Probe!Probing(epoch)]
  BY DEF ProbeInv, Probe!ProbeLocal
<1> QED
  BY <1>1, <1>2 DEF ProbeInv

LEMMA DropProbe ==
  ASSUME ProbeInv, Probe!Invalidate, time' \in Nat, up' \in BOOLEAN
  PROVE  ProbeInv'
<1>1. /\ epoch' = epoch + 1 /\ floor' = time' /\ probes' = probes /\ ~cache'.known
      /\ epoch \in Nat /\ DOMAIN probes = Probe!Callers \cup {"background"}
      /\ \A c \in DOMAIN probes : probes[c].epoch \in Nat
  BY DEF ProbeInv, Probe!Invalidate, Probe!NoProbe, Measurement
<1>2. \A c \in DOMAIN probes : probes[c].epoch <= epoch + 1 /\ probes[c].epoch # epoch + 1
  BY <1>1 DEF ProbeInv
<1> QED
  BY <1>1, <1>2 DEF ProbeInv

LEMMA StepProbe ==
  ASSUME ProbeInv, Probe!ReadinessNext \/ UNCHANGED probeVars
  PROVE  ProbeInv'
<1> USE DEF Probe!server, Probe!probing, Probe!window
<1>1. CASE Probe!ServerMoves
  BY <1>1 DEF ProbeInv, Probe!ServerMoves
<1>2. CASE Probe!Expires \/ Probe!ShowBackendVerdict \/ Probe!Rechecks \/ UNCHANGED probeVars
  BY <1>2 DEF ProbeInv, Probe!Expires, Probe!ShowBackendVerdict, Probe!Rechecks, probeVars
<1>3. CASE Probe!StartOllama
  <2>1. time' \in Nat
    BY <1>3 DEF ProbeInv, Probe!StartOllama
  <2>2. up' \in BOOLEAN
    BY <1>3 DEF ProbeInv, Probe!StartOllama
  <2> QED
    BY <1>3, <2>1, <2>2, DropProbe DEF Probe!StartOllama
<1>4. CASE Probe!StarterAsks \/ Probe!VerdictAsks
  BY <1>4, AskProbe DEF Probe!StarterAsks, Probe!VerdictAsks, Probe!Callers
<1>5. CASE Probe!StarterAnswered
  <2>1. CASE UNCHANGED <<up, time, cache, fresh, epoch, floor, refreshing, probes>>
    BY <2>1 DEF ProbeInv
  <2>2. CASE Probe!Invalidate
    <3>1. time' \in Nat
      BY <1>5, <2>2 DEF ProbeInv, Probe!StarterAnswered
    <3>2. up' \in BOOLEAN
      BY <1>5, <2>2 DEF ProbeInv, Probe!StarterAnswered
    <3> QED
      BY <2>2, <3>1, <3>2, DropProbe
  <2> QED
    BY <1>5, <2>1, <2>2 DEF Probe!StarterAnswered
<1>6. CASE Probe!StopOllama
  <2>1. time' \in Nat
    BY <1>6 DEF ProbeInv, Probe!StopOllama
  <2>2. up' \in BOOLEAN
    BY <1>6 DEF ProbeInv, Probe!StopOllama
  <2> QED
    BY <1>6, <2>1, <2>2, DropProbe DEF Probe!StopOllama
<1>7. CASE Probe!PinSaved
  BY <1>7 DEF ProbeInv, Probe!PinSaved
<1>8. ASSUME NEW c \in DOMAIN probes, Probe!Measures(c) PROVE ProbeInv'
  <2> DEFINE p == [epoch |-> probes[c].epoch, up |-> up, at |-> time, pc |-> "measured"]
  <2>1. p \in Measurement
    BY DEF ProbeInv, Measurement
  <2>2. probes' = [probes EXCEPT ![c] = p]
    <3> DEFINE q == probes[c]
               q1 == [q EXCEPT !.pc = "measured"]
               q2 == [q1 EXCEPT !.up = up]
               q3 == [q2 EXCEPT !.at = time]
    <3>1. q \in Measurement /\ probes' = [probes EXCEPT ![c] = q3]
      BY <1>8 DEF ProbeInv, Probe!Measures
    <3> HIDE DEF q
    <3>2. q = [epoch |-> q.epoch, up |-> q.up, at |-> q.at, pc |-> q.pc]
      BY <3>1 DEF Measurement
    <3>3. q1 = [epoch |-> q.epoch, up |-> q.up, at |-> q.at, pc |-> "measured"]
      BY <3>2
    <3> HIDE DEF q1
    <3>4. q2 = [epoch |-> q.epoch, up |-> up, at |-> q.at, pc |-> "measured"]
      BY <3>3
    <3> HIDE DEF q2
    <3>5. q3 = [epoch |-> q.epoch, up |-> up, at |-> time, pc |-> "measured"]
      BY <3>4
    <3> HIDE DEF q3
    <3> QED
      BY <3>1, <3>5 DEF q
  <2>3. p.epoch = probes[c].epoch /\ p.at = time
    OBVIOUS
  <2> HIDE DEF p
  <2> QED
    BY <1>8, <2>1, <2>2, <2>3 DEF ProbeInv, Probe!Measures
<1>9. ASSUME NEW c \in DOMAIN probes, Probe!ProbeStored(c) PROVE ProbeInv'
  <2>1. /\ Probe!None \in Measurement /\ Probe!None.epoch = 0 /\ Probe!None.pc = "none"
        /\ probes' = [probes EXCEPT ![c] = Probe!None] /\ UNCHANGED <<up, time, epoch, floor>>
    BY <1>9 DEF Probe!ProbeStored, Probe!None, Measurement
  <2>2. (cache.known => cache.at >= floor)'
    BY <1>9 DEF ProbeInv, Probe!ProbeStored, Probe!Keeps
  <2> QED
    BY <2>1, <2>2 DEF ProbeInv
<1> QED
  BY <1>1, <1>2, <1>3, <1>4, <1>5, <1>6, <1>7, <1>8, <1>9 DEF Probe!ReadinessNext

-----------------------------------------------------------------------------
(***************************************************************************)
(* The cache of the graph scan.                                            *)
(***************************************************************************)
\* The stamp s was taken no later than t.
NotAfter(s, t) ==
  /\ s = <<s[1], s[2]>> /\ {s[1], s[2]} \subseteq Nat
  /\ s[1] < t[1] \/ (s[1] = t[1] /\ s[2] <= t[2])

\* What is kept was derived since the last invalidation, and what a scan derives under
\* the stamp of now will have been. A stamp never comes back.
ScanInv ==
  /\ {gen, clears, drops} \subseteq Nat
  /\ entry # Graph!NoEntry =>
       entry = [key |-> entry.key, static |-> entry.static, g |-> entry.g, aged |-> entry.aged,
                born |-> drops]
  /\ scan.step \in {"derives", "stores"} =>
       /\ NotAfter(scan.stamp, <<clears, gen>>)
       /\ scan.stamp = <<clears, gen>> => scan.born = drops

LEMMA InitScan == SettlingInit /\ part = "graph" => ScanInv
  BY DEF SettlingInit, Graph!GraphInit, ScanInv, Graph!NoScanning

\* A scan that begins, or none.
LEMMA RefreshScan ==
  ASSUME Graph!Refresh
  PROVE  scan' = scan \/ scan'.step \notin {"derives", "stores"}
  BY DEF Graph!Refresh

\* Every invalidation makes a stamp that no scan has.
LEMMA DropScan ==
  ASSUME ScanInv, Graph!Invalidate \/ Graph!Prune \/ Graph!Clear,
         scan' = scan \/ scan'.step \notin {"derives", "stores"}
  PROVE  ScanInv'
<1>1. CASE UNCHANGED <<entry, gen, clears, drops>>
  BY <1>1 DEF ScanInv, NotAfter
<1>2. CASE ~UNCHANGED <<entry, gen, clears, drops>>
  <2>1. /\ {gen, clears, drops} \subseteq Nat
        /\ entry' = Graph!NoEntry /\ drops' = drops + 1
        /\ \/ gen' = gen + 1 /\ clears' = clears
           \/ gen' = 0 /\ clears' = clears + 1
    BY <1>2 DEF ScanInv, Graph!Invalidate, Graph!Prune, Graph!Clear, Graph!cache
  <2>2. ASSUME scan' = scan, scan.step \in {"derives", "stores"}
        PROVE  NotAfter(scan.stamp, <<clears', gen'>>) /\ scan.stamp # <<clears', gen'>>
    BY <2>1, <2>2 DEF ScanInv, NotAfter
  <2> QED
    BY <2>1, <2>2 DEF ScanInv, NotAfter
<1> QED
  BY <1>1, <1>2

LEMMA StepScan ==
  ASSUME ScanInv, Graph!GraphNext \/ UNCHANGED graphVars
  PROVE  ScanInv'
<1> USE DEF Graph!cache, Graph!boardVars
<1>1. ASSUME UNCHANGED <<entry, gen, clears, drops>>,
             scan' = scan \/ scan'.step \notin {"derives", "stores"}
      PROVE  ScanInv'
  BY <1>1 DEF ScanInv, NotAfter
<1>2. CASE UNCHANGED graphVars
  BY <1>1, <1>2 DEF graphVars
<1>3. CASE \/ \E x \in Sources : Graph!Edit(x) \/ Graph!Remove(x)
           \/ Graph!Commit \/ Graph!ComeOrGo \/ Graph!BuildStarts \/ Graph!BuildReads \/ Graph!BuildEnds
  BY <1>1, <1>3 DEF Graph!Edit, Graph!Remove, Graph!Commit, Graph!ComeOrGo, Graph!BuildStarts,
                    Graph!BuildReads, Graph!BuildEnds
<1>4. CASE Graph!RefreshTick
  BY <1>1, <1>4, RefreshScan DEF Graph!RefreshTick
<1>5. CASE Graph!Rescan
  BY <1>1, <1>5, RefreshScan, DropScan DEF Graph!Rescan
<1>6. CASE Graph!ScanFinds
  <2>1. scan'.step \notin {"derives", "stores"}
    BY <1>6 DEF Graph!ScanFinds
  <2> QED
    BY <1>1, <1>6, <2>1, DropScan DEF Graph!ScanFinds
<1>7. CASE Graph!ScanLooks
  <2>1. \/ scan'.step \notin {"derives", "stores"}
        \/ scan'.stamp = <<clears, gen>> /\ scan'.born = drops
    BY <1>7 DEF Graph!ScanLooks, Graph!Stamp
  <2> QED
    BY <1>1, <1>7, <2>1 DEF Graph!ScanLooks, ScanInv, NotAfter
<1>8. CASE Graph!ScanDerives
  <2>1. scan'.stamp = scan.stamp /\ scan'.born = scan.born
    BY <1>8 DEF Graph!ScanDerives
  <2> QED
    BY <1>8, <2>1 DEF Graph!ScanDerives, ScanInv, NotAfter
<1>9. CASE Graph!ScanStores
  <2>1. scan'.step \notin {"derives", "stores"} /\ UNCHANGED <<gen, clears, drops>>
    BY <1>9 DEF Graph!ScanStores
  <2>2. CASE scan.stamp = <<clears, gen>>
    <3>1. scan.born = drops
      BY <1>9, <2>2 DEF ScanInv, Graph!ScanStores
    <3>2. entry' = [key |-> scan.key, static |-> scan.static, g |-> scan.g, aged |-> FALSE, born |-> drops]
      BY <1>9, <2>2, <3>1 DEF Graph!ScanStores, Graph!MayStore, Graph!Stamp
    <3> QED
      BY <2>1, <3>2 DEF ScanInv
  <2>3. CASE scan.stamp # <<clears, gen>>
    <3>1. entry' = entry
      BY <1>9, <2>3 DEF Graph!ScanStores, Graph!MayStore, Graph!Stamp
    <3> QED
      BY <1>1, <2>1, <3>1
  <2> QED
    BY <2>2, <2>3
<1>10. CASE Graph!ScanPublishes
  BY <1>1, <1>10 DEF Graph!ScanPublishes, Graph!NoScanning
<1>11. CASE Graph!Ages
  <2>1. entry' = [key |-> entry.key, static |-> entry.static, g |-> entry.g, aged |-> TRUE, born |-> drops]
    <3> DEFINE k == entry.key
               s == entry.static
               d == entry.g
               a == entry.aged
               n == [entry EXCEPT !.aged = TRUE]
    <3>1. entry = [key |-> k, static |-> s, g |-> d, aged |-> a, born |-> drops] /\ entry' = n /\ n = [entry EXCEPT !.aged = TRUE]
      BY <1>11 DEF ScanInv, Graph!Ages
    <3> HIDE DEF k, s, d, a, n
    <3>2. n = [key |-> k, static |-> s, g |-> d, aged |-> TRUE, born |-> drops]
      BY <3>1
    <3> QED
      BY <3>1, <3>2 DEF k, s, d
  <2> QED
    BY <1>11, <2>1 DEF Graph!Ages, ScanInv, NotAfter
<1>12. CASE Graph!OnJobEvent
  <2>1. scan' = scan \/ scan'.step \notin {"derives", "stores"}
    BY <1>12, RefreshScan DEF Graph!OnJobEvent
  <2> QED
    BY <1>12, <2>1, DropScan DEF Graph!OnJobEvent
<1>13. CASE Graph!AckSteps
  <2>1. PICK x \in acks : Graph!AckWalks(x) \/ Graph!AckStamps(x) \/ Graph!AckRenames(x) \/ Graph!AckRecords(x)
    BY <1>13 DEF Graph!AckSteps
  <2>2. CASE Graph!AckRecords(x)
    BY <2>2, RefreshScan, DropScan DEF Graph!AckRecords
  <2>3. CASE Graph!AckWalks(x) \/ Graph!AckStamps(x) \/ Graph!AckRenames(x)
    BY <1>1, <2>3 DEF Graph!AckWalks, Graph!AckStamps, Graph!AckRenames
  <2> QED
    BY <2>1, <2>2, <2>3
<1> QED
  BY <1>2, <1>3, <1>4, <1>5, <1>6, <1>7, <1>8, <1>9, <1>10, <1>11, <1>12, <1>13
     DEF Graph!GraphNext, Graph!ScanSteps

-----------------------------------------------------------------------------
(***************************************************************************)
(* The list of the board.                                                  *)
(***************************************************************************)
Graphs == [Paths -> {"none", "fresh"}]

\* A list that shows these rows, drawn and sorted from what the window knows.
Drawn(shown, s, r, u, b) ==
  [shown |-> shown,
   cells |-> [p \in shown |-> View!Text(p, r, u, b)],
   keys  |-> [p \in shown |-> View!Key(p, s, r, u, b)]]

\* The list is drawn and sorted from what the window knows now. The chip of the
\* gaps lets through what it would now, and no state of a row is called that.
ViewInv ==
  /\ disk = [on |-> disk.on, graph |-> disk.graph, uses |-> disk.uses]
  /\ disk.graph \in Graphs /\ rows.graph \in Graphs
  /\ disk.on \subseteq Paths /\ rows.on \subseteq Paths
  /\ landing.running => landing.graph \in Graphs /\ landing.on \subseteq Paths
  /\ list = Drawn(list.shown, sort, rows, uses, busy)
  /\ chip = "gap" => list.shown = View!Matching(chip, group, rows, uses, busy)

LEMMA DrawnFields ==
  ASSUME NEW shown, NEW s, NEW r, NEW u, NEW b
  PROVE  /\ Drawn(shown, s, r, u, b).shown = shown
         /\ \A p \in shown : Drawn(shown, s, r, u, b).cells[p] = View!Text(p, r, u, b)
         /\ \A p \in shown : Drawn(shown, s, r, u, b).keys[p] = View!Key(p, s, r, u, b)
  BY DEF Drawn

\* The toolkit, and what it is told, draw what the window knows.
LEMMA ListMoves ==
  ASSUME NEW l, NEW shown, NEW s, NEW r, NEW u, NEW b
  PROVE  /\ l = Drawn(l.shown, s, r, u, b)
              => View!Filtered(l, shown, s, r, u, b) = Drawn(shown, s, r, u, b)
         /\ View!Filtered(View!Empty, shown, s, r, u, b) = Drawn(shown, s, r, u, b)
         /\ View!Sorted(View!Repainted(View!Filtered(l, shown, s, r, u, b), r, u, b), s, r, u, b)
              = Drawn(shown, s, r, u, b)
         /\ l = Drawn(l.shown, s, r, u, b) => View!Repainted(l, r, u, b) = l
<1>1. \A x : View!Filtered(x, shown, s, r, u, b).shown = shown
  BY DEF View!Filtered
<1>2. ASSUME NEW x, NEW old, x = Drawn(old, s, r, u, b)
      PROVE  View!Filtered(x, shown, s, r, u, b) = Drawn(shown, s, r, u, b)
  <2>1. /\ x.shown = old
        /\ \A p \in old : x.cells[p] = View!Text(p, r, u, b) /\ x.keys[p] = View!Key(p, s, r, u, b)
    BY <1>2, DrawnFields
  <2> QED
    BY <2>1 DEF View!Filtered, Drawn
<1>3. View!Filtered(View!Empty, shown, s, r, u, b) = Drawn(shown, s, r, u, b)
  BY DEF View!Filtered, View!Empty, Drawn
<1>4. ASSUME NEW x, x.shown = shown, x = [shown |-> shown, cells |-> x.cells, keys |-> x.keys]
      PROVE  View!Sorted(View!Repainted(x, r, u, b), s, r, u, b) = Drawn(shown, s, r, u, b)
  <2> DEFINE cells == [p \in shown |-> View!Text(p, r, u, b)]
             keys == [p \in shown |-> View!Key(p, s, r, u, b)]
             c == x.cells
             k == x.keys
             y == View!Repainted(x, r, u, b)
             z == View!Sorted(y, s, r, u, b)
  <2>1. x = [shown |-> shown, cells |-> c, keys |-> k] /\ y = [x EXCEPT !.cells = cells]
    BY <1>4 DEF View!Repainted
  <2> HIDE DEF c, k, cells, y
  <2>2. y = [shown |-> shown, cells |-> cells, keys |-> k] /\ y.shown = shown
    BY <2>1
  <2>3. z = [y EXCEPT !.keys = keys]
    BY <2>2 DEF View!Sorted
  <2> HIDE DEF keys, z
  <2>4. z = [shown |-> shown, cells |-> cells, keys |-> keys]
    BY <2>2, <2>3
  <2> QED
    BY <2>4 DEF Drawn, cells, keys, z, y
<1>5. View!Sorted(View!Repainted(View!Filtered(l, shown, s, r, u, b), r, u, b), s, r, u, b)
        = Drawn(shown, s, r, u, b)
  <2> DEFINE x == View!Filtered(l, shown, s, r, u, b)
  <2>1. x.shown = shown /\ x = [shown |-> shown, cells |-> x.cells, keys |-> x.keys]
    BY DEF View!Filtered
  <2> HIDE DEF x
  <2> QED
    BY <1>4, <2>1 DEF x
<1>6. ASSUME NEW old, l = Drawn(old, s, r, u, b) PROVE View!Repainted(l, r, u, b) = l
  <2> DEFINE cells == [p \in old |-> View!Text(p, r, u, b)]
             keys == [p \in old |-> View!Key(p, s, r, u, b)]
             y == View!Repainted(l, r, u, b)
  <2>1. l = [shown |-> old, cells |-> cells, keys |-> keys]
    BY <1>6 DEF Drawn
  <2>2. y = [l EXCEPT !.cells = [p \in l.shown |-> View!Text(p, r, u, b)]] /\ l.shown = old
    BY <2>1 DEF View!Repainted
  <2>3. y = [l EXCEPT !.cells = cells]
    BY <2>2
  <2> HIDE DEF cells, keys, y
  <2> QED
    BY <2>1, <2>3 DEF y
<1> QED
  BY <1>2, <1>3, <1>5, <1>6

\* Cells that are right stay so when the filter lets other rows through, and the sorter
\* makes the keys right whatever they were.
LEMMA CellsMove ==
  ASSUME NEW old, NEW k, NEW shown, NEW s, NEW r, NEW u, NEW b
  PROVE  LET x == [shown |-> old, cells |-> [p \in old |-> View!Text(p, r, u, b)], keys |-> k]
         IN  /\ View!Sorted(x, s, r, u, b) = Drawn(old, s, r, u, b)
             /\ View!Sorted(View!Filtered(x, shown, s, r, u, b), s, r, u, b) = Drawn(shown, s, r, u, b)
<1>1. ASSUME NEW on, NEW y, NEW j,
             y = [shown |-> on, cells |-> [p \in on |-> View!Text(p, r, u, b)], keys |-> j]
      PROVE  View!Sorted(y, s, r, u, b) = Drawn(on, s, r, u, b)
  <2> DEFINE cells == [p \in on |-> View!Text(p, r, u, b)]
             keys == [p \in on |-> View!Key(p, s, r, u, b)]
             z == View!Sorted(y, s, r, u, b)
  <2>1. y = [shown |-> on, cells |-> cells, keys |-> j] /\ y.shown = on
    BY <1>1
  <2>2. z = [y EXCEPT !.keys = keys]
    BY <2>1 DEF View!Sorted
  <2> HIDE DEF cells, keys, z
  <2>3. z = [shown |-> on, cells |-> cells, keys |-> keys]
    BY <2>1, <2>2
  <2> QED
    BY <2>3 DEF Drawn, cells, keys, z
<1> DEFINE x == [shown |-> old, cells |-> [p \in old |-> View!Text(p, r, u, b)], keys |-> k]
           y == View!Filtered(x, shown, s, r, u, b)
<1>2. y = [shown |-> shown, cells |-> [p \in shown |-> View!Text(p, r, u, b)], keys |-> y.keys]
  BY DEF View!Filtered
<1> HIDE DEF y
<1>3. View!Sorted(y, s, r, u, b) = Drawn(shown, s, r, u, b)
  BY <1>1, <1>2
<1>4. View!Sorted(x, s, r, u, b) = Drawn(old, s, r, u, b)
  BY <1>1
<1> QED
  BY <1>3, <1>4 DEF y

LEMMA ScanView ==
  ASSUME ViewInv, View!SetRows
  PROVE  ViewInv'
<1> DEFINE r == [on |-> landing.on, graph |-> landing.graph]
           shown == View!Matching(chip, group, r, uses, busy)
           first == IF r.on = rows.on THEN View!Same(list, r) ELSE View!Spliced(r)
           wide == View!Matching(chip, group', r, uses, busy)
<1>1. /\ rows' = r /\ UNCHANGED <<disk, uses, busy, chip, sort>> /\ ~landing'.running
      /\ list' = IF group' = group THEN first ELSE View!Filtered(first, wide, sort, r, uses, busy)
  BY DEF View!SetRows, View!NotRunning
<1>2. r.graph \in Graphs /\ r.on \subseteq Paths
  BY DEF View!SetRows, ViewInv
<1>3. first = Drawn(shown, sort, r, uses, busy)
  BY ListMoves DEF View!Same, View!Spliced, View!FilterTold, View!CellsTold
<1> HIDE DEF first, shown, wide, r
<1>4. first.shown = shown /\ first = Drawn(first.shown, sort, r, uses, busy)
  BY <1>3, DrawnFields
<1>5. list' = Drawn(IF group' = group THEN shown ELSE wide, sort, r, uses, busy)
  BY <1>1, <1>3, <1>4, ListMoves
<1>6. list'.shown = IF group' = group THEN shown ELSE wide
  BY <1>5, DrawnFields
<1>7. list' = Drawn(list'.shown, sort', rows', uses', busy')
  BY <1>1, <1>5, <1>6
<1>8. list'.shown = View!Matching(chip', group', rows', uses', busy')
  BY <1>1, <1>6 DEF shown, wide
<1> QED
  BY <1>1, <1>2, <1>7, <1>8 DEF ViewInv

LEMMA JobView ==
  ASSUME ViewInv, View!OnJobEvent
  PROVE  ViewInv'
<1> DEFINE l == View!Repainted(list, rows, uses, busy')
           old == list.shown
           cells == [p \in old |-> View!Text(p, rows, uses, busy')]
<1>1. /\ UNCHANGED <<disk, rows, uses, chip, group, sort, landing>>
      /\ list' = IF sort = "state" THEN View!Sorted(l, sort, rows, uses, busy') ELSE l
  BY DEF View!OnJobEvent, View!choice, View!async
<1>2. l = [shown |-> old, cells |-> cells, keys |-> [p \in old |-> View!Key(p, sort, rows, uses, busy)]]
  <2> DEFINE keys == [p \in old |-> View!Key(p, sort, rows, uses, busy)]
             c == [p \in old |-> View!Text(p, rows, uses, busy)]
  <2>1. list = [shown |-> old, cells |-> c, keys |-> keys]
    BY DEF ViewInv, Drawn
  <2>2. l = [list EXCEPT !.cells = cells]
    BY DEF View!Repainted
  <2> HIDE DEF keys, c, cells, l, old
  <2>3. l = [shown |-> old, cells |-> cells, keys |-> keys]
    BY <2>1, <2>2
  <2> QED
    BY <2>3 DEF keys
<1>3. list' = Drawn(old, sort, rows, uses, busy')
  <2>1. CASE sort = "state"
    BY <1>1, <1>2, <2>1, CellsMove
  <2>2. CASE sort # "state"
    <3>1. \A p : View!Key(p, sort, rows, uses, busy) = View!Key(p, sort, rows, uses, busy')
      BY <2>2 DEF View!Key
    <3>2. list' = l
      BY <1>1, <2>2
    <3> QED
      BY <1>2, <3>1, <3>2 DEF Drawn
  <2> QED
    BY <2>1, <2>2
<1>4. list'.shown = old
  BY <1>3, DrawnFields
<1>5. ASSUME NEW b PROVE View!Matching("gap", group, rows, uses, b) =
        {p \in rows.on : group \in {All, Folder[p]} /\ ("gap" = All \/ View!UsageGap(p, rows, uses))}
  <2>1. \A p \in rows.on : View!DisplayState(p, rows, b) # "gap"
    BY DEF ViewInv, Graphs, View!DisplayState
  <2> QED
    BY <2>1 DEF View!Matching, View!Matches
<1>6. View!Matching("gap", group, rows, uses, busy) = View!Matching("gap", group, rows, uses, busy')
  BY <1>5
<1> HIDE DEF l, old, cells
<1>7. list' = Drawn(list'.shown, sort', rows', uses', busy')
  BY <1>1, <1>3, <1>4
<1>8. chip' = "gap" => list'.shown = View!Matching(chip', group', rows', uses', busy')
  BY <1>1, <1>4, <1>6 DEF ViewInv, old
<1> QED
  BY <1>1, <1>7, <1>8 DEF ViewInv

LEMMA UsageView ==
  ASSUME ViewInv, View!PublishUsage
  PROVE  ViewInv' /\ list'.shown \in {list.shown, View!Matching(chip, group, rows, uses', busy)}
<1> DEFINE old == list.shown
           cells == [p \in old |-> View!Text(p, rows, uses', busy)]
           keys == [p \in old |-> View!Key(p, sort, rows, uses, busy)]
           drawn == [shown |-> old, cells |-> cells, keys |-> keys]
           shown == View!Matching(chip, group, rows, uses', busy)
           told == View!Told(drawn, rows, uses', busy)
<1>1. UNCHANGED <<disk, rows, busy, chip, group, sort, landing>>
  BY DEF View!PublishUsage, View!choice
<1>2. CASE uses' = uses
  <2>1. list' = list
    BY <1>2 DEF View!PublishUsage
  <2> QED
    BY <1>1, <1>2, <2>1 DEF ViewInv
<1>3. CASE uses' # uses
  <2>1. [list EXCEPT !.cells = [p \in list.shown |->
           [@[p] EXCEPT ![2] = uses'[p], ![3] = View!UsageGap(p, rows, uses')]]] = drawn
    <3> DEFINE c == [p \in old |-> View!Text(p, rows, uses, busy)]
    <3>1. list = [shown |-> old, cells |-> c, keys |-> keys]
      BY DEF ViewInv, Drawn
    <3>2. ASSUME NEW p \in old
          PROVE  [c[p] EXCEPT ![2] = uses'[p], ![3] = View!UsageGap(p, rows, uses')] = cells[p]
      BY DEF View!Text
    <3> HIDE DEF c, old, keys
    <3> QED
      BY <3>1, <3>2
  <2>2. list' = IF sort = "usage" THEN View!Sorted(told, sort, rows, uses', busy) ELSE told
    BY <1>3, <2>1 DEF View!PublishUsage
  <2>3. told = IF chip = "gap" THEN View!Filtered(drawn, shown, sort, rows, uses', busy) ELSE drawn
    BY DEF View!Told
  <2>4. list' = Drawn(IF chip = "gap" THEN shown ELSE old, sort, rows, uses', busy)
    <3>1. CASE sort = "usage"
      BY <2>2, <2>3, <3>1, CellsMove
    <3>2. CASE sort # "usage"
      <4>1. \A p : View!Key(p, sort, rows, uses, busy) = View!Key(p, sort, rows, uses', busy)
        BY <3>2 DEF View!Key
      <4>2. drawn = Drawn(old, sort, rows, uses', busy)
        BY <4>1 DEF Drawn
      <4>3. drawn = Drawn(drawn.shown, sort, rows, uses', busy)
        BY <4>2
      <4> HIDE DEF drawn, shown, told
      <4> QED
        BY <2>2, <2>3, <3>2, <4>2, <4>3, ListMoves
    <3> QED
      BY <3>1, <3>2
  <2> HIDE DEF drawn, shown, told, old
  <2>5. list'.shown = IF chip = "gap" THEN shown ELSE old
    BY <2>4, DrawnFields
  <2>6. list' = Drawn(list'.shown, sort', rows', uses', busy')
    BY <1>1, <2>4, <2>5
  <2>7. chip' = "gap" => list'.shown = View!Matching(chip', group', rows', uses', busy')
    BY <1>1, <2>5 DEF shown
  <2> QED
    BY <1>1, <2>5, <2>6, <2>7 DEF ViewInv, old, shown
<1> QED
  BY <1>2, <1>3

LEMMA ChoiceView ==
  ASSUME ViewInv, View!SetFilter \/ View!SetGroup \/ View!SortBy \/ View!Tick \/ View!SelectRow
  PROVE  ViewInv'
<1> USE DEF View!choice, View!cursor, View!async
<1>1. ASSUME NEW c, NEW w, View!Filters(c, w) PROVE ViewInv'
  <2> DEFINE shown == View!Matching(c, w, rows, uses, busy)
  <2>1. /\ chip' = c /\ group' = w /\ UNCHANGED <<disk, rows, uses, busy, sort, landing>>
        /\ list' = View!Filtered(list, shown, sort, rows, uses, busy)
    BY <1>1 DEF View!Filters
  <2> HIDE DEF shown
  <2>2. list' = Drawn(shown, sort, rows, uses, busy)
    BY <2>1, ListMoves DEF ViewInv
  <2>3. list'.shown = shown
    BY <2>2, DrawnFields
  <2>4. list' = Drawn(list'.shown, sort', rows', uses', busy')
    BY <2>1, <2>2, <2>3
  <2>5. list'.shown = View!Matching(chip', group', rows', uses', busy')
    BY <2>1, <2>3 DEF shown
  <2> QED
    BY <2>1, <2>4, <2>5 DEF ViewInv
<1>2. CASE View!SetFilter \/ View!SetGroup
  BY <1>1, <1>2 DEF View!SetFilter, View!SetGroup
<1>3. CASE View!SortBy
  <2> DEFINE old == list.shown
             cells == [p \in old |-> View!Text(p, rows, uses, busy)]
             keys == [p \in old |-> View!Key(p, sort, rows, uses, busy)]
  <2>1. /\ UNCHANGED <<disk, rows, uses, busy, chip, group, landing>>
        /\ list' = View!Sorted(list, sort', rows, uses, busy)
    BY <1>3 DEF View!SortBy
  <2>2. list = [shown |-> old, cells |-> cells, keys |-> keys]
    BY DEF ViewInv, Drawn
  <2>3. list' = Drawn(old, sort', rows, uses, busy)
    <3> HIDE DEF keys, old
    <3> QED
      BY <2>1, <2>2, CellsMove
  <2> HIDE DEF old, cells, keys
  <2>4. list'.shown = old
    BY <2>3, DrawnFields
  <2>5. list' = Drawn(list'.shown, sort', rows', uses', busy')
    BY <2>1, <2>3, <2>4
  <2>6. chip' = "gap" => list'.shown = View!Matching(chip', group', rows', uses', busy')
    BY <2>1, <2>4 DEF ViewInv, old
  <2> QED
    BY <2>1, <2>5, <2>6 DEF ViewInv
<1>4. CASE View!Tick \/ View!SelectRow
  <2>1. UNCHANGED <<disk, rows, uses, busy, chip, group, sort, list, landing>>
    BY <1>4, ListMoves DEF View!Tick, View!SelectRow, ViewInv
  <2> QED
    BY <2>1 DEF ViewInv
<1> QED
  BY <1>2, <1>3, <1>4

LEMMA WorldView ==
  ASSUME ViewInv, View!World
  PROVE  ViewInv'
<1> DEFINE on == disk.on
           graph0 == disk.graph
           used == disk.uses
<1>1. UNCHANGED <<rows, uses, busy, chip, group, sort, list, landing>>
  BY DEF View!World, View!window, View!choice, View!async
<1>2. /\ disk = [on |-> on, graph |-> graph0, uses |-> used]
      /\ graph0 \in Graphs /\ on \subseteq Paths
  BY DEF ViewInv
<1>3. PICK p \in Paths :
         \/ disk' = [disk EXCEPT !.on = IF p \in @ THEN @ \ {p} ELSE @ \cup {p}]
         \/ disk' = [disk EXCEPT !.graph[p] = IF @ = "none" THEN "fresh" ELSE "none"]
         \/ disk' = [disk EXCEPT !.uses[p] = @ + 1]
  BY DEF View!World
<1> HIDE DEF on, graph0, used
<1>4. \/ \E x \in SUBSET Paths : disk' = [on |-> x, graph |-> graph0, uses |-> used]
      \/ \E x \in Graphs : disk' = [on |-> on, graph |-> x, uses |-> used]
      \/ \E x : disk' = [on |-> on, graph |-> graph0, uses |-> x]
  <2>1. CASE disk' = [disk EXCEPT !.on = IF p \in @ THEN @ \ {p} ELSE @ \cup {p}]
    <3> DEFINE x == IF p \in on THEN on \ {p} ELSE on \cup {p}
    <3>1. disk' = [disk EXCEPT !.on = x] /\ x \in SUBSET Paths
      BY <1>2, <2>1
    <3> HIDE DEF x
    <3> QED
      BY <1>2, <3>1
  <2>2. CASE disk' = [disk EXCEPT !.graph[p] = IF @ = "none" THEN "fresh" ELSE "none"]
    <3> DEFINE x == [graph0 EXCEPT ![p] = IF @ = "none" THEN "fresh" ELSE "none"]
    <3>1. disk' = [disk EXCEPT !.graph = x]
      BY <1>2, <2>2
    <3>2. x \in Graphs
      BY <1>2 DEF Graphs
    <3> HIDE DEF x
    <3> QED
      BY <1>2, <3>1, <3>2
  <2>3. CASE disk' = [disk EXCEPT !.uses[p] = @ + 1]
    <3> DEFINE x == [used EXCEPT ![p] = @ + 1]
    <3>1. disk' = [disk EXCEPT !.uses = x]
      BY <1>2, <2>3
    <3> HIDE DEF x
    <3> QED
      BY <1>2, <3>1
  <2> QED
    BY <1>3, <2>1, <2>2, <2>3
<1> QED
  BY <1>1, <1>2, <1>4 DEF ViewInv

LEMMA StepView ==
  ASSUME ViewInv, View!ViewNext \/ UNCHANGED viewVars
  PROVE  ViewInv'
<1> USE DEF View!window, View!choice, View!cursor, View!async
<1>1. CASE View!ScanStarts
  <2>1. UNCHANGED <<disk, rows, uses, busy, chip, group, sort, list>>
        /\ landing' = [on |-> disk.on, graph |-> disk.graph, running |-> TRUE]
    BY <1>1 DEF View!ScanStarts
  <2>2. landing'.on = disk.on /\ landing'.graph = disk.graph
    BY <2>1
  <2> QED
    BY <2>1, <2>2 DEF ViewInv
<1>2. CASE View!RefreshUsage \/ UNCHANGED viewVars
  BY <1>2 DEF View!RefreshUsage, viewVars, ViewInv
<1> QED
  BY <1>1, <1>2, ScanView, JobView, UsageView, ChoiceView, WorldView DEF View!ViewNext

LEMMA InitView == SettlingInit /\ part = "view" => ViewInv
<1> SUFFICES ASSUME View!ViewInit PROVE ViewInv
  BY DEF SettlingInit
<1>1. /\ disk = [on |-> disk.on, graph |-> disk.graph, uses |-> disk.uses]
      /\ disk.graph \in Graphs /\ disk.on = Paths
      /\ rows = [on |-> {}, graph |-> disk.graph] /\ ~landing.running /\ list = View!Empty
  BY DEF View!ViewInit, View!NotRunning, Graphs
<1>2. rows.on = {} /\ rows.graph = disk.graph /\ list.shown = {}
  BY <1>1 DEF View!Empty
<1>3. list = Drawn({}, sort, rows, uses, busy)
  BY <1>1 DEF View!Empty, Drawn
<1>4. View!Matching(chip, group, rows, uses, busy) = {}
  BY <1>2 DEF View!Matching
<1> QED
  BY <1>1, <1>2, <1>3, <1>4 DEF ViewInv

\* The cursor is on a row that is shown, whose folder the filter lets through; the folder
\* that is filtered on is one of a row's.
CursorInv ==
  /\ current # View!None => current \in list.shown
  /\ list.shown \subseteq rows.on
  /\ \A p \in list.shown : group \in {All, Folder[p]}
  /\ group = All \/ \E p \in rows.on : Folder[p] = group

LEMMA MatchingRows ==
  ASSUME NEW c, NEW w, NEW r, NEW u, NEW b
  PROVE  /\ View!Matching(c, w, r, u, b) \subseteq r.on
         /\ \A p \in View!Matching(c, w, r, u, b) : w \in {All, Folder[p]}
  BY DEF View!Matching, View!Matches

LEMMA ScanCursor ==
  ASSUME CursorInv, View!SetRows
  PROVE  CursorInv' /\ View!CursorKept
<1> DEFINE r == [on |-> landing.on, graph |-> landing.graph]
           shown == View!Matching(chip, group, r, uses, busy)
           first == IF r.on = rows.on THEN View!Same(list, r) ELSE View!Spliced(r)
           wide == View!Matching(chip, group', r, uses, busy)
<1>1. /\ rows' = r /\ group' = View!GroupKept(r)
      /\ list' = IF group' = group THEN first ELSE View!Filtered(first, wide, sort, r, uses, busy)
      /\ IF r.on = rows.on THEN View!Follows(first) ELSE current' = View!Restored(first)
  BY DEF View!SetRows
<1>2. first.shown = shown
  <2>1. first = Drawn(shown, sort, r, uses, busy)
    BY ListMoves DEF View!Same, View!Spliced, View!FilterTold, View!CellsTold
  <2> HIDE DEF first, shown, r
  <2> QED
    BY <2>1, DrawnFields
<1>3. list'.shown = IF group' = group THEN shown ELSE wide
  <2>1. \A x : View!Filtered(first, x, sort, r, uses, busy).shown = x
    BY DEF View!Filtered
  <2> HIDE DEF first, shown, wide, r
  <2> QED
    BY <1>1, <1>2, <2>1
<1>4. /\ shown \subseteq r.on /\ \A p \in shown : group \in {All, Folder[p]}
      /\ wide \subseteq r.on /\ \A p \in wide : group' \in {All, Folder[p]}
  BY MatchingRows
<1>5. IF \E p \in r.on : Folder[p] = group THEN group' = group ELSE group' = All
  BY <1>1 DEF View!GroupKept
<1>6. current' # View!None => current' \in shown /\ current' \in {current, chosen}
  BY <1>1, <1>2 DEF View!Follows, View!Restored
<1> HIDE DEF first, shown, wide, r
<1>7. group' # group => shown = {}
  BY <1>4, <1>5
<1>8. CursorInv'
  BY <1>1, <1>3, <1>4, <1>5, <1>6, <1>7 DEF CursorInv
<1>9. ASSUME current # View!None, current = chosen, current \in list'.shown
      PROVE  current' = current
  <2>1. current \in r.on
    BY <1>3, <1>4, <1>9
  <2>2. group' = group
    BY <1>5, <1>9, <2>1 DEF CursorInv
  <2> QED
    BY <1>1, <1>2, <1>3, <1>9, <2>2 DEF View!Follows, View!Restored
<1> QED
  BY <1>8, <1>9 DEF View!CursorKept

LEMMA StepCursor ==
  ASSUME ViewInv, CursorInv, View!ViewNext \/ UNCHANGED viewVars
  PROVE  CursorInv' /\ View!CursorKept
<1> USE DEF View!window, View!choice, View!cursor, View!async
<1>1. ASSUME UNCHANGED <<rows, group, current>>, list'.shown = list.shown PROVE CursorInv'
  BY <1>1 DEF CursorInv
<1>2. ASSUME View!World \/ View!ScanStarts \/ View!RefreshUsage \/ UNCHANGED viewVars
      PROVE  CursorInv'
  BY <1>1, <1>2 DEF View!World, View!ScanStarts, View!RefreshUsage, viewVars
<1>3. \A s, r, u, b : /\ View!Repainted(list, r, u, b).shown = list.shown
                      /\ View!Sorted(list, s, r, u, b).shown = list.shown
                      /\ View!Sorted(View!Repainted(list, r, u, b), s, r, u, b).shown = list.shown
  <2>1. list = [shown |-> list.shown, cells |-> list.cells, keys |-> list.keys]
    BY DEF ViewInv, Drawn
  <2> QED
    BY <2>1 DEF View!Repainted, View!Sorted
<1>4. ASSUME View!OnJobEvent \/ View!SortBy \/ View!Tick PROVE CursorInv'
  BY <1>1, <1>3, <1>4 DEF View!OnJobEvent, View!SortBy, View!Tick
<1>5. ASSUME View!SelectRow PROVE CursorInv'
  BY <1>5 DEF View!SelectRow, CursorInv
<1>6. ASSUME NEW c, NEW w, View!Filters(c, w), w = All \/ \E p \in rows.on : Folder[p] = w
      PROVE  CursorInv'
  <2> DEFINE shown == View!Matching(c, w, rows, uses, busy)
  <2>1. list'.shown = shown
    BY <1>6 DEF View!Filters, View!Filtered
  <2>2. shown \subseteq rows.on /\ \A p \in shown : w \in {All, Folder[p]}
    BY MatchingRows
  <2> HIDE DEF shown
  <2> QED
    BY <1>6, <2>1, <2>2 DEF View!Filters, View!Follows, CursorInv
<1>7. ASSUME View!SetFilter \/ View!SetGroup PROVE CursorInv'
  BY <1>6, <1>7 DEF View!SetFilter, View!SetGroup, CursorInv
<1>8. ASSUME View!PublishUsage PROVE CursorInv'
  <2> DEFINE shown == View!Matching(chip, group, rows, uses', busy)
  <2>1. UNCHANGED <<rows, group>> /\ View!Follows(list')
    BY <1>8 DEF View!PublishUsage
  <2>2. list'.shown \in {list.shown, shown}
    BY <1>8, UsageView
  <2>3. shown \subseteq rows.on /\ \A p \in shown : group \in {All, Folder[p]}
    BY MatchingRows
  <2> HIDE DEF shown
  <2> QED
    BY <2>1, <2>2, <2>3 DEF View!Follows, CursorInv
<1>9. ~View!SetRows => View!CursorKept
  BY DEF View!CursorKept
<1> QED
  BY <1>2, <1>4, <1>5, <1>7, <1>8, <1>9, ScanCursor DEF View!ViewNext

-----------------------------------------------------------------------------
\* In the invariants of the parts, what the window promises.
WindowInv ==
  /\ part = "view" => ViewInv
  /\ part = "panes" => PaneInv /\ EventInv
  /\ part = "graph" => ScanInv
  /\ part = "readiness" => ProbeInv

\* However scans, jobs, usage counts and choices follow each other: the cells and the
\* order of the list are those of what the window knows, an answer stands beside its
\* question, a Jobs page that waits for no event shows its repository's newest job, and
\* no cache answers with what it was told to forget.
THEOREM WindowCorrect == SettlingSpec => []WindowTells
<1>1. SettlingInit => WindowInv
  BY InitView, InitPane, InitEvents, InitScan, InitProbe DEF WindowInv
<1>2. WindowInv /\ [SettlingNext]_settlingVars => WindowInv'
  <2> SUFFICES ASSUME WindowInv, [SettlingNext]_settlingVars PROVE WindowInv'
    OBVIOUS
  <2> QED
    BY PartSteps, StepView, StepPane, StepEvents, StepScan, StepProbe DEF WindowInv
<1>3. ViewInv => View!BoardTells
  <2> SUFFICES ASSUME ViewInv PROVE View!BoardTells
    OBVIOUS
  <2> QED
    BY DrawnFields DEF ViewInv, View!BoardTells, View!CellsTell, View!OrderTells, View!GapTells
<1>4. ScanInv => Graph!CacheNeverSuperseded
  <2> SUFFICES ASSUME ScanInv, entry # Graph!NoEntry PROVE entry.born = drops
    BY DEF Graph!CacheNeverSuperseded
  <2> QED
    BY DEF ScanInv
<1>5. WindowInv => WindowTells
  BY <1>3, <1>4, EventsTell DEF WindowInv, WindowTells, PaneInv, Pane!AnswersPaired, ProbeInv, Probe!NothingOlder
<1> QED
  BY <1>1, <1>2, <1>5, PTL DEF SettlingSpec

\* A scan that found a repository more or less leaves the cursor on the row it was on.
THEOREM CursorCorrect == SettlingSpec => [][part = "view" => View!CursorKept]_settlingVars
<1> DEFINE Inv == part = "view" => ViewInv /\ CursorInv
<1>1. SettlingInit => Inv
  <2>1. SettlingInit /\ part = "view" => CursorInv
    BY DEF SettlingInit, View!ViewInit, View!Empty, CursorInv
  <2> QED
    BY <2>1, InitView
<1>2. Inv /\ [SettlingNext]_settlingVars => Inv' /\ [part = "view" => View!CursorKept]_settlingVars
  <2> SUFFICES ASSUME Inv, [SettlingNext]_settlingVars
               PROVE  Inv' /\ (part = "view" => View!CursorKept)
    OBVIOUS
  <2> QED
    BY PartSteps, StepView, StepCursor
<1> QED
  BY <1>1, <1>2, PTL DEF SettlingSpec
-----------------------------------------------------------------------------
(***************************************************************************)
(* The walk of the scan roots.                                             *)
(***************************************************************************)
\* A set of naturals that has one has a first.
LEMMA FirstOf ==
  ASSUME NEW S, S \subseteq Nat, S # {}
  PROVE  \E i \in S : \A j \in S : i <= j
<1>1. PICK m \in S : \A x \in S : ~(<<x, m>> \in OpToRel(<, Nat))
  BY WFMin, NatLessThanWellFounded, Zenon
<1>2. ASSUME NEW j \in S PROVE m <= j
  <2>1. ~(j < m)
    BY <1>1, <1>2 DEF OpToRel
  <2> QED
    BY <2>1
<1> QED
  BY <1>2

\* A set of naturals with 0 and every successor has them all.
LEMMA Successors ==
  ASSUME NEW S, 0 \in S, \A n \in Nat : n \in S => n + 1 \in S
  PROVE  Nat \subseteq S
<1> DEFINE T == {n \in Nat : n \notin S}
<1> SUFFICES ASSUME T # {} PROVE FALSE
  OBVIOUS
<1>1. PICK m \in T : \A n \in T : m <= n
  <2>1. T \subseteq Nat
    OBVIOUS
  <2> HIDE DEF T
  <2> QED
    BY <2>1, FirstOf
<1>2. m # 0 /\ m - 1 \in Nat /\ ~(m <= m - 1) /\ (m - 1) + 1 = m
  OBVIOUS
<1>3. m - 1 \in S
  BY <1>1, <1>2
<1> QED
  BY <1>2, <1>3

\* What a sequence holds after one more, without its first, and with another.
LEMMA SetOfAppend ==
  ASSUME NEW A, NEW s \in Seq(A), NEW x \in A
  PROVE  Append(s, x) \in Seq(A) /\ Walk!ToSet(Append(s, x)) = Walk!ToSet(s) \cup {x}
<1>1. /\ Len(s) \in Nat /\ DOMAIN s = 1 .. Len(s) /\ DOMAIN Append(s, x) = 1 .. Len(s) + 1
      /\ Append(s, x)[Len(s) + 1] = x
  OBVIOUS
<1>2. \A i \in 1 .. Len(s) : Append(s, x)[i] = s[i]
  OBVIOUS
<1>3. Walk!ToSet(Append(s, x)) \subseteq Walk!ToSet(s) \cup {x}
  <2> SUFFICES ASSUME NEW i \in 1 .. Len(s) + 1
               PROVE  Append(s, x)[i] \in Walk!ToSet(s) \cup {x}
    BY <1>1 DEF Walk!ToSet
  <2>1. i \in 1 .. Len(s) \/ i = Len(s) + 1
    BY <1>1
  <2> QED
    BY <1>1, <1>2, <2>1 DEF Walk!ToSet
<1>4. Walk!ToSet(s) \subseteq Walk!ToSet(Append(s, x))
  <2> SUFFICES ASSUME NEW i \in 1 .. Len(s) PROVE s[i] \in Walk!ToSet(Append(s, x))
    BY <1>1 DEF Walk!ToSet
  <2>1. i \in 1 .. Len(s) + 1
    BY <1>1
  <2> QED
    BY <1>1, <1>2, <2>1 DEF Walk!ToSet
<1>5. x \in Walk!ToSet(Append(s, x))
  <2>1. Len(s) + 1 \in 1 .. Len(s) + 1
    BY <1>1
  <2> QED
    BY <1>1, <2>1 DEF Walk!ToSet
<1> QED
  BY <1>3, <1>4, <1>5

LEMMA SetOfTail ==
  ASSUME NEW A, NEW s \in Seq(A), s # <<>>
  PROVE  /\ Head(s) \in A /\ Tail(s) \in Seq(A)
         /\ Walk!ToSet(s) = {Head(s)} \cup Walk!ToSet(Tail(s))
<1>1. Head(s) = s[1] /\ Len(s) \in Nat \ {0} /\ Tail(s) \in Seq(A) /\ Len(Tail(s)) = Len(s) - 1
  OBVIOUS
<1>2. \A i \in 1 .. Len(s) - 1 : Tail(s)[i] = s[i + 1]
  OBVIOUS
<1>3. \A i \in 1 .. Len(s) : i = 1 \/ (i - 1 \in 1 .. Len(s) - 1 /\ s[i] = Tail(s)[i - 1])
  BY <1>1, <1>2
<1>4. DOMAIN s = 1 .. Len(s) /\ DOMAIN Tail(s) = 1 .. Len(s) - 1
  BY <1>1
<1>5. Walk!ToSet(s) \subseteq {Head(s)} \cup Walk!ToSet(Tail(s))
  <2> SUFFICES ASSUME NEW i \in 1 .. Len(s), i # 1 PROVE s[i] \in Walk!ToSet(Tail(s))
    BY <1>1, <1>4 DEF Walk!ToSet
  <2> QED
    BY <1>3, <1>4 DEF Walk!ToSet
<1>6. Walk!ToSet(Tail(s)) \subseteq Walk!ToSet(s)
  <2> SUFFICES ASSUME NEW i \in 1 .. Len(s) - 1 PROVE Tail(s)[i] \in Walk!ToSet(s)
    BY <1>4 DEF Walk!ToSet
  <2>1. i + 1 \in 1 .. Len(s)
    BY <1>1
  <2> QED
    BY <1>2, <1>4, <2>1 DEF Walk!ToSet
<1>7. Head(s) \in Walk!ToSet(s)
  <2>1. 1 \in 1 .. Len(s)
    BY <1>1
  <2> QED
    BY <1>1, <1>4, <2>1 DEF Walk!ToSet
<1>8. Head(s) \in A
  BY <1>1
<1> QED
  BY <1>1, <1>5, <1>6, <1>7, <1>8

LEMMA SetOfJoin ==
  ASSUME NEW A, NEW s \in Seq(A), NEW t \in Seq(A)
  PROVE  s \o t \in Seq(A) /\ Walk!ToSet(s \o t) = Walk!ToSet(s) \cup Walk!ToSet(t)
<1>1. /\ Len(s) \in Nat /\ Len(t) \in Nat /\ Len(s \o t) = Len(s) + Len(t)
      /\ DOMAIN s = 1 .. Len(s) /\ DOMAIN t = 1 .. Len(t) /\ DOMAIN (s \o t) = 1 .. Len(s) + Len(t)
  OBVIOUS
<1>2. \A i \in 1 .. Len(s) : (s \o t)[i] = s[i]
  OBVIOUS
<1>3. \A i \in 1 .. Len(t) : (s \o t)[Len(s) + i] = t[i]
  OBVIOUS
<1>4. \A i \in 1 .. Len(s) + Len(t) : i \in 1 .. Len(s) \/ (i - Len(s) \in 1 .. Len(t) /\ i = Len(s) + (i - Len(s)))
  BY <1>1
<1>5. Walk!ToSet(s \o t) \subseteq Walk!ToSet(s) \cup Walk!ToSet(t)
  <2> SUFFICES ASSUME NEW i \in 1 .. Len(s) + Len(t)
               PROVE  (s \o t)[i] \in Walk!ToSet(s) \cup Walk!ToSet(t)
    BY <1>1 DEF Walk!ToSet
  <2> QED
    BY <1>1, <1>2, <1>3, <1>4 DEF Walk!ToSet
<1>6. Walk!ToSet(s) \subseteq Walk!ToSet(s \o t)
  <2> SUFFICES ASSUME NEW i \in 1 .. Len(s) PROVE s[i] \in Walk!ToSet(s \o t)
    BY <1>1 DEF Walk!ToSet
  <2>1. i \in 1 .. Len(s) + Len(t)
    BY <1>1
  <2> QED
    BY <1>1, <1>2, <2>1 DEF Walk!ToSet
<1>7. Walk!ToSet(t) \subseteq Walk!ToSet(s \o t)
  <2> SUFFICES ASSUME NEW i \in 1 .. Len(t) PROVE t[i] \in Walk!ToSet(s \o t)
    BY <1>1 DEF Walk!ToSet
  <2>1. Len(s) + i \in 1 .. Len(s) + Len(t)
    BY <1>1
  <2> QED
    BY <1>1, <1>3, <2>1 DEF Walk!ToSet
<1> QED
  BY <1>5, <1>6, <1>7

\* One that a sequence has not, put behind it.
LEMMA OnceMore ==
  ASSUME NEW A, NEW s \in Seq(A), NEW x \in A, x \notin Walk!ToSet(s), Walk!IsInjective(s)
  PROVE  Walk!IsInjective(Append(s, x))
<1> SUFFICES ASSUME NEW i \in 1 .. Len(s) + 1, NEW j \in 1 .. Len(s) + 1,
                    Append(s, x)[i] = Append(s, x)[j]
             PROVE  i = j
  BY DEF Walk!IsInjective
<1>1. \A m \in 1 .. Len(s) + 1 :
        \/ m \in 1 .. Len(s) /\ Append(s, x)[m] = s[m] /\ s[m] # x
        \/ m = Len(s) + 1 /\ Append(s, x)[m] = x
  BY DEF Walk!ToSet
<1> QED
  BY <1>1 DEF Walk!IsInjective

\* The entries of d that a walk enters.
Entered(d) == {e \in Walk!DirSet : e \in dirTree.entries[d] /\ Walk!Shown(e)}

\* What the loop over the names goes through.
LEMMA BelowSteps ==
  ASSUME NEW d
  PROVE  \E some :
           /\ some[0] = <<>>
           /\ \A i \in 1 .. Len(Dirs) :
                some[i] = IF Dirs[i] \in dirTree.entries[d] /\ Walk!Shown(Dirs[i])
                          THEN Append(some[i - 1], Dirs[i]) ELSE some[i - 1]
           /\ Walk!Below(d) = some[Len(Dirs)]
<1> DEFINE Next1(s, i) == IF Dirs[i] \in dirTree.entries[d] /\ Walk!Shown(Dirs[i])
                          THEN Append(s, Dirs[i]) ELSE s
           G(h, n) == h = [i \in 0 .. n |-> IF i = 0 THEN <<>>
                             ELSE IF Dirs[i] \in dirTree.entries[d] /\ Walk!Shown(Dirs[i])
                             THEN Append(h[i - 1], Dirs[i]) ELSE h[i - 1]]
           S == {n \in Nat : \E h : G(h, n)}
<1>0. Len(Dirs) \in Nat
  BY WalkAssumed DEF Walk!DiscoveryAssumptions
<1>1. 0 \in S
  <2> DEFINE h == [i \in 0 .. 0 |-> <<>>]
  <2>1. G(h, 0)
    OBVIOUS
  <2> QED
    BY <2>1
<1>2. ASSUME NEW n \in Nat, n \in S PROVE n + 1 \in S
  <2>1. PICK h : G(h, n)
    BY <1>2
  <2> DEFINE h2 == [i \in 0 .. (n + 1) |-> IF i = n + 1 THEN Next1(h[n], n + 1) ELSE h[i]]
  <2>2. ASSUME NEW i \in 0 .. (n + 1)
        PROVE  h2[i] = IF i = 0 THEN <<>> ELSE Next1(h2[i - 1], i)
    <3> HIDE DEF Next1
    <3>1. CASE i = n + 1
      <4>1. n \in 0 .. (n + 1) /\ n # n + 1 /\ i # 0 /\ i - 1 = n
        BY <3>1
      <4> QED
        BY <3>1, <4>1
    <3>2. CASE i = 0
      <4>1. i # n + 1 /\ i \in 0 .. n
        BY <3>2
      <4>2. h[i] = <<>>
        BY <2>1, <3>2, <4>1
      <4> QED
        BY <3>2, <4>1, <4>2
    <3>3. CASE i # n + 1 /\ i # 0
      <4>1. i \in 0 .. n /\ i - 1 \in 0 .. (n + 1) /\ i - 1 # n + 1
        BY <3>3
      <4>2. h[i] = Next1(h[i - 1], i)
        BY <2>1, <3>3, <4>1 DEF Next1
      <4> QED
        BY <3>3, <4>1, <4>2
    <3> QED
      BY <3>1, <3>2, <3>3
  <2>3. h2 = [i \in 0 .. (n + 1) |-> h2[i]]
    OBVIOUS
  <2> HIDE DEF h2
  <2>4. G(h2, n + 1)
    BY <2>2, <2>3
  <2> QED
    BY <2>4
<1>3. PICK h : G(h, Len(Dirs))
  <2>1. Nat \subseteq S
    <3> HIDE DEF S
    <3> QED
      BY <1>1, <1>2, Successors
  <2> QED
    BY <1>0, <2>1
<1> DEFINE some == CHOOSE some : G(some, Len(Dirs))
<1>4. G(some, Len(Dirs))
  BY <1>3
<1>5. Walk!Below(d) = some[Len(Dirs)]
  BY DEF Walk!Below
<1> HIDE DEF some
<1>6. some[0] = <<>>
  BY <1>0, <1>4
<1>7. ASSUME NEW i \in 1 .. Len(Dirs) PROVE some[i] = Next1(some[i - 1], i)
  <2>1. i \in 0 .. Len(Dirs) /\ i # 0
    BY <1>0
  <2> QED
    BY <1>4, <2>1
<1> QED
  BY <1>5, <1>6, <1>7

\* They are the entries, hidden ones as the option says.
LEMMA BelowIs ==
  ASSUME NEW d
  PROVE  Walk!Below(d) \in Seq(Walk!DirSet) /\ Walk!ToSet(Walk!Below(d)) = Entered(d)
<1> DEFINE In(e) == e \in dirTree.entries[d] /\ Walk!Shown(e)
<1>0. /\ Len(Dirs) \in Nat /\ \A i \in 1 .. Len(Dirs) : Dirs[i] \in Walk!DirSet
      /\ \A e \in Walk!DirSet : \E i \in 1 .. Len(Dirs) : e = Dirs[i]
  BY WalkAssumed DEF Walk!DiscoveryAssumptions, Walk!DirSet, Walk!ToSet
<1>1. PICK some :
        /\ some[0] = <<>>
        /\ \A i \in 1 .. Len(Dirs) :
             some[i] = IF In(Dirs[i]) THEN Append(some[i - 1], Dirs[i]) ELSE some[i - 1]
        /\ Walk!Below(d) = some[Len(Dirs)]
  BY BelowSteps
<1> HIDE DEF In
<1> DEFINE Good(n) == /\ some[n] \in Seq(Walk!DirSet)
                      /\ Walk!ToSet(some[n]) = {e \in Walk!DirSet : In(e) /\ \E i \in 1 .. n : e = Dirs[i]}
           S == {n \in Nat : n <= Len(Dirs) => Good(n)}
<1>2. 0 \in S
  <2>1. Good(0)
    BY <1>1 DEF Walk!ToSet
  <2> QED
    BY <2>1
<1>3. ASSUME NEW n \in Nat, n \in S PROVE n + 1 \in S
  <2> SUFFICES ASSUME n + 1 <= Len(Dirs) PROVE Good(n + 1)
    OBVIOUS
  <2>1. Good(n) /\ n + 1 \in 1 .. Len(Dirs) /\ (n + 1) - 1 = n
    BY <1>0, <1>3
  <2> DEFINE e1 == Dirs[n + 1]
  <2>2. e1 \in Walk!DirSet
    BY <1>0, <2>1
  <2>3. some[n + 1] = IF In(e1) THEN Append(some[n], e1) ELSE some[n]
    BY <1>1, <2>1
  <2>4. \A e : (\E i \in 1 .. (n + 1) : e = Dirs[i]) <=> (e = e1 \/ \E i \in 1 .. n : e = Dirs[i])
    OBVIOUS
  <2> HIDE DEF e1
  <2>5. CASE In(e1)
    <3>1. Walk!ToSet(Append(some[n], e1)) = Walk!ToSet(some[n]) \cup {e1}
      BY <2>1, <2>2, SetOfAppend
    <3>2. some[n + 1] = Append(some[n], e1) /\ Append(some[n], e1) \in Seq(Walk!DirSet)
      BY <2>1, <2>2, <2>3, <2>5
    <3>3. {e \in Walk!DirSet : In(e) /\ \E i \in 1 .. (n + 1) : e = Dirs[i]}
            = {e \in Walk!DirSet : In(e) /\ \E i \in 1 .. n : e = Dirs[i]} \cup {e1}
      BY <2>2, <2>4, <2>5
    <3> QED
      BY <2>1, <3>1, <3>2, <3>3
  <2>6. CASE ~In(e1)
    BY <2>1, <2>3, <2>4, <2>6
  <2> QED
    BY <2>5, <2>6
<1>4. Good(Len(Dirs))
  <2>1. Nat \subseteq S
    <3> HIDE DEF S
    <3> QED
      BY <1>2, <1>3, Successors
  <2> QED
    BY <1>0, <2>1
<1> QED
  BY <1>0, <1>1, <1>4 DEF Entered, In

\* R holds at each depth what there is at it.
IsReach(R) ==
  \A e \in Walk!DirSet :
    /\ e \in R[0] <=> e \in Walk!ToSet(dirTree.roots)
    /\ \A k \in Nat : k < opts.depth =>
         (e \in R[k + 1] <=> \E d \in Walk!DirSet : d \in R[k] /\ ~Walk!Leaf(d, k) /\ e \in Entered(d))

\* Nothing that is walked into is at two depths.
OneDepth(R) ==
  \A d \in Walk!DirSet, j, k \in 0 .. opts.depth :
    d \in R[j] /\ d \in R[k] => j = k \/ (Walk!Leaf(d, j) /\ Walk!Leaf(d, k))

\* What the walk has still to read is there, and so is what it has a row for.
WalkSound(R) ==
  /\ \A v \in Walk!ToSet(todo) : v.depth <= opts.depth => v.dir \in R[v.depth]
  /\ \A d \in Walk!ToSet(rowsFound) : \E k \in 0 .. opts.depth : d \in R[k] /\ Walk!Boarded(d, k)

\* The walk has been at d, or comes to it at that depth.
Met(d, k) == d \in visited \/ \E v \in Walk!ToSet(todo) : v.dir = d /\ v.depth = k

\* Where it has been it left nothing out, and it comes to all the rest.
WalkComplete(R) ==
  /\ \A d \in Walk!DirSet : d \in R[0] => Met(d, 0)
  /\ \A d \in Walk!DirSet, k \in 0 .. opts.depth : d \in R[k] /\ d \in visited =>
       /\ Walk!Boarded(d, k) => d \in Walk!ToSet(rowsFound)
       /\ ~Walk!Leaf(d, k) /\ k < opts.depth => \A e \in Entered(d) : Met(e, k + 1)

Stop == [dir : Walk!DirSet, depth : Nat]

WalkTypes ==
  /\ dirTree = [entries |-> dirTree.entries, kind |-> dirTree.kind, hidden |-> dirTree.hidden,
                graphed |-> dirTree.graphed, roots |-> dirTree.roots]
  /\ dirTree.roots \in Seq(Walk!DirSet) /\ opts.depth \in Nat /\ touched \in Nat
  /\ todo \in Seq(Stop) /\ rowsFound \in Seq(Walk!DirSet)

\* Each directory has one row at most, for it has been visited.
WalkOnce == Walk!ToSet(rowsFound) \subseteq visited /\ Walk!IsInjective(rowsFound)

WalkInv ==
  /\ WalkTypes /\ WalkOnce
  /\ still => walking # -1 /\ \A R : IsReach(R) => WalkSound(R) /\ (OneDepth(R) => WalkComplete(R))

LEMMA InitWalk == SettlingInit /\ part = "discovery" => WalkInv
<1> SUFFICES ASSUME Walk!DiscoveryInit PROVE WalkInv
  BY DEF SettlingInit
<1>1. dirTree \in Trees /\ opts \in Options /\ todo = <<>> /\ visited = {} /\ rowsFound = <<>> /\ ~still
      /\ touched = 0
  BY DEF Walk!DiscoveryInit
<1>2. WalkTypes
  BY <1>1, WalkAssumed DEF WalkTypes, Walk!DiscoveryAssumptions
<1>3. WalkOnce
  BY <1>1 DEF WalkOnce, Walk!ToSet, Walk!IsInjective
<1> QED
  BY <1>1, <1>2, <1>3 DEF WalkInv

\* The tree and the options have all that is needed to tell what is where.
LEMMA SameReach ==
  ASSUME UNCHANGED <<dirTree, opts>>
  PROVE  /\ \A R : IsReach(R)' = IsReach(R) /\ OneDepth(R)' = OneDepth(R)
         /\ \A d, k : Walk!Leaf(d, k)' = Walk!Leaf(d, k) /\ Walk!Boarded(d, k)' = Walk!Boarded(d, k)
         /\ \A d : Entered(d)' = Entered(d)
  BY DEF IsReach, OneDepth, Walk!Leaf, Walk!Boarded, Entered, Walk!RepoAt, Walk!GraphOnlyAt, Walk!Shown

\* With the same rows and stops what was said of them holds still.
LEMMA RestWalk ==
  ASSUME WalkInv, UNCHANGED <<dirTree, opts, todo, visited, rowsFound, walking, still, touched>>
  PROVE  WalkInv'
<1>1. WalkTypes' /\ WalkOnce'
  BY DEF WalkInv, WalkTypes, WalkOnce
<1>2. \A R : WalkSound(R)' = WalkSound(R) /\ WalkComplete(R)' = WalkComplete(R)
  BY SameReach DEF WalkSound, WalkComplete, Met
<1>3. \A R : IsReach(R)' = IsReach(R) /\ OneDepth(R)' = OneDepth(R)
  BY SameReach
<1>4. still' = still /\ walking' = walking
  OBVIOUS
<1> HIDE DEF IsReach, OneDepth, WalkSound, WalkComplete
<1> QED
  BY <1>1, <1>2, <1>3, <1>4 DEF WalkInv

LEMMA BeginWalk ==
  ASSUME WalkInv, Walk!WalkStarts
  PROVE  WalkInv'
<1>1. /\ todo' = [i \in DOMAIN dirTree.roots |-> [dir |-> dirTree.roots[i], depth |-> 0]]
      /\ visited' = {} /\ rowsFound' = <<>> /\ walking' = touched
      /\ UNCHANGED <<dirTree, opts, touched>>
  BY DEF Walk!WalkStarts
<1>2. dirTree.roots \in Seq(Walk!DirSet) /\ opts.depth \in Nat
  BY DEF WalkInv, WalkTypes
<1>3. todo' \in Seq(Stop)
  <2>1. \A i \in DOMAIN dirTree.roots : [dir |-> dirTree.roots[i], depth |-> 0] \in Stop
    BY <1>2 DEF Stop
  <2>2. DOMAIN dirTree.roots = 1 .. Len(dirTree.roots) /\ Len(dirTree.roots) \in Nat
    BY <1>2
  <2>3. todo' \in [1 .. Len(dirTree.roots) -> Stop]
    BY <1>1, <2>1, <2>2
  <2> QED
    BY <2>2, <2>3
<1>4. WalkTypes'
  BY <1>1, <1>3 DEF WalkInv, WalkTypes
<1>5. Walk!ToSet(rowsFound') = {} /\ Walk!IsInjective(rowsFound')
  BY <1>1 DEF Walk!ToSet, Walk!IsInjective
<1>6. WalkOnce'
  BY <1>5 DEF WalkOnce
<1>7. Walk!ToSet(todo') = {[dir |-> d, depth |-> 0] : d \in Walk!ToSet(dirTree.roots)}
  BY <1>1 DEF Walk!ToSet
<1>8. Walk!ToSet(dirTree.roots) \subseteq Walk!DirSet
  BY <1>2 DEF Walk!ToSet
<1>9. ASSUME NEW R, IsReach(R)'
      PROVE  WalkSound(R)' /\ WalkComplete(R)'
  <2>1. IsReach(R)
    BY <1>1, <1>9, SameReach
  <2>2. \A e \in Walk!DirSet : e \in R[0] <=> e \in Walk!ToSet(dirTree.roots)
    BY <2>1 DEF IsReach
  <2>3. \A v \in Walk!ToSet(todo') : v.depth = 0 /\ v.dir \in R[0]
    BY <1>7, <1>8, <2>2
  <2>4. WalkSound(R)'
    BY <1>5, <2>3 DEF WalkSound
  <2>5. ASSUME NEW d \in Walk!DirSet, d \in R[0]
        PROVE  \E v \in Walk!ToSet(todo') : v.dir = d /\ v.depth = 0
    <3> DEFINE w == [dir |-> d, depth |-> 0]
    <3>1. w \in Walk!ToSet(todo') /\ w.dir = d /\ w.depth = 0
      BY <1>7, <2>2, <2>5
    <3> QED
      BY <3>1
  <2> QED
    BY <1>1, <2>4, <2>5 DEF WalkComplete, Met
<1>10. walking' # -1
  BY <1>1 DEF WalkInv, WalkTypes
<1> QED
  BY <1>4, <1>6, <1>9, <1>10 DEF WalkInv

\* A stop that is not read: beyond the depth, or seen already.
LEMMA SkipWalk ==
  ASSUME WalkInv, still, todo # <<>>, todo' = Tail(todo),
         Head(todo).depth > opts.depth \/ Head(todo).dir \in visited,
         UNCHANGED <<dirTree, opts, visited, rowsFound>>,
         NEW R, WalkSound(R)
  PROVE  WalkSound(R)' /\ (WalkComplete(R) => WalkComplete(R)')
<1> DEFINE v == Head(todo)
<1>1. /\ v \in Stop /\ opts.depth \in Nat
      /\ Walk!ToSet(todo) = {v} \cup Walk!ToSet(todo')
  BY SetOfTail DEF WalkInv, WalkTypes
<1> HIDE DEF v
<1>2. WalkSound(R)'
  BY <1>1, SameReach DEF WalkSound
<1>3. ASSUME NEW e, NEW k \in 0 .. opts.depth, Met(e, k) PROVE Met(e, k)'
  BY <1>1, <1>3 DEF Met, v, Stop
<1>4. ASSUME WalkComplete(R) PROVE WalkComplete(R)'
  <2>1. \A d \in Walk!DirSet : d \in R[0] => Met(d, 0)'
    BY <1>1, <1>3, <1>4 DEF WalkComplete
  <2>2. ASSUME NEW d \in Walk!DirSet, NEW k \in 0 .. opts.depth, d \in R[k], d \in visited
        PROVE  /\ Walk!Boarded(d, k) => d \in Walk!ToSet(rowsFound)
               /\ ~Walk!Leaf(d, k) /\ k < opts.depth => \A e \in Entered(d) : Met(e, k + 1)'
    <3>1. /\ Walk!Boarded(d, k) => d \in Walk!ToSet(rowsFound)
          /\ ~Walk!Leaf(d, k) /\ k < opts.depth => \A e \in Entered(d) : Met(e, k + 1)
      BY <1>4, <2>2 DEF WalkComplete
    <3>2. k < opts.depth => k + 1 \in 0 .. opts.depth
      BY <1>1
    <3> QED
      BY <1>3, <3>1, <3>2
  <2> QED
    BY <2>1, <2>2, SameReach DEF WalkComplete
<1> QED
  BY <1>2, <1>4

\* A stop that is read: its row and what is below it.
LEMMA VisitWalk ==
  ASSUME WalkInv, still, NEW v \in Stop, v.depth <= opts.depth, v.dir \notin visited,
         Walk!ToSet(todo) = {v} \cup Walk!ToSet(Tail(todo)),
         NEW kids, kids = (IF Walk!Leaf(v.dir, v.depth) THEN {}
                           ELSE {[dir |-> e, depth |-> v.depth + 1] : e \in Entered(v.dir)}),
         Walk!ToSet(todo') = kids \cup Walk!ToSet(Tail(todo)),
         Walk!ToSet(rowsFound') = Walk!ToSet(rowsFound)
           \cup (IF Walk!Boarded(v.dir, v.depth) THEN {v.dir} ELSE {}),
         visited' = visited \cup {v.dir},
         UNCHANGED <<dirTree, opts>>,
         NEW R, IsReach(R), WalkSound(R)
  PROVE  WalkSound(R)' /\ (OneDepth(R) /\ WalkComplete(R) => WalkComplete(R)')
<1>1. /\ v.dir \in Walk!DirSet /\ v.depth \in Nat /\ opts.depth \in Nat
      /\ v.depth \in 0 .. opts.depth /\ v.dir \in R[v.depth]
  BY DEF Stop, WalkInv, WalkTypes, WalkSound
<1>2. \A k \in kids : /\ ~Walk!Leaf(v.dir, v.depth) /\ k.dir \in Entered(v.dir)
                      /\ k.depth = v.depth + 1 /\ k.dir \in Walk!DirSet
  BY DEF Entered
<1>3. ASSUME NEW e \in Entered(v.dir), ~Walk!Leaf(v.dir, v.depth)
      PROVE  \E k \in kids : k.dir = e /\ k.depth = v.depth + 1
  <2> DEFINE w == [dir |-> e, depth |-> v.depth + 1]
  <2>1. w \in kids /\ w.dir = e /\ w.depth = v.depth + 1
    BY <1>3
  <2> QED
    BY <2>1
<1>4. WalkSound(R)'
  <2>1. \A w \in Walk!ToSet(todo') : w.depth <= opts.depth => w.dir \in R[w.depth]
    <3>1. ASSUME NEW k \in kids, k.depth <= opts.depth PROVE k.dir \in R[k.depth]
      <4>1. v.depth < opts.depth
        BY <1>1, <1>2, <3>1
      <4> QED
        BY <1>1, <1>2, <3>1, <4>1 DEF IsReach
    <3> QED
      BY <3>1 DEF WalkSound
  <2>2. \A d \in Walk!ToSet(rowsFound') : \E k \in 0 .. opts.depth : d \in R[k] /\ Walk!Boarded(d, k)
    BY <1>1 DEF WalkSound
  <2> QED
    BY <2>1, <2>2, SameReach DEF WalkSound
<1>5. ASSUME NEW e, NEW k, Met(e, k) PROVE Met(e, k)'
  BY <1>5 DEF Met
<1>6. ASSUME OneDepth(R), WalkComplete(R) PROVE WalkComplete(R)'
  <2>1. \A d \in Walk!DirSet : d \in R[0] => Met(d, 0)'
    BY <1>5, <1>6 DEF WalkComplete
  <2>2. ASSUME NEW d \in Walk!DirSet, NEW k \in 0 .. opts.depth, d \in R[k], d \in visited'
        PROVE  /\ Walk!Boarded(d, k) => d \in Walk!ToSet(rowsFound')
               /\ ~Walk!Leaf(d, k) /\ k < opts.depth => \A e \in Entered(d) : Met(e, k + 1)'
    <3>1. CASE d \in visited
      <4>1. /\ Walk!Boarded(d, k) => d \in Walk!ToSet(rowsFound)
            /\ ~Walk!Leaf(d, k) /\ k < opts.depth => \A e \in Entered(d) : Met(e, k + 1)
        BY <1>6, <2>2, <3>1 DEF WalkComplete
      <4> QED
        BY <1>5, <4>1
    <3>2. CASE d = v.dir /\ k = v.depth
      <4>1. Walk!Boarded(d, k) => d \in Walk!ToSet(rowsFound')
        BY <3>2
      <4>2. ~Walk!Leaf(d, k) => \A e \in Entered(d) : Met(e, k + 1)'
        BY <1>3, <3>2 DEF Met
      <4> QED
        BY <4>1, <4>2
    <3>3. CASE d = v.dir /\ k # v.depth
      <4>1. Walk!Leaf(d, k) /\ Walk!Leaf(d, v.depth)
        BY <1>1, <1>6, <2>2, <3>3 DEF OneDepth
      <4>2. Walk!Boarded(d, k) => Walk!Boarded(d, v.depth)
        BY <1>1, <4>1 DEF Walk!Leaf, Walk!Boarded, Walk!RepoAt, Walk!GraphOnlyAt
      <4> QED
        BY <3>3, <4>1, <4>2
    <3> QED
      BY <2>2, <3>1, <3>2, <3>3
  <2> QED
    BY <2>1, <2>2, SameReach DEF WalkComplete
<1> QED
  BY <1>4, <1>6

LEMMA ReadWalk ==
  ASSUME WalkInv, Walk!WalkRoot
  PROVE  WalkInv'
<1> DEFINE v == Head(todo)
<1>1. /\ todo # <<>> /\ walking # -1
      /\ UNCHANGED <<dirTree, opts, walking, still, touched>>
  BY DEF Walk!WalkRoot
<1>2. /\ v \in Stop /\ Tail(todo) \in Seq(Stop)
      /\ Walk!ToSet(todo) = {v} \cup Walk!ToSet(Tail(todo))
  BY <1>1, SetOfTail DEF WalkInv, WalkTypes
<1>3. v.dir \in Walk!DirSet /\ v.depth \in Nat /\ opts.depth \in Nat
  BY <1>2 DEF Stop, WalkInv, WalkTypes
<1>4. CASE v.depth > opts.depth \/ v.dir \in visited
  <2>1. todo' = Tail(todo) /\ UNCHANGED <<visited, rowsFound>>
    BY <1>4 DEF Walk!WalkRoot, Walk!Seen
  <2>2. WalkTypes' /\ WalkOnce'
    BY <1>1, <1>2, <2>1 DEF WalkInv, WalkTypes, WalkOnce
  <2>3. ASSUME still, NEW R, IsReach(R)'
        PROVE  WalkSound(R)' /\ (OneDepth(R)' => WalkComplete(R)')
    <3>1. WalkSound(R) /\ (OneDepth(R) => WalkComplete(R)) /\ OneDepth(R)' = OneDepth(R)
      BY <1>1, <2>3, SameReach DEF WalkInv
    <3> HIDE DEF v
    <3> QED
      BY <1>1, <1>4, <2>1, <2>3, <3>1, SkipWalk DEF v
  <2> QED
    BY <1>1, <2>2, <2>3 DEF WalkInv
<1>5. CASE v.depth <= opts.depth /\ v.dir \notin visited
  <2> DEFINE B == Walk!Below(v.dir)
             pushed == [i \in DOMAIN B |-> [dir |-> B[i], depth |-> v.depth + 1]]
             kids == IF Walk!Leaf(v.dir, v.depth) THEN {}
                     ELSE {[dir |-> e, depth |-> v.depth + 1] : e \in Entered(v.dir)}
  <2>1. /\ visited' = visited \cup {v.dir}
        /\ rowsFound' = IF Walk!Boarded(v.dir, v.depth) THEN Append(rowsFound, v.dir) ELSE rowsFound
        /\ todo' = IF Walk!Leaf(v.dir, v.depth) THEN Tail(todo) ELSE pushed \o Tail(todo)
    <3>1. ~(v.depth > opts.depth \/ Walk!Seen(v.dir))
      BY <1>3, <1>5 DEF Walk!Seen
    <3> QED
      BY <3>1 DEF Walk!WalkRoot
  <2>2. B \in Seq(Walk!DirSet) /\ Walk!ToSet(B) = Entered(v.dir)
    BY BelowIs
  <2> HIDE DEF B
  <2>3. pushed \in Seq(Stop)
    <3>1. DOMAIN B = 1 .. Len(B) /\ Len(B) \in Nat
      BY <2>2
    <3>2. \A i \in 1 .. Len(B) : [dir |-> B[i], depth |-> v.depth + 1] \in Stop
      BY <1>3, <2>2, <3>1 DEF Stop
    <3>3. pushed \in [1 .. Len(B) -> Stop]
      BY <3>1, <3>2
    <3> QED
      BY <3>1, <3>3
  <2>4. Walk!ToSet(pushed) = {[dir |-> e, depth |-> v.depth + 1] : e \in Entered(v.dir)}
    BY <2>2 DEF Walk!ToSet
  <2> HIDE DEF pushed, v
  <2>5. todo' \in Seq(Stop) /\ Walk!ToSet(todo') = kids \cup Walk!ToSet(Tail(todo))
    <3>1. CASE Walk!Leaf(v.dir, v.depth)
      BY <1>2, <2>1, <3>1
    <3>2. CASE ~Walk!Leaf(v.dir, v.depth)
      <4>1. /\ pushed \o Tail(todo) \in Seq(Stop)
            /\ Walk!ToSet(pushed \o Tail(todo)) = Walk!ToSet(pushed) \cup Walk!ToSet(Tail(todo))
        BY <1>2, <2>3, SetOfJoin
      <4> QED
        BY <2>1, <2>4, <3>2, <4>1
    <3> QED
      BY <3>1, <3>2
  <2>6. rowsFound \in Seq(Walk!DirSet)
    BY DEF WalkInv, WalkTypes
  <2>7. /\ rowsFound' \in Seq(Walk!DirSet)
        /\ Walk!ToSet(rowsFound') = Walk!ToSet(rowsFound)
             \cup (IF Walk!Boarded(v.dir, v.depth) THEN {v.dir} ELSE {})
    BY <1>3, <2>1, <2>6, SetOfAppend
  <2>8. WalkTypes'
    BY <1>1, <2>5, <2>7 DEF WalkInv, WalkTypes
  <2>9. WalkOnce'
    <3>1. Walk!ToSet(rowsFound') \subseteq visited'
      BY <2>1, <2>7 DEF WalkInv, WalkOnce
    <3>2. CASE rowsFound' = rowsFound
      BY <3>1, <3>2 DEF WalkInv, WalkOnce
    <3>3. CASE rowsFound' = Append(rowsFound, v.dir)
      <4>1. v.dir \notin Walk!ToSet(rowsFound) /\ Walk!IsInjective(rowsFound)
        BY <1>5 DEF WalkInv, WalkOnce
      <4>2. Walk!IsInjective(Append(rowsFound, v.dir))
        BY <1>3, <2>6, <4>1, OnceMore
      <4> QED
        BY <3>1, <3>3, <4>2 DEF WalkOnce
    <3> QED
      BY <2>1, <3>2, <3>3
  <2>10. ASSUME still, NEW R, IsReach(R)'
         PROVE  WalkSound(R)' /\ (OneDepth(R)' => WalkComplete(R)')
    <3>1. IsReach(R) /\ OneDepth(R)' = OneDepth(R)
      BY <1>1, <2>10, SameReach
    <3>2. WalkSound(R) /\ (OneDepth(R) => WalkComplete(R))
      BY <2>10, <3>1 DEF WalkInv
    <3> HIDE DEF kids
    <3>3. kids = (IF Walk!Leaf(v.dir, v.depth) THEN {}
                  ELSE {[dir |-> e, depth |-> v.depth + 1] : e \in Entered(v.dir)})
      BY DEF kids
    <3> QED
      BY <1>1, <1>2, <1>5, <2>1, <2>5, <2>7, <2>10, <3>1, <3>2, <3>3, VisitWalk
  <2> QED
    BY <1>1, <2>8, <2>9, <2>10 DEF WalkInv
<1> QED
  BY <1>3, <1>4, <1>5

LEMMA StepWalk ==
  ASSUME WalkInv, Walk!DiscoveryNext \/ UNCHANGED walkVars
  PROVE  WalkInv'
<1>1. CASE Walk!WalkCached \/ Walk!Forget \/ UNCHANGED walkVars
  BY <1>1, RestWalk DEF Walk!WalkCached, Walk!Forget, Walk!walkVars, walkVars
<1>2. CASE Walk!WalkEnds
  <2>1. /\ rowsFound' = <<>> /\ visited' = {} /\ ~still'
        /\ UNCHANGED <<dirTree, opts, todo, touched>>
    BY <1>2 DEF Walk!WalkEnds
  <2>2. WalkTypes'
    BY <2>1 DEF WalkInv, WalkTypes
  <2>3. WalkOnce'
    BY <2>1 DEF WalkOnce, Walk!ToSet, Walk!IsInjective
  <2> QED
    BY <2>1, <2>2, <2>3 DEF WalkInv
<1>3. CASE \E d \in Walk!DirSet : Walk!NewCheckout(d)
  <2>1. PICK d \in Walk!DirSet : Walk!NewCheckout(d)
    BY <1>3
  <2>2. /\ dirTree' = [dirTree EXCEPT !.kind[d] = "checkout"] /\ ~still'
        /\ touched' = touched \/ touched' = touched + 1
        /\ UNCHANGED <<opts, todo, visited, rowsFound>>
    BY <2>1 DEF Walk!NewCheckout, Walk!walkVars
  <2>3. WalkTypes'
    BY <2>2 DEF WalkInv, WalkTypes
  <2>4. WalkOnce'
    BY <2>2 DEF WalkInv, WalkOnce
  <2> QED
    BY <2>2, <2>3, <2>4 DEF WalkInv
<1> QED
  BY <1>1, <1>2, <1>3, BeginWalk, ReadWalk DEF Walk!DiscoveryNext

\* What the walk is said to reach is what there is at each depth.
LEMMA ReachSteps ==
  ASSUME opts.depth \in Nat
  PROVE  /\ Walk!Reached[0] = Walk!ToSet(dirTree.roots)
         /\ \A k \in 1 .. opts.depth :
              Walk!Reached[k] = UNION {Walk!ToSet(Walk!Below(d)) :
                                         d \in {d \in Walk!Reached[k - 1] : ~Walk!Leaf(d, k - 1)}}
<1> DEFINE More(A, k) == UNION {Walk!ToSet(Walk!Below(d)) : d \in {d \in A : ~Walk!Leaf(d, k - 1)}}
           G(h, n) == h = [k \in 0 .. n |-> IF k = 0 THEN Walk!ToSet(dirTree.roots)
                             ELSE UNION {Walk!ToSet(Walk!Below(d)) :
                                           d \in {d \in h[k - 1] : ~Walk!Leaf(d, k - 1)}}]
           S == {n \in Nat : \E h : G(h, n)}
<1>1. 0 \in S
  <2> DEFINE h == [k \in 0 .. 0 |-> Walk!ToSet(dirTree.roots)]
  <2>1. G(h, 0)
    OBVIOUS
  <2> QED
    BY <2>1
<1>2. ASSUME NEW n \in Nat, n \in S PROVE n + 1 \in S
  <2>1. PICK h : G(h, n)
    BY <1>2
  <2> DEFINE h2 == [i \in 0 .. (n + 1) |-> IF i = n + 1 THEN More(h[n], n + 1) ELSE h[i]]
  <2>2. ASSUME NEW i \in 0 .. (n + 1)
        PROVE  h2[i] = IF i = 0 THEN Walk!ToSet(dirTree.roots) ELSE More(h2[i - 1], i)
    <3> HIDE DEF More
    <3>1. CASE i = n + 1
      <4>1. n \in 0 .. (n + 1) /\ n # n + 1 /\ i # 0 /\ i - 1 = n
        BY <3>1
      <4> QED
        BY <3>1, <4>1
    <3>2. CASE i = 0
      <4>1. i # n + 1 /\ i \in 0 .. n
        BY <3>2
      <4>2. h[i] = Walk!ToSet(dirTree.roots)
        BY <2>1, <3>2, <4>1
      <4> QED
        BY <3>2, <4>1, <4>2
    <3>3. CASE i # n + 1 /\ i # 0
      <4>1. i \in 0 .. n /\ i - 1 \in 0 .. (n + 1) /\ i - 1 # n + 1
        BY <3>3
      <4>2. h[i] = More(h[i - 1], i)
        BY <2>1, <3>3, <4>1 DEF More
      <4> QED
        BY <3>3, <4>1, <4>2
    <3> QED
      BY <3>1, <3>2, <3>3
  <2>3. h2 = [i \in 0 .. (n + 1) |-> h2[i]]
    OBVIOUS
  <2> HIDE DEF h2
  <2>4. G(h2, n + 1)
    BY <2>2, <2>3
  <2> QED
    BY <2>4
<1>3. PICK h : G(h, opts.depth)
  <2>1. Nat \subseteq S
    <3> HIDE DEF S
    <3> QED
      BY <1>1, <1>2, Successors
  <2> QED
    BY <2>1
<1> DEFINE reach == CHOOSE reach : G(reach, opts.depth)
<1>4. G(reach, opts.depth)
  BY <1>3
<1>5. Walk!Reached = reach
  BY DEF Walk!Reached
<1> HIDE DEF reach
<1>6. reach[0] = Walk!ToSet(dirTree.roots)
  BY <1>4
<1>7. ASSUME NEW k \in 1 .. opts.depth PROVE reach[k] = More(reach[k - 1], k)
  <2>1. k \in 0 .. opts.depth /\ k # 0
    OBVIOUS
  <2> QED
    BY <1>4, <2>1
<1> QED
  BY <1>5, <1>6, <1>7

LEMMA ReachedIs ==
  ASSUME WalkTypes
  PROVE  /\ IsReach(Walk!Reached)
         /\ \A k \in 0 .. opts.depth : Walk!Reached[k] \subseteq Walk!DirSet
<1> DEFINE R == Walk!Reached
<1>0. opts.depth \in Nat /\ Walk!ToSet(dirTree.roots) \subseteq Walk!DirSet
  BY DEF WalkTypes, Walk!ToSet
<1>1. /\ R[0] = Walk!ToSet(dirTree.roots)
      /\ \A k \in 1 .. opts.depth :
           R[k] = UNION {Walk!ToSet(Walk!Below(d)) : d \in {d \in R[k - 1] : ~Walk!Leaf(d, k - 1)}}
  BY <1>0, ReachSteps
<1> HIDE DEF R
<1>2. ASSUME NEW k \in Nat, k < opts.depth
      PROVE  \A e : e \in R[k + 1] <=> \E d \in R[k] : ~Walk!Leaf(d, k) /\ e \in Entered(d)
  <2>1. k + 1 \in 1 .. opts.depth /\ (k + 1) - 1 = k
    BY <1>0, <1>2
  <2>2. R[k + 1] = UNION {Walk!ToSet(Walk!Below(d)) : d \in {d \in R[k] : ~Walk!Leaf(d, k)}}
    BY <1>1, <2>1
  <2>3. \A d : Walk!ToSet(Walk!Below(d)) = Entered(d)
    BY BelowIs
  <2> QED
    BY <2>2, <2>3
<1>3. ASSUME NEW k \in 0 .. opts.depth PROVE R[k] \subseteq Walk!DirSet
  <2>1. CASE k = 0
    BY <1>0, <1>1, <2>1
  <2>2. CASE k # 0
    <3>1. k - 1 \in Nat /\ k - 1 < opts.depth /\ (k - 1) + 1 = k
      BY <1>0, <2>2
    <3> QED
      BY <1>2, <3>1 DEF Entered
  <2> QED
    BY <2>1, <2>2
<1>4. IsReach(R)
  <2> SUFFICES ASSUME NEW e \in Walk!DirSet, NEW k \in Nat, k < opts.depth
               PROVE  e \in R[k + 1] <=>
                        \E d \in Walk!DirSet : d \in R[k] /\ ~Walk!Leaf(d, k) /\ e \in Entered(d)
    BY <1>1 DEF IsReach
  <2>1. R[k] \subseteq Walk!DirSet
    BY <1>0, <1>3
  <2> QED
    BY <1>2, <2>1
<1> QED
  BY <1>3, <1>4 DEF R

\* When nothing is left to read the walk has a row for what is wanted.
LEMMA EndWalk ==
  ASSUME WalkInv, Walk!WalkEnds, still
  PROVE  /\ Walk!ToSet(scanned') \subseteq Walk!Wanted /\ Walk!IsInjective(scanned')
         /\ Walk!AtOneDepth => Walk!ToSet(scanned') = Walk!Wanted
<1> DEFINE R == Walk!Reached
<1>1. scanned' = rowsFound /\ Walk!ToSet(todo) = {}
  BY DEF Walk!WalkEnds, Walk!ToSet
<1>2. /\ IsReach(R) /\ \A k \in 0 .. opts.depth : R[k] \subseteq Walk!DirSet
      /\ opts.depth \in Nat
  BY ReachedIs DEF WalkInv, WalkTypes
<1>3. /\ WalkSound(R) /\ (OneDepth(R) => WalkComplete(R))
      /\ Walk!IsInjective(rowsFound) /\ Walk!ToSet(rowsFound) \subseteq Walk!DirSet
  BY <1>2 DEF WalkInv, WalkOnce, WalkTypes, Walk!ToSet
<1>4. Walk!InReach = {v \in [dir : Walk!DirSet, depth : 0 .. opts.depth] : v.dir \in R[v.depth]}
  BY DEF Walk!InReach
<1> HIDE DEF R
<1>5. \A d : d \in Walk!Wanted <=>
        d \in Walk!DirSet /\ \E k \in 0 .. opts.depth : d \in R[k] /\ Walk!Boarded(d, k)
  <2>1. ASSUME NEW d \in Walk!Wanted
        PROVE  d \in Walk!DirSet /\ \E k \in 0 .. opts.depth : d \in R[k] /\ Walk!Boarded(d, k)
    BY <1>4, <2>1 DEF Walk!Wanted
  <2>2. ASSUME NEW d \in Walk!DirSet, NEW k \in 0 .. opts.depth, d \in R[k], Walk!Boarded(d, k)
        PROVE  d \in Walk!Wanted
    <3> DEFINE v == [dir |-> d, depth |-> k]
    <3>1. v \in Walk!InReach /\ v.dir = d /\ v.depth = k
      BY <1>4, <2>2
    <3> HIDE DEF v
    <3> QED
      BY <2>2, <3>1 DEF Walk!Wanted
  <2> QED
    BY <2>1, <2>2
<1>6. Walk!ToSet(rowsFound) \subseteq Walk!Wanted
  BY <1>3, <1>5 DEF WalkSound
<1>7. ASSUME Walk!AtOneDepth PROVE Walk!Wanted \subseteq Walk!ToSet(rowsFound)
  <2>1. OneDepth(R)
    <3> SUFFICES ASSUME NEW d \in Walk!DirSet, NEW j \in 0 .. opts.depth, NEW k \in 0 .. opts.depth,
                        d \in R[j], d \in R[k]
                 PROVE  j = k \/ (Walk!Leaf(d, j) /\ Walk!Leaf(d, k))
      BY DEF OneDepth
    <3> DEFINE v == [dir |-> d, depth |-> j]
               w == [dir |-> d, depth |-> k]
    <3>1. v \in Walk!InReach /\ w \in Walk!InReach /\ v.dir = d /\ w.dir = d /\ v.depth = j /\ w.depth = k
      BY <1>4
    <3> HIDE DEF v, w
    <3> QED
      BY <1>7, <3>1 DEF Walk!AtOneDepth
  <2>2. WalkComplete(R)
    BY <1>3, <2>1
  <2> DEFINE S == {n \in Nat : n <= opts.depth => R[n] \subseteq visited}
  <2>3. 0 \in S
    BY <1>1, <1>2, <2>2 DEF WalkComplete, Met
  <2>4. ASSUME NEW n \in Nat, n \in S PROVE n + 1 \in S
    <3> SUFFICES ASSUME n + 1 <= opts.depth, NEW e \in R[n + 1] PROVE e \in visited
      OBVIOUS
    <3>1. /\ n < opts.depth /\ n \in 0 .. opts.depth /\ n + 1 \in 0 .. opts.depth
          /\ R[n] \subseteq visited
      BY <1>2, <2>4
    <3>2. e \in Walk!DirSet
      BY <1>2, <3>1
    <3>3. PICK d \in Walk!DirSet : d \in R[n] /\ ~Walk!Leaf(d, n) /\ e \in Entered(d)
      BY <1>2, <3>1, <3>2 DEF IsReach
    <3>4. Met(e, n + 1)
      BY <2>2, <3>1, <3>3 DEF WalkComplete
    <3> QED
      BY <1>1, <3>4 DEF Met
  <2>5. Nat \subseteq S
    <3> HIDE DEF S
    <3> QED
      BY <2>3, <2>4, Successors
  <2>6. \A k \in 0 .. opts.depth : R[k] \subseteq visited
    BY <1>2, <2>5
  <2> QED
    BY <1>5, <2>2, <2>6 DEF WalkComplete
<1> QED
  BY <1>1, <1>3, <1>6, <1>7

\* A walk of a disk that stands still gives a row to nothing but what is wanted, one each,
\* and to all of it where no directory is at two depths (walkRoot and its seen).
THEOREM WalkCorrect == SettlingSpec => [][part = "discovery" => Walk!WalkTells]_settlingVars
<1> DEFINE Inv == part = "discovery" => WalkInv
<1>1. SettlingInit => Inv
  BY InitWalk
<1>2. Inv /\ [SettlingNext]_settlingVars => Inv' /\ [part = "discovery" => Walk!WalkTells]_settlingVars
  <2> SUFFICES ASSUME Inv, [SettlingNext]_settlingVars
               PROVE  Inv' /\ (part = "discovery" => Walk!WalkTells)
    OBVIOUS
  <2>1. part' = part /\ (part = "discovery" => Walk!DiscoveryNext \/ UNCHANGED walkVars)
    BY PartSteps
  <2>2. Inv'
    BY <2>1, StepWalk
  <2>3. part = "discovery" => Walk!WalkTells
    BY EndWalk DEF Walk!WalkTells
  <2> QED
    BY <2>2, <2>3
<1> QED
  BY <1>1, <1>2, PTL DEF SettlingSpec

\* Both of what a scan brings: its rows, and the cursor among them.
THEOREM ScanCorrect == SettlingSpec => ScanKeeps
<1>1. [part = "discovery" => Walk!WalkTells]_settlingVars
      /\ [part = "view" => View!CursorKept]_settlingVars
      => [/\ part = "discovery" => Walk!WalkTells
          /\ part = "view" => View!CursorKept]_settlingVars
  OBVIOUS
<1> QED
  BY <1>1, WalkCorrect, CursorCorrect, PTL DEF ScanKeeps
=============================================================================
