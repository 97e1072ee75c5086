--------------------------- MODULE JobChainProofs ---------------------------
(***************************************************************************)
(* The ring of finished jobs, for every History and KeepFullFailures, and  *)
(* chains of any length, against any runner, before it.                    *)
(***************************************************************************)
EXTENDS JobChain, FiniteSetTheorems, SequenceTheorems, TLAPS

-----------------------------------------------------------------------------
(***************************************************************************)
(* The ring.                                                               *)
(***************************************************************************)
\* Where each retired job is: before the ring is full slot i holds job i; from
\* then on the slots before histNext hold the latest histNext jobs, and the
\* others the ones before those.
Placed(i) == IF i <= histNext THEN Len(failed) - histNext + i
             ELSE Len(failed) - histNext - History + i

RingInv ==
  /\ failed \in Seq(BOOLEAN)
  /\ history \in Seq(Nat)
  /\ histNext \in 0..(History - 1)
  /\ Len(history) = IF Len(failed) < History THEN Len(failed) ELSE History
  /\ Len(failed) < History => histNext = 0 /\ \A i \in 1..Len(history) : history[i] = i
  /\ Len(failed) >= History => \A i \in 1..History : history[i] = Placed(i)

\* A remainder by a larger number changes nothing.
LEMMA SmallMod ==
  ASSUME NEW h \in Nat \ {0}, NEW x \in 0..(h - 1)
  PROVE  x % h = x
  OBVIOUS

\* Before the first job the ring is empty.
LEMMA InitRing == HistoryInit => RingInv
  BY HistoryPositive DEF HistoryInit, RingInv

\* Filling an unfilled ring keeps slot i for job i.
LEMMA FillRing ==
  ASSUME RingInv, NEW f \in BOOLEAN, Retire(f), Len(history) < History
  PROVE  RingInv'
<1> USE HistoryPositive DEF RingInv, Retire
<1>1. /\ failed' = Append(failed, f) /\ Len(failed') = Len(failed) + 1
      /\ failed' \in Seq(BOOLEAN)
  OBVIOUS
<1>2. /\ history' = Append(history, Len(failed) + 1) /\ UNCHANGED histNext
      /\ Len(failed) < History /\ Len(history) = Len(failed) /\ histNext = 0
  OBVIOUS
<1>3. /\ history' \in Seq(Nat) /\ Len(history') = Len(failed')
      /\ \A i \in 1..Len(history') : history'[i] = i
  BY <1>1, <1>2
<1> QED
  BY <1>1, <1>2, <1>3 DEF Placed

\* Overwriting the oldest slot of a full ring moves histNext past it.
LEMMA WrapRing ==
  ASSUME RingInv, NEW f \in BOOLEAN, Retire(f), ~(Len(history) < History)
  PROVE  RingInv'
<1> USE HistoryPositive
<1>1. /\ failed' = Append(failed, f) /\ Len(failed') = Len(failed) + 1
      /\ failed' \in Seq(BOOLEAN)
  BY DEF RingInv, Retire
<1>2. /\ history' = [history EXCEPT ![histNext + 1] = Len(failed) + 1]
      /\ Len(failed) >= History /\ Len(history) = History
      /\ histNext' = (histNext + 1) % History
  <2>1. Len(failed) >= History /\ Len(history) = History
    BY DEF RingInv
  <2>2. /\ history' = [history EXCEPT ![histNext + 1] = Len(failed) + 1]
        /\ histNext' = NextSlot
    BY DEF Retire
  <2> QED
    BY <2>1, <2>2 DEF NextSlot
<1>3. /\ history' \in Seq(Nat) /\ Len(history') = History
      /\ \A i \in 1..History : history'[i] = IF i = histNext + 1 THEN Len(failed) + 1
                                             ELSE history[i]
  BY <1>2 DEF RingInv
<1>4. histNext' = IF histNext + 1 = History THEN 0 ELSE histNext + 1
  <2>1. CASE histNext + 1 = History
    BY <1>2, <2>1
  <2>2. CASE histNext + 1 # History
    <3>1. histNext + 1 \in 0..(History - 1)
      BY <2>2 DEF RingInv
    <3> QED
      BY <1>2, <2>2, <3>1, SmallMod
  <2> QED
    BY <2>1, <2>2
<1>5. \A i \in 1..History : history'[i] = Placed(i)'
  <2> SUFFICES ASSUME NEW i \in 1..History PROVE history'[i] = Placed(i)'
    OBVIOUS
  <2>1. /\ history'[i] = IF i = histNext + 1 THEN Len(failed) + 1 ELSE history[i]
        /\ history[i] = Placed(i)
        /\ histNext \in 0..(History - 1) /\ Len(failed) \in Nat
    BY <1>2, <1>3 DEF RingInv
  <2>2. Placed(i)' = IF i <= histNext' THEN Len(failed') - histNext' + i
                     ELSE Len(failed') - histNext' - History + i
    BY DEF Placed
  <2>3. CASE i = histNext + 1
    BY <1>1, <1>4, <2>1, <2>2, <2>3
  <2>4. CASE i # histNext + 1
    BY <1>1, <1>4, <2>1, <2>2, <2>4, SMTT(30) DEF Placed
  <2> QED
    BY <2>3, <2>4
<1> QED
  BY <1>1, <1>2, <1>3, <1>4, <1>5 DEF RingInv

\* Every slot is where it should be, and a stutter moves nothing.
LEMMA StepRing == RingInv /\ [HistoryNext]_historyVars => RingInv'
<1> SUFFICES ASSUME RingInv, [HistoryNext]_historyVars PROVE RingInv'
  OBVIOUS
<1>1. CASE HistoryNext
  BY <1>1, FillRing, WrapRing DEF HistoryNext
<1>2. CASE UNCHANGED historyVars
  BY <1>2 DEF historyVars, RingInv, Placed
<1> QED
  BY <1>1, <1>2

\* A ring so placed holds exactly the latest jobs.
LEMMA RingHolds == RingInv => HoldsTheLatest
<1> SUFFICES ASSUME RingInv PROVE HoldsTheLatest
  OBVIOUS
<1> USE HistoryPositive DEF RingInv, HoldsTheLatest, Members, Retired
<1>1. CASE Len(failed) < History
  BY <1>1
<1>2. CASE Len(failed) >= History
  <2>1. ASSUME NEW i \in 1..History
        PROVE  Placed(i) \in 1..Len(failed) /\ Placed(i) + History > Len(failed)
    BY <1>2 DEF Placed
  <2>2. ASSUME NEW j \in 1..Len(failed), j + History > Len(failed)
        PROVE  \E i \in 1..History : Placed(i) = j
    <3> DEFINE k == j - Len(failed) + histNext
    <3>1. CASE k >= 1
      <4>1. k \in 1..History /\ k <= histNext
        BY <3>1
      <4> QED
        BY <4>1 DEF Placed
    <3>2. CASE k < 1
      <4>1. k + History \in 1..History /\ k + History > histNext
        BY <1>2, <2>2, <3>2
      <4> QED
        BY <4>1 DEF Placed
    <3> QED
      BY <3>1, <3>2
  <2>3. \A i \in 1..History : history[i] = Placed(i)
    BY <1>2
  <2>4. DOMAIN history = 1..History
    BY <1>2
  <2>5. Members(history) = {Placed(i) : i \in 1..History}
    BY <2>3, <2>4
  <2> HIDE DEF RingInv, Members
  <2> QED
    BY <2>1, <2>2, <2>5
<1> QED
  BY <1>1, <1>2

\* The history is always the latest History finished jobs, for any number of
\* jobs retired: the ring may wrap for ever.
THEOREM HistoryCorrect == HistorySpec => []HoldsTheLatest
<1>1. HistorySpec => []RingInv
  BY InitRing, StepRing, PTL DEF HistorySpec
<1> QED
  BY <1>1, RingHolds, PTL

-----------------------------------------------------------------------------
(***************************************************************************)
(* The whole logs. fullLogs is oldest first, so whatever leaves it, pushed *)
(* out by a newer failure or gone from the ring, is its head.              *)
(***************************************************************************)
Increasing(q) == \A i, k \in DOMAIN q : i < k => q[i] < q[k]

LEMMA AppendLatest ==
  ASSUME NEW q \in Seq(Nat), Increasing(q), NEW x \in Nat, \A m \in Members(q) : m < x
  PROVE  /\ Append(q, x) \in Seq(Nat) /\ Increasing(Append(q, x))
         /\ Len(Append(q, x)) = Len(q) + 1
         /\ Members(Append(q, x)) = Members(q) \cup {x}
<1> DEFINE p == Append(q, x)
<1>1. /\ p \in Seq(Nat) /\ Len(p) = Len(q) + 1 /\ DOMAIN p = 1..(Len(q) + 1) /\ DOMAIN q = 1..Len(q)
      /\ p[Len(q) + 1] = x /\ \A i \in DOMAIN q : p[i] = q[i]
      /\ Len(q) \in Nat
  OBVIOUS
<1> HIDE DEF p
<1>2. Increasing(p)
  <2> SUFFICES ASSUME NEW i \in DOMAIN p, NEW k \in DOMAIN p, i < k PROVE p[i] < p[k]
    BY DEF Increasing
  <2>1. i \in DOMAIN q
    BY <1>1
  <2> QED
    BY <1>1, <2>1 DEF Increasing, Members
<1>3. Members(p) = Members(q) \cup {x}
  <2>1. \A i \in DOMAIN p : i \in DOMAIN q \/ i = Len(q) + 1
    BY <1>1
  <2>2. DOMAIN q \subseteq DOMAIN p /\ Len(q) + 1 \in DOMAIN p
    BY <1>1
  <2> QED
    BY <1>1, <2>1, <2>2 DEF Members
<1> QED
  BY <1>1, <1>2, <1>3 DEF p

LEMMA TailLater ==
  ASSUME NEW q \in Seq(Nat), Increasing(q), q # <<>>
  PROVE  /\ Tail(q) \in Seq(Nat) /\ Increasing(Tail(q)) /\ Len(Tail(q)) = Len(q) - 1
         /\ Head(q) \in Nat /\ Members(q) = Members(Tail(q)) \cup {Head(q)}
         /\ \A m \in Members(Tail(q)) : Head(q) < m
<1> DEFINE p == Tail(q)
<1>1. /\ p \in Seq(Nat) /\ Len(p) = Len(q) - 1 /\ DOMAIN p = 1..(Len(q) - 1) /\ DOMAIN q = 1..Len(q)
      /\ Head(q) = q[1] /\ \A i \in DOMAIN p : p[i] = q[i + 1]
      /\ Len(q) \in Nat /\ Len(q) > 0 /\ Head(q) \in Nat
  OBVIOUS
<1>2. \A i \in DOMAIN p : i + 1 \in DOMAIN q /\ i + 1 > 1 /\ i \in Nat
  BY <1>1
<1>3. \A i \in DOMAIN q : i = 1 \/ (i - 1 \in DOMAIN p /\ p[i - 1] = q[i])
  <2> SUFFICES ASSUME NEW i \in DOMAIN q, i # 1 PROVE i - 1 \in DOMAIN p /\ p[i - 1] = q[i]
    OBVIOUS
  <2>1. i - 1 \in DOMAIN p /\ (i - 1) + 1 = i
    BY <1>1
  <2> QED
    BY <1>1, <2>1
<1>4. 1 \in DOMAIN q
  BY <1>1
<1> HIDE DEF p
<1>5. Increasing(p)
  <2> SUFFICES ASSUME NEW i \in DOMAIN p, NEW k \in DOMAIN p, i < k PROVE p[i] < p[k]
    BY DEF Increasing
  <2>1. i + 1 < k + 1
    BY <1>2
  <2> QED
    BY <1>1, <1>2, <2>1 DEF Increasing
<1>6. Members(q) = Members(p) \cup {Head(q)}
  <2>1. ASSUME NEW m \in Members(q) PROVE m \in Members(p) \cup {Head(q)}
    <3>1. PICK i \in DOMAIN q : m = q[i]
      BY DEF Members
    <3> QED
      BY <1>1, <1>3, <3>1 DEF Members
  <2>2. ASSUME NEW m \in Members(p) PROVE m \in Members(q)
    BY <1>1, <1>2 DEF Members
  <2> QED
    BY <1>1, <1>4, <2>1, <2>2 DEF Members
<1>7. \A m \in Members(p) : Head(q) < m
  BY <1>1, <1>2, <1>4 DEF Members, Increasing
<1> QED
  BY <1>1, <1>5, <1>6, <1>7 DEF p

\* dropFullLog cuts the head off, when nothing in the list is older than what left.
LEMMA DropsHead ==
  ASSUME NEW q \in Seq(Nat), Increasing(q), NEW old \in Nat, \A m \in Members(q) : old <= m
  PROVE  DropFullLog(q, old) = IF old \in Members(q) THEN Tail(q) ELSE q
<1>1. CASE old \notin Members(q)
  BY <1>1 DEF DropFullLog
<1>2. CASE old \in Members(q)
  <2>1. DOMAIN q = 1..Len(q) /\ Len(q) \in Nat
    OBVIOUS
  <2>2. ASSUME NEW n \in DOMAIN q, q[n] = old PROVE n = 1
    <3>1. 1 \in DOMAIN q /\ n \in Nat /\ n >= 1 /\ q[1] \in Nat
      BY <2>1, <2>2
    <3>2. old <= q[1]
      BY <3>1 DEF Members
    <3> QED
      BY <2>2, <3>1, <3>2 DEF Increasing
  <2>3. 1 \in DOMAIN q /\ q[1] = old
    BY <1>2, <2>2 DEF Members
  <2> DEFINE i == CHOOSE i \in DOMAIN q : q[i] = old /\ \A k \in 1..(i - 1) : q[k] # old
  <2>4. i = 1
    <3>1. \A k \in 1..(1 - 1) : q[k] # old
      OBVIOUS
    <3>2. i \in DOMAIN q /\ q[i] = old
      BY <2>3, <3>1
    <3> QED
      BY <2>2, <3>2
  <2>5. DropFullLog(q, old) = [n \in 1..(Len(q) - 1) |-> IF n < i THEN q[n] ELSE q[n + 1]]
    BY <1>2 DEF DropFullLog
  <2> HIDE DEF i
  <2>6. DropFullLog(q, old) = [n \in 1..(Len(q) - 1) |-> q[n + 1]]
    BY <2>4, <2>5
  <2>7. Tail(q) = [n \in 1..(Len(q) - 1) |-> q[n + 1]]
    <3> DEFINE t == Tail(q)
    <3>1. q # <<>>
      BY <2>3
    <3>2. t \in Seq(Nat) /\ Len(t) = Len(q) - 1 /\ \A n \in 1..(Len(q) - 1) : t[n] = q[n + 1]
      BY <3>1
    <3>3. t \in [1..Len(t) -> Nat]
      BY <3>2, LenProperties
    <3> HIDE DEF t
    <3>4. t = [n \in 1..(Len(q) - 1) |-> q[n + 1]]
      BY <3>2, <3>3
    <3> QED
      BY <3>4 DEF t
  <2> QED
    BY <1>2, <2>6, <2>7
<1> QED
  BY <1>1, <1>2

\* The failures still in the ring.
Recent == {j \in 1..Len(failed) : failed[j] /\ j + History > Len(failed)}

\* fullLogs names, in order, the latest failures of the ring, as many as may be
\* kept, and no log the ring can reach is whole beside theirs.
LogInv ==
  /\ fullLogs \in Seq(Nat) /\ Increasing(fullLogs) /\ Len(fullLogs) <= KeepFullFailures
  /\ Members(fullLogs) \subseteq Recent \cap whole
  /\ \A j \in Recent : \/ j \in Members(fullLogs)
                       \/ /\ Len(fullLogs) = KeepFullFailures
                          /\ \A m \in Members(fullLogs) : j < m
  /\ \A w \in whole : w \in 1..Len(failed)
                      /\ (w + History > Len(failed) => w \in Members(fullLogs))

LEMMA InitLogs == HistoryInit => LogInv
  BY HistoryPositive DEF HistoryInit, LogInv, Increasing, Members, Recent

\* compactRetired: the arriving failure is the newest, and takes the place of
\* the oldest one when there are as many as may be kept.
LEMMA CompactLogs ==
  ASSUME RingInv, LogInv, NEW f \in BOOLEAN, Retire(f)
  PROVE  LET j == Len(failed) + 1
             q == AfterCompact(j, f)
             All == Recent \cup (IF f THEN {j} ELSE {})
         IN  /\ q \in Seq(Nat) /\ Increasing(q) /\ Len(q) <= KeepFullFailures
             /\ Members(q) \subseteq All \cap whole'
             /\ \A x \in All : \/ x \in Members(q)
                               \/ Len(q) = KeepFullFailures /\ \A m \in Members(q) : x < m
             /\ \A w \in whole' : w \in 1..j /\ (w + History > Len(failed) => w \in Members(q))
<1> DEFINE j == Len(failed) + 1
           p == Kept(j, f)
           q == AfterCompact(j, f)
           All == Recent \cup (IF f THEN {j} ELSE {})
<1> USE HistoryPositive
<1>1. /\ Len(failed) \in Nat /\ j \in Nat /\ \A x \in Recent : x \in Nat /\ x < j
      /\ whole' = (IF f THEN whole \cup {j} ELSE whole) \ PushedOut(j, f)
      /\ Len(fullLogs) \in Nat
  BY DEF RingInv, LogInv, Retire, Recent
<1>2. /\ p \in Seq(Nat) /\ Increasing(p)
      /\ Len(p) = IF f THEN Len(fullLogs) + 1 ELSE Len(fullLogs)
      /\ Members(p) = IF f THEN Members(fullLogs) \cup {j} ELSE Members(fullLogs)
  <2>1. \A m \in Members(fullLogs) : m < j
    BY <1>1 DEF LogInv
  <2> HIDE DEF j
  <2>2. CASE f
    <3>1. p = Append(fullLogs, j)
      BY <2>2 DEF Kept
    <3>2. fullLogs \in Seq(Nat) /\ Increasing(fullLogs)
      BY DEF LogInv
    <3> HIDE DEF p
    <3> QED
      BY <1>1, <2>1, <2>2, <3>1, <3>2, AppendLatest
  <2>3. CASE ~f
    BY <2>3 DEF Kept, LogInv
  <2> QED
    BY <2>2, <2>3
<1> HIDE DEF j
<1>3. CASE ~Overflows(p)
  <2>1. q = p /\ PushedOut(j, f) = {}
    BY <1>3 DEF AfterCompact, PushedOut
  <2>2. Len(p) <= KeepFullFailures
    BY <1>1, <1>2, <1>3 DEF Overflows
  <2>3. Members(p) \subseteq All \cap whole'
    BY <1>1, <1>2, <2>1 DEF LogInv
  <2>4. \A x \in All : \/ x \in Members(p)
                       \/ Len(p) = KeepFullFailures /\ \A m \in Members(p) : x < m
    <3>1. CASE f
      <4>1. Len(fullLogs) # KeepFullFailures
        BY <1>1, <1>2, <2>2, <3>1
      <4> QED
        BY <1>2, <3>1, <4>1 DEF LogInv
    <3>2. CASE ~f
      BY <1>2, <3>2 DEF LogInv
    <3> QED
      BY <3>1, <3>2
  <2>5. \A w \in whole' : w \in 1..j /\ (w + History > Len(failed) => w \in Members(p))
    BY <1>1, <1>2 DEF LogInv, j
  <2> QED
    BY <1>2, <2>1, <2>2, <2>3, <2>4, <2>5 DEF j
<1>4. CASE Overflows(p)
  <2>1. f /\ Len(fullLogs) = KeepFullFailures /\ Len(p) = KeepFullFailures + 1 /\ p # <<>>
    BY <1>1, <1>2, <1>4 DEF Overflows, LogInv
  <2>2. q = Tail(p) /\ PushedOut(j, f) = {Head(p)}
    BY <1>4 DEF AfterCompact, PushedOut
  <2>3. /\ q \in Seq(Nat) /\ Increasing(q) /\ Len(q) = KeepFullFailures
        /\ Head(p) \in Nat /\ Members(p) = Members(q) \cup {Head(p)}
        /\ \A m \in Members(q) : Head(p) < m
    <3> HIDE DEF p, q
    <3>1. p \in Seq(Nat) /\ Increasing(p) /\ p # <<>>
      BY <1>2, <2>1
    <3>2. Len(p) - 1 = KeepFullFailures
      BY <2>1
    <3> QED
      BY <2>2, <3>1, <3>2, TailLater
  <2>4. Members(p) = Members(fullLogs) \cup {j} /\ Members(p) \subseteq All
    BY <1>2, <2>1 DEF LogInv
  <2>5. Head(p) \notin Members(q)
    BY <2>3
  <2>6. Members(q) \subseteq All \cap whole'
    <3>1. Members(p) \subseteq whole \cup {j}
      BY <2>4 DEF LogInv
    <3>2. whole' = (whole \cup {j}) \ {Head(p)}
      BY <1>1, <2>1, <2>2
    <3> HIDE DEF p, q, All
    <3> QED
      BY <2>3, <2>4, <2>5, <3>1, <3>2
  <2>7. ASSUME NEW x \in All, x \notin Members(q) PROVE \A m \in Members(q) : x < m
    <3>1. CASE x \in Members(p)
      BY <2>3, <2>7, <3>1
    <3>2. CASE x \notin Members(p)
      <4>1. x \in Recent /\ \A m \in Members(fullLogs) : x < m
        BY <2>1, <2>4, <3>2 DEF LogInv
      <4>2. x < j
        BY <1>1, <4>1
      <4> QED
        BY <2>3, <2>4, <4>1, <4>2
    <3> QED
      BY <3>1, <3>2
  <2>8. \A w \in whole' : w \in 1..j /\ (w + History > Len(failed) => w \in Members(q))
    <3> SUFFICES ASSUME NEW w \in whole'
                 PROVE  w \in 1..j /\ (w + History > Len(failed) => w \in Members(q))
      OBVIOUS
    <3>1. w \in whole \cup {j} /\ w # Head(p)
      BY <1>1, <2>1, <2>2
    <3>2. w \in 1..j
      BY <1>1, <3>1 DEF LogInv, j
    <3>3. w + History > Len(failed) => w \in Members(p)
      BY <2>4, <3>1 DEF LogInv
    <3> QED
      BY <2>3, <3>1, <3>2, <3>3
  <2> QED
    BY <2>3, <2>6, <2>7, <2>8 DEF j
<1> QED
  BY <1>3, <1>4

\* dropFullLog takes out what the ring has just let go of, and that alone.
LEMMA StepLogs ==
  ASSUME RingInv, LogInv, NEW f \in BOOLEAN, Retire(f)
  PROVE  LogInv'
<1> DEFINE n == Len(failed)
           j == n + 1
           q == AfterCompact(j, f)
           All == Recent \cup (IF f THEN {j} ELSE {})
<1> USE HistoryPositive
<1>1. /\ q \in Seq(Nat) /\ Increasing(q) /\ Len(q) <= KeepFullFailures
      /\ Members(q) \subseteq All \cap whole'
      /\ \A x \in All : \/ x \in Members(q)
                        \/ Len(q) = KeepFullFailures /\ \A m \in Members(q) : x < m
      /\ \A w \in whole' : w \in 1..j /\ (w + History > n => w \in Members(q))
  BY CompactLogs
<1>2. /\ n \in Nat /\ failed \in Seq(BOOLEAN)
      /\ failed' = Append(failed, f)
  BY DEF RingInv, Retire
<1>3. /\ Len(failed') = j /\ failed'[j] = f /\ \A x \in 1..n : failed'[x] = failed[x]
  BY <1>2
<1>4. Recent' = {x \in All : x + History > j}
  <2>1. Recent' = {x \in 1..j : failed'[x] /\ x + History > j}
    BY <1>3 DEF Recent
  <2>2. \A x \in Recent : x \in 1..n /\ failed[x] /\ x + History > n
    BY DEF Recent
  <2>3. ASSUME NEW x \in All, x + History > j PROVE x \in Recent'
    BY <1>2, <1>3, <2>1, <2>2, <2>3
  <2>4. ASSUME NEW x \in Recent' PROVE x \in All /\ x + History > j
    <3>1. CASE x = j
      BY <1>2, <1>3, <2>1, <2>4, <3>1
    <3>2. CASE x # j
      <4>1. x \in 1..n /\ failed[x] /\ x + History > j
        BY <1>2, <1>3, <2>1, <2>4, <3>2
      <4> QED
        BY <1>2, <4>1 DEF Recent
    <3> QED
      BY <3>1, <3>2
  <2> HIDE DEF All
  <2> QED
    BY <2>3, <2>4
<1>5. \A x \in All : x \in 1..j /\ x + History > n
  BY <1>2 DEF Recent
<1>6. /\ fullLogs' \in Seq(Nat) /\ Increasing(fullLogs') /\ Len(fullLogs') <= Len(q)
      /\ Members(fullLogs') = {m \in Members(q) : m + History > j}
      /\ Members(fullLogs') = Members(q) => fullLogs' = q
  <2>1. CASE Len(history) < History
    <3>1. fullLogs' = q /\ n < History
      BY <2>1 DEF Retire, RingInv
    <3>2. \A m \in Members(q) : m \in Nat /\ m >= 1
      BY <1>1, <1>5
    <3> HIDE DEF q
    <3>3. {m \in Members(q) : m + History > j} = Members(q)
      BY <1>2, <3>1, <3>2
    <3> QED
      BY <1>1, <3>1, <3>3
  <2>2. CASE ~(Len(history) < History)
    <3> DEFINE old == n + 1 - History
    <3>1. n >= History /\ old \in Nat /\ history[histNext + 1] = old
      BY <2>2 DEF RingInv, Placed
    <3>2. fullLogs' = DropFullLog(q, old)
      BY <2>2, <3>1 DEF Retire
    <3>3. \A m \in Members(q) : m \in Nat /\ old <= m
      BY <1>1, <1>2, <1>5, <3>1
    <3> HIDE DEF q
    <3>4. fullLogs' = IF old \in Members(q) THEN Tail(q) ELSE q
      BY <1>1, <3>1, <3>2, <3>3, DropsHead
    <3>5. \A m \in Members(q) : m + History > j <=> m # old
      BY <1>2, <3>1, <3>3
    <3> HIDE DEF old
    <3>6. CASE old \notin Members(q)
      BY <1>1, <3>4, <3>5, <3>6
    <3>7. CASE old \in Members(q)
      <4>1. q # <<>>
        BY <3>7 DEF Members
      <4>2. /\ Tail(q) \in Seq(Nat) /\ Increasing(Tail(q)) /\ Len(Tail(q)) = Len(q) - 1
            /\ Head(q) \in Nat /\ Members(q) = Members(Tail(q)) \cup {Head(q)}
            /\ \A m \in Members(Tail(q)) : Head(q) < m
        BY <1>1, <4>1, TailLater
      <4>3. Head(q) \in Members(q) /\ Head(q) \notin Members(Tail(q))
        BY <4>2
      <4>4. old = Head(q)
        <5>1. old <= Head(q)
          BY <3>3, <4>3
        <5>2. old \in Nat /\ (old = Head(q) \/ Head(q) < old)
          BY <3>3, <3>7, <4>2
        <5> QED
          BY <4>2, <5>1, <5>2
      <4>5. fullLogs' = Tail(q)
        BY <3>4, <3>7
      <4>6. Members(Tail(q)) = {m \in Members(q) : m + History > j}
        BY <3>5, <4>2, <4>3, <4>4
      <4>7. Len(Tail(q)) <= Len(q)
        <5>1. Len(q) \in Nat
          BY <1>1
        <5> QED
          BY <4>2, <5>1
      <4>8. Members(Tail(q)) # Members(q)
        BY <4>3
      <4> HIDE DEF j
      <4> QED
        BY <4>2, <4>5, <4>6, <4>7, <4>8
    <3> QED
      BY <3>6, <3>7
  <2> QED
    BY <2>1, <2>2
<1> HIDE DEF q
<1>7. Len(fullLogs') <= KeepFullFailures
  BY <1>1, <1>6
<1>8. Members(fullLogs') \subseteq Recent' \cap whole'
  BY <1>1, <1>4, <1>6
<1>9. ASSUME NEW x \in Recent', x \notin Members(fullLogs')
      PROVE  Len(fullLogs') = KeepFullFailures /\ \A m \in Members(fullLogs') : x < m
  <2>1. x \in All /\ x + History > j /\ x \notin Members(q)
    BY <1>4, <1>6, <1>9
  <2>2. Len(q) = KeepFullFailures /\ \A m \in Members(q) : x < m
    BY <1>1, <2>1
  <2>3. \A m \in Members(q) : m + History > j
    BY <1>1, <1>2, <1>5, <2>1, <2>2
  <2>4. fullLogs' = q
    BY <1>6, <2>3
  <2> QED
    BY <2>2, <2>4
<1>10. ASSUME NEW w \in whole'
       PROVE  w \in 1..Len(failed') /\ (w + History > Len(failed') => w \in Members(fullLogs'))
  <2>1. w \in 1..j /\ (w + History > n => w \in Members(q))
    BY <1>1, <1>10
  <2>2. w + History > j => w + History > n
    BY <1>2, <2>1
  <2> QED
    BY <1>3, <1>6, <2>1, <2>2
<1> HIDE DEF j, All
<1> QED
  BY <1>6, <1>7, <1>8, <1>9, <1>10 DEF LogInv

\* There are as many members as positions: nothing is in the list twice.
LEMMA MembersCounted ==
  ASSUME NEW q \in Seq(Nat), Increasing(q)
  PROVE  IsFiniteSet(Members(q)) /\ Cardinality(Members(q)) = Len(q)
<1>1. DOMAIN q = 1..Len(q) /\ Len(q) \in Nat /\ \A i \in DOMAIN q : q[i] \in Nat
  OBVIOUS
<1>2. q \in [1..Len(q) -> Members(q)]
  BY <1>1 DEF Members
<1>3. ASSUME NEW a \in 1..Len(q), NEW b \in 1..Len(q), q[a] = q[b] PROVE a = b
  BY <1>1, <1>3 DEF Increasing
<1>4. \A t \in Members(q) : \E s \in 1..Len(q) : q[s] = t
  BY <1>1 DEF Members
<1>5. q \in Bijection(1..Len(q), Members(q))
  BY <1>2, <1>3, <1>4 DEF Bijection, Injection, Surjection, IsInjective
<1>6. IsFiniteSet(1..Len(q)) /\ Cardinality(1..Len(q)) = Len(q)
  <2>1. 1 \in Int /\ Len(q) \in Int
    BY <1>1
  <2>2. Cardinality(1..Len(q)) = IF 1 > Len(q) THEN 0 ELSE Len(q) - 1 + 1
    BY <2>1, FS_Interval
  <2> QED
    BY <1>1, <2>1, <2>2, FS_Interval
<1> QED
  BY <1>5, <1>6, FS_Bijection DEF ExistsBijection

LEMMA LogsKeep == RingInv /\ LogInv => HistoryKept
<1> SUFFICES ASSUME RingInv, LogInv PROVE HistoryKept
  OBVIOUS
<1> USE HistoryPositive
<1>1. HoldsTheLatest
  BY RingHolds
<1>2. Members(history) = {j \in 1..Len(failed) : j + History > Len(failed)}
  BY <1>1 DEF HoldsTheLatest, Retired
<1>3. Failures = Recent
  BY <1>2 DEF Failures, Recent
<1>4. IsFiniteSet(Members(fullLogs)) /\ Cardinality(Members(fullLogs)) = Len(fullLogs)
  BY MembersCounted DEF LogInv
<1>5. Len(failed) \in Nat /\ Len(fullLogs) \in Nat
  BY DEF RingInv, LogInv
<1>6. ASSUME NEW j \in Recent, Cardinality({k \in Recent : k > j}) < KeepFullFailures
      PROVE  j \in whole
  <2>1. CASE j \in Members(fullLogs)
    BY <2>1 DEF LogInv
  <2>2. CASE j \notin Members(fullLogs)
    <3> DEFINE newer == {k \in Recent : k > j}
    <3>1. Len(fullLogs) = KeepFullFailures /\ \A m \in Members(fullLogs) : j < m
      BY <2>2 DEF LogInv
    <3>2. Members(fullLogs) \subseteq newer
      <4>1. \A m \in Members(fullLogs) : m \in Recent /\ m \in Nat
        BY DEF LogInv, Recent
      <4>2. j \in Nat
        BY DEF Recent
      <4> QED
        BY <3>1, <4>1, <4>2
    <3>3. IsFiniteSet(newer)
      <4>1. newer \in SUBSET (1..Len(failed))
        BY DEF Recent
      <4>2. IsFiniteSet(1..Len(failed))
        BY <1>5, FS_Interval
      <4> QED
        BY <4>1, <4>2, FS_Subset
    <3>4. Cardinality(newer) < KeepFullFailures
      BY <1>6
    <3> HIDE DEF newer
    <3>5. Cardinality(Members(fullLogs)) <= Cardinality(newer)
      BY <3>2, <3>3, FS_Subset
    <3>6. Cardinality(newer) \in Nat
      BY <3>3, FS_CardinalityType
    <3> QED
      BY <1>4, <1>5, <3>1, <3>4, <3>5, <3>6
  <2> QED
    BY <2>1, <2>2
<1>7. RecentFailuresWhole
  BY <1>3, <1>6 DEF RecentFailuresWhole
<1>8. Members(fullLogs) \subseteq Members(history)
  BY <1>2 DEF LogInv, Recent
<1>9. LogsBounded
  <2> DEFINE reach == whole \cap (Members(history) \cup Members(fullLogs))
  <2>1. reach \in SUBSET Members(fullLogs)
    BY <1>2 DEF LogInv
  <2>2. Cardinality(reach) <= Len(fullLogs) /\ Cardinality(reach) \in Nat
    BY <1>4, <2>1, FS_Subset, FS_CardinalityType
  <2>3. Len(fullLogs) <= KeepFullFailures
    BY DEF LogInv
  <2>4. Cardinality(reach) <= KeepFullFailures
    BY <1>5, <2>2, <2>3
  <2> QED
    BY <1>8, <2>4 DEF LogsBounded
<1> QED
  BY <1>1, <1>7, <1>9 DEF HistoryKept

\* The history keeps what may be asked of it, for any number of jobs retired and
\* any limits: the latest jobs, the latest failures with the whole of their
\* logs, and no more of them than may be kept.
THEOREM HistoryKeeps == HistorySpec => []HistoryKept
<1>1. RingInv /\ LogInv /\ [HistoryNext]_historyVars => LogInv'
  <2> SUFFICES ASSUME RingInv, LogInv, [HistoryNext]_historyVars PROVE LogInv'
    OBVIOUS
  <2>1. CASE HistoryNext
    BY <2>1, StepLogs DEF HistoryNext
  <2>2. CASE UNCHANGED historyVars
    BY <2>2 DEF historyVars, LogInv, Recent
  <2> QED
    BY <2>1, <2>2
<1>2. HistorySpec => [](RingInv /\ LogInv)
  BY InitRing, InitLogs, StepRing, <1>1, PTL DEF HistorySpec
<1> QED
  BY <1>2, LogsKeep, PTL

-----------------------------------------------------------------------------
(***************************************************************************)
(* The chains.                                                             *)
(***************************************************************************)
\* What has been counted succeeded, nothing beyond the next step exists, and
\* the goroutine reads the outcome of a job that has one.
ChainInv ==
  /\ ChainTypeOK
  /\ \A s \in Step : s <= ran => job[s] = "succeeded"
  /\ \A s \in Step : s > ran + 1 => job[s] = "none"
  /\ goroutine = "submit" /\ ran < Steps => job[ran + 1] = "none"
  /\ goroutine \in {"wait", "read"} => ran < Steps
  /\ goroutine = "read" => job[ran + 1] \in Terminal
  /\ goroutine = "over" =>
       /\ err = "nil" => ran = Steps
       /\ err \in {"failed", "canceled"} => ran < Steps /\ job[ran + 1] = err

\* A chain starts with nothing submitted.
LEMMA InitChain == ChainInit => ChainInv
  BY StepsPositive DEF ChainInit, ChainInv, ChainTypeOK, Step, Terminal

\* The goroutine's own steps.
LEMMA GoroutineStep == ChainInv /\ Chain => ChainInv'
<1> SUFFICES ASSUME ChainInv, Chain PROVE ChainInv'
  OBVIOUS
<1> USE StepsPositive DEF ChainInv, ChainTypeOK, Step, Terminal, Now
<1>1. CASE SubmitStep
  BY <1>1 DEF SubmitStep, Stops
<1>2. CASE JobDone
  BY <1>2 DEF JobDone, WaitJob
<1>3. CASE RunnerQuit
  BY <1>3 DEF RunnerQuit, Stops
<1>4. CASE Judge
  <2>1. CASE job[ran + 1] = "succeeded"
    BY <1>4, <2>1 DEF Judge, MayGoOn, Advance
  <2>2. CASE job[ran + 1] # "succeeded"
    BY <1>4, <2>2 DEF Judge, MayGoOn, Stops
  <2> QED
    BY <2>1, <2>2
<1>5. CASE Complete
  BY <1>5 DEF Complete, Stops
<1> QED
  BY <1>1, <1>2, <1>3, <1>4, <1>5 DEF Chain

\* The runner moves a job only before its end, so an outcome that was read, or
\* counted, stays true.
LEMMA RunnerStep == ChainInv /\ Runner => ChainInv'
<1> SUFFICES ASSUME ChainInv, Runner PROVE ChainInv'
  OBVIOUS
<1> USE StepsPositive DEF ChainInv, ChainTypeOK, Step, Terminal
<1>1. Close \/ Closed => ChainInv'
  BY DEF Close, Closed
<1>2. OtherEnds => ChainInv'
  BY DEF OtherEnds, chain
<1>3. ASSUME NEW s \in Step, Dispatched(s) PROVE ChainInv'
  BY <1>3 DEF Dispatched
<1>4. ASSUME NEW s \in Step, Ended(s) PROVE ChainInv'
  BY <1>4 DEF Ended
<1>5. ASSUME NEW s \in Step, Dropped(s) PROVE ChainInv'
  BY <1>5 DEF Dropped
<1> QED
  BY <1>1, <1>2, <1>3, <1>4, <1>5 DEF Runner

LEMMA ChainInvariant == ChainSpec => []ChainInv
<1>1. ChainInv /\ [ChainNext]_chainVars => ChainInv'
  <2>1. ChainInv /\ UNCHANGED chainVars => ChainInv'
    BY DEF chainVars, chain, ChainInv, ChainTypeOK
  <2> QED
    BY <2>1, GoroutineStep, RunnerStep DEF ChainNext
<1> QED
  BY InitChain, <1>1, PTL DEF ChainSpec

\* No command of a chain exists before those it builds on have succeeded.
THEOREM OrderCorrect == ChainSpec => []NeverAhead
<1>1. ChainInv => NeverAhead
  <2> SUFFICES ASSUME ChainInv, NEW s \in Step, job[s] # "none", NEW p \in 1..(s - 1)
               PROVE  job[p] = "succeeded"
    BY DEF NeverAhead
  <2>1. ran \in Nat /\ s \in 1..Steps /\ Steps \in Nat
    BY StepsPositive DEF ChainInv, ChainTypeOK, Step
  <2>2. ~(s > ran + 1)
    BY DEF ChainInv
  <2>3. p \in Step /\ p <= ran
    BY <2>1, <2>2 DEF Step
  <2> QED
    BY <2>3 DEF ChainInv
<1> QED
  BY ChainInvariant, <1>1, PTL

\* What a chain reports, when it is over, is what its commands did.
THEOREM ReportCorrect == ChainSpec => []ReportsTruth
<1>1. ChainInv => ReportsTruth
  <2> SUFFICES ASSUME ChainInv, goroutine = "over" PROVE ReportsTruth
    BY DEF ReportsTruth
  <2>1. err = "nil" => \A s \in Step : s <= ran
    BY StepsPositive DEF ChainInv, Step
  <2>2. err = "nil" => \A s \in Step : job[s] = "succeeded"
    BY <2>1 DEF ChainInv
  <2> QED
    BY <2>2 DEF ChainInv, ReportsTruth, Now
<1> QED
  BY ChainInvariant, <1>1, PTL

\* The jobs of a chain, and those beside it, reach the history by retire alone.
LEMMA ChainRetires == ChainSpec => HistorySpec
<1>1. ChainInit => HistoryInit
  BY DEF ChainInit
<1>2. [ChainNext]_chainVars => [HistoryNext]_historyVars
  BY DEF ChainNext, Chain, Runner, OtherEnds, Dispatched, Ended, Dropped, HistoryNext, chainVars
<1> QED
  BY <1>1, <1>2, PTL DEF ChainSpec, HistorySpec

\* The ring holds the latest jobs whatever the chain does.
THEOREM ChainHistoryCorrect == ChainSpec => []HoldsTheLatest
  BY ChainRetires, HistoryCorrect, PTL

\* And the logs of the latest failures are whole, and bounded.
THEOREM ChainHistoryKeeps == ChainSpec => []HistoryKept
  BY ChainRetires, HistoryKeeps, PTL

\* A chain is neither ahead of its commands nor wrong about them.
THEOREM TellsCorrect == ChainSpec => []ChainTells
<1> QED
  BY OrderCorrect, ReportCorrect, PTL DEF ChainTells
=============================================================================
