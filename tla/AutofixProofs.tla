---------------------------- MODULE AutofixProofs ----------------------------
(***************************************************************************)
(* The repair loop's slots, clock and bill, for any repositories, limits   *)
(* and scenarios.                                                          *)
(***************************************************************************)
EXTENDS Autofix, FiniteSetTheorems, TLAPS

(***************************************************************************)
(* Sequences, and loops over them.                                         *)
(***************************************************************************)
\* A set of naturals with 0 and every successor has them all.
LEMMA Successors ==
  ASSUME NEW S, 0 \in S, \A n \in Nat : n \in S => n + 1 \in S
  PROVE  Nat \subseteq S
<1> SUFFICES ASSUME NEW x \in Nat, x \notin S PROVE FALSE
  OBVIOUS
<1> DEFINE T == {n \in Nat : n \notin S}
<1>1. PICK m \in T : \A n \in T : ~(<<n, m>> \in OpToRel(<, Nat))
  BY WFMin, NatLessThanWellFounded
<1>2. m # 0 /\ m - 1 \in Nat /\ m - 1 < m /\ (m - 1) + 1 = m
  OBVIOUS
<1>3. m - 1 \in S
  BY <1>1, <1>2 DEF OpToRel
<1> QED
  BY <1>2, <1>3

\* A sequence of whatever it holds.
IsList(s) == Len(s) \in Nat /\ s = [i \in 1 .. Len(s) |-> s[i]]

LEMMA ListSeq ==
  ASSUME NEW S, NEW s \in Seq(S)
  PROVE  IsList(s)
  BY DEF IsList

LEMMA ListAppend ==
  ASSUME NEW s, IsList(s), NEW x
  PROVE  /\ IsList(Append(s, x)) /\ Len(Append(s, x)) = Len(s) + 1
         /\ DOMAIN s = 1 .. Len(s) /\ DOMAIN Append(s, x) = 1 .. (Len(s) + 1)
         /\ \A i \in DOMAIN s : Append(s, x)[i] = s[i]
         /\ Append(s, x)[Len(s) + 1] = x
<1> DEFINE S == {s[i] : i \in 1 .. Len(s)} \cup {x}
<1>1. s \in Seq(S) /\ x \in S
  <2>1. s \in [1 .. Len(s) -> S] /\ Len(s) \in Nat
    BY DEF IsList
  <2>2. PICK n \in Nat : n = Len(s)
    BY <2>1
  <2>3. s \in [1 .. n -> S] /\ x \in S
    BY <2>1, <2>2
  <2> HIDE DEF S
  <2> QED
    BY <2>3
<1> HIDE DEF S
<1>2. Append(s, x) \in Seq(S) /\ Len(Append(s, x)) = Len(s) + 1
  BY <1>1
<1>3. IsList(Append(s, x))
  BY <1>2, ListSeq
<1> QED
  BY <1>1, <1>2, <1>3

LEMMA ListEmpty == IsList(<<>>) /\ Len(<<>>) = 0 /\ DOMAIN <<>> = {}
  BY DEF IsList

LEMMA ListOf ==
  ASSUME NEW n \in Nat, NEW s, DOMAIN s = 1 .. n, s = [i \in 1 .. n |-> s[i]]
  PROVE  IsList(s) /\ Len(s) = n
<1> DEFINE S == {s[i] : i \in 1 .. n}
<1>1. s \in Seq(S)
  <2>1. s \in [1 .. n -> S]
    OBVIOUS
  <2> HIDE DEF S
  <2> QED
    BY <2>1
<1> HIDE DEF S
<1> QED
  BY <1>1 DEF IsList

\* What is picked of a list is a list, and no longer.
LEMMA ListPicked ==
  ASSUME NEW n \in Nat, NEW s, NEW I \in SUBSET (1 .. n)
  PROVE  IsList(Picked(s, I)) /\ Len(Picked(s, I)) <= n
<1>1. Cardinality(I) \in Nat /\ Cardinality(I) <= n
  <2>1. IsFiniteSet(1 .. n) /\ Cardinality(1 .. n) = n
    BY FS_Interval
  <2>2. IsFiniteSet(I) /\ Cardinality(I) <= n
    BY <2>1, FS_Subset
  <2> QED
    BY <2>2, FS_CardinalityType
<1>2. Picked(s, I) = [k \in 1 .. Cardinality(I) |-> Picked(s, I)[k]] /\ DOMAIN Picked(s, I) = 1 .. Cardinality(I)
  BY DEF Picked
<1> QED
  BY <1>1, <1>2, ListOf

-----------------------------------------------------------------------------
(***************************************************************************)
(* The turns of Plan's loop, and of PlanFleet's, exist and are what the    *)
(* turn before makes of them.                                              *)
(***************************************************************************)
PlanStart(mem, bills) ==
  [seen |-> mem, billed |-> bills, acts |-> <<>>, inflight |-> Cardinality(Running(mem))]

\* The loop of Plan, as the values it goes through.
PlanLoop(turn, mem, bills, cands, pol) ==
  /\ turn[0] = PlanStart(mem, bills)
  /\ \A i \in 1 .. Len(cands) : turn[i] = PlanOne(turn[i - 1], cands[i], pol)
  /\ Plan(mem, bills, cands, pol) = turn[Len(cands)]

LEMMA PlanTurns ==
  ASSUME NEW mem, NEW bills, NEW cands, Len(cands) \in Nat, NEW pol
  PROVE  \E turn : PlanLoop(turn, mem, bills, cands, pol)
<1> DEFINE G(f, n) == f = [i \in 0 .. n |-> IF i = 0 THEN PlanStart(mem, bills)
                                            ELSE PlanOne(f[i - 1], cands[i], pol)]
           S == {n \in Nat : \E f : G(f, n)}
<1>1. 0 \in S
  <2> DEFINE f == [i \in 0 .. 0 |-> PlanStart(mem, bills)]
  <2>1. G(f, 0)
    OBVIOUS
  <2> QED
    BY <2>1
<1>2. ASSUME NEW n \in Nat, n \in S PROVE n + 1 \in S
  <2>1. PICK f : G(f, n)
    BY <1>2
  <2> DEFINE g == [i \in 0 .. (n + 1) |-> IF i = n + 1 THEN PlanOne(f[n], cands[n + 1], pol) ELSE f[i]]
  <2>2. ASSUME NEW i \in 0 .. (n + 1)
        PROVE  g[i] = IF i = 0 THEN PlanStart(mem, bills) ELSE PlanOne(g[i - 1], cands[i], pol)
    <3>1. CASE i = n + 1
      <4>1. n \in 0 .. (n + 1) /\ n # n + 1 /\ i # 0 /\ i - 1 = n
        BY <3>1
      <4> QED
        BY <3>1, <4>1
    <3>2. CASE i = 0
      BY <2>1, <3>2
    <3>3. CASE i # n + 1 /\ i # 0
      <4>1. i \in 0 .. n /\ i - 1 \in 0 .. (n + 1) /\ i - 1 # n + 1
        BY <3>3
      <4>2. f[i] = PlanOne(f[i - 1], cands[i], pol)
        BY <2>1, <3>3, <4>1
      <4> QED
        BY <3>3, <4>1, <4>2
    <3> QED
      BY <3>1, <3>2, <3>3
  <2>3. g = [i \in 0 .. (n + 1) |-> g[i]]
    OBVIOUS
  <2> HIDE DEF g
  <2>4. G(g, n + 1)
    BY <2>2, <2>3
  <2> QED
    BY <2>4
<1>3. PICK f : G(f, Len(cands))
  <2>1. Nat \subseteq S
    <3> HIDE DEF S
    <3> QED
      BY <1>1, <1>2, Successors
  <2> QED
    BY <2>1
<1> DEFINE turn == CHOOSE f_1 : G(f_1, Len(cands))
<1>4. G(turn, Len(cands))
  BY <1>3
<1>5. Plan(mem, bills, cands, pol) = turn[Len(cands)]
  BY DEF Plan, PlanStart
<1> HIDE DEF turn
<1>6. turn[0] = PlanStart(mem, bills)
  BY <1>4
<1>7. \A i \in 1 .. Len(cands) : turn[i] = PlanOne(turn[i - 1], cands[i], pol)
  BY <1>4
<1> QED
  BY <1>5, <1>6, <1>7 DEF PlanLoop

FleetStart(mem) ==
  [seen |-> mem, acts |-> <<>>, inflight |-> Cardinality(Running(mem))]

FleetKeys == SetToSeq(Fleet \ Tags) \o SetToSeq(Fleet \cap Tags)

LEMMA FleetTurns ==
  ASSUME NEW mem, NEW busy, NEW pol, Len(FleetKeys) \in Nat
  PROVE  \E turn :
           /\ turn[0] = FleetStart(mem)
           /\ \A i \in 1 .. Len(FleetKeys) : turn[i] = PlanFleetOne(turn[i - 1], FleetKeys[i], busy, pol)
           /\ PlanFleet(mem, busy, pol) = turn[Len(FleetKeys)]
<1> DEFINE G(f, n) == f = [i \in 0 .. n |-> IF i = 0 THEN FleetStart(mem)
                                            ELSE PlanFleetOne(f[i - 1], FleetKeys[i], busy, pol)]
           S == {n \in Nat : \E f : G(f, n)}
<1>1. 0 \in S
  <2> DEFINE f == [i \in 0 .. 0 |-> FleetStart(mem)]
  <2>1. G(f, 0)
    OBVIOUS
  <2> QED
    BY <2>1
<1>2. ASSUME NEW n \in Nat, n \in S PROVE n + 1 \in S
  <2>1. PICK f : G(f, n)
    BY <1>2
  <2> DEFINE g == [i \in 0 .. (n + 1) |-> IF i = n + 1 THEN PlanFleetOne(f[n], FleetKeys[n + 1], busy, pol) ELSE f[i]]
  <2>2. ASSUME NEW i \in 0 .. (n + 1)
        PROVE  g[i] = IF i = 0 THEN FleetStart(mem) ELSE PlanFleetOne(g[i - 1], FleetKeys[i], busy, pol)
    <3>1. CASE i = n + 1
      <4>1. n \in 0 .. (n + 1) /\ n # n + 1 /\ i # 0 /\ i - 1 = n
        BY <3>1
      <4> QED
        BY <3>1, <4>1
    <3>2. CASE i = 0
      BY <2>1, <3>2
    <3>3. CASE i # n + 1 /\ i # 0
      <4>1. i \in 0 .. n /\ i - 1 \in 0 .. (n + 1) /\ i - 1 # n + 1
        BY <3>3
      <4>2. f[i] = PlanFleetOne(f[i - 1], FleetKeys[i], busy, pol)
        BY <2>1, <3>3, <4>1
      <4> QED
        BY <3>3, <4>1, <4>2
    <3> QED
      BY <3>1, <3>2, <3>3
  <2>3. g = [i \in 0 .. (n + 1) |-> g[i]]
    OBVIOUS
  <2> HIDE DEF g
  <2>4. G(g, n + 1)
    BY <2>2, <2>3
  <2> QED
    BY <2>4
<1>3. PICK f : G(f, Len(FleetKeys))
  <2>1. Nat \subseteq S
    <3> HIDE DEF S
    <3> QED
      BY <1>1, <1>2, Successors
  <2> QED
    BY <2>1
<1> DEFINE turn == CHOOSE f_1 : G(f_1, Len(FleetKeys))
<1>4. G(turn, Len(FleetKeys))
  BY <1>3
<1>5. PlanFleet(mem, busy, pol) = turn[Len(FleetKeys)]
  BY DEF PlanFleet, FleetStart, FleetKeys
<1> HIDE DEF turn
<1>6. turn[0] = FleetStart(mem)
  BY <1>4
<1>7. \A i \in 1 .. Len(FleetKeys) : turn[i] = PlanFleetOne(turn[i - 1], FleetKeys[i], busy, pol)
  BY <1>4
<1> QED
  BY <1>5, <1>6, <1>7

LEMMA FleetKeysLen ==
  ASSUME IsFiniteSet(Fleet)
  PROVE  Len(FleetKeys) \in Nat
<1>1. ASSUME NEW S, IsFiniteSet(S) PROVE SetToSeq(S) \in Seq(S)
  <2>1. Cardinality(S) \in Nat /\ \E f : f \in Bijection(1 .. Cardinality(S), S)
    BY <1>1, FS_CardinalityType DEF ExistsBijection
  <2>2. \E f \in [1 .. Cardinality(S) -> S] : IsInjective(f)
    BY <2>1 DEF Bijection, Injection
  <2>3. SetToSeq(S) \in [1 .. Cardinality(S) -> S]
    BY <2>2 DEF SetToSeq
  <2> QED
    BY <2>1, <2>3
<1>2. IsFiniteSet(Fleet \ Tags) /\ IsFiniteSet(Fleet \cap Tags)
  BY FS_Subset
<1>3. SetToSeq(Fleet \ Tags) \in Seq(Fleet) /\ SetToSeq(Fleet \cap Tags) \in Seq(Fleet)
  BY <1>1, <1>2
<1> QED
  BY <1>3 DEF FleetKeys

-----------------------------------------------------------------------------
(***************************************************************************)
(* The engine's memory, through the turns of a plan.                       *)
(***************************************************************************)
Fields == {"sig", "attempts", "age", "running", "built", "declared"}
IsRecord(rec) ==
  DOMAIN rec = Fields /\ rec.attempts \in Nat /\ rec.age \in Nat /\ rec.running \in BOOLEAN
Memory(mem) == \A k \in DOMAIN mem : IsRecord(mem[k])

\* Inside the cooldown a record is no older than the loop's last reservation.
Late(q, mem, k) == q[k] < Cooldown => Record(mem, k).age <= q[k]
Quieted(q) == \A k \in DOMAIN q : q[k] \in 0 .. Cooldown

\* After some turns the memory is now and n of its records run: those that ran
\* before, in mem, and those of K, which the turns have reserved.
Turn(q, mem, max, now, K, n) ==
  /\ Memory(now)
  /\ IsFiniteSet(Running(now)) /\ n = Cardinality(Running(now))
  /\ K = {} \/ n <= max
  /\ Running(now) = Running(mem) \cup K /\ K \cap Running(mem) = {}
  /\ \A k \in DOMAIN q : IF k \in K THEN q[k] = Cooldown /\ Record(now, k).age = 0
                             ELSE Late(q, now, k)

LEMMA Limits ==
  /\ Cooldown \in Nat /\ Cooldown > 0 /\ Attempts \in Nat /\ MaxRunning \in Nat /\ MaxRunning > 0
  /\ MeteredPerDay \in Nat /\ MeteredPerDay > 0
  /\ Aged \in Nat /\ Aged >= Cooldown
  /\ \A a \in Nat : Backoff(a) \in Nat /\ Backoff(a) >= Cooldown
<1>1. /\ Cooldown \in Nat /\ Cooldown > 0 /\ Attempts \in Nat /\ Attempts > 0 /\ MaxRunning \in Nat
      /\ MaxRunning > 0 /\ MeteredPerDay \in Nat /\ MeteredPerDay > 0
  BY AutofixAssumptions
<1>2. ASSUME NEW a \in Nat, a > 0 PROVE Cooldown * a \in Nat /\ Cooldown * a >= Cooldown
  <2>1. a - 1 \in Nat /\ Cooldown * (a - 1) \in Nat /\ Cooldown * a = Cooldown * (a - 1) + Cooldown
    BY <1>1, <1>2
  <2> QED
    BY <1>1, <2>1
<1> QED
  BY <1>1, <1>2 DEF Aged, Backoff

LEMMA RecordOf ==
  ASSUME NEW mem, Memory(mem), NEW key
  PROVE  IsRecord(Record(mem, key)) /\ (key \in Running(mem) <=> Record(mem, key).running)
<1>1. IsRecord(NoRecord) /\ ~NoRecord.running
  BY Limits DEF NoRecord, IsRecord, Fields
<1> QED
  BY <1>1 DEF Memory, Record, Running, IsRecord

LEMMA WithOf ==
  ASSUME NEW mem, Memory(mem), NEW key, NEW rec, IsRecord(rec)
  PROVE  /\ Memory(With(mem, key, rec))
         /\ \A k : Record(With(mem, key, rec), k) = IF k = key THEN rec ELSE Record(mem, k)
         /\ Running(With(mem, key, rec)) =
              IF rec.running THEN Running(mem) \cup {key} ELSE Running(mem) \ {key}
<1> DEFINE new == With(mem, key, rec)
<1>1. DOMAIN new = DOMAIN mem \cup {key} /\ \A k \in DOMAIN new : new[k] = IF k = key THEN rec ELSE mem[k]
  BY DEF With
<1> HIDE DEF new
<1>2. Memory(new)
  BY <1>1 DEF Memory
<1>3. \A k : Record(new, k) = IF k = key THEN rec ELSE Record(mem, k)
  BY <1>1 DEF Record
<1>4. Running(new) = IF rec.running THEN Running(mem) \cup {key} ELSE Running(mem) \ {key}
  BY <1>1 DEF Running
<1> QED
  BY <1>2, <1>3, <1>4 DEF new

LEMMA TurnTouches ==
  ASSUME NEW q, NEW mem, NEW max, NEW now, NEW K, NEW n, Turn(q, mem, max, now, K, n),
         NEW key, ~Record(now, key).running,
         NEW rec, IsRecord(rec), rec.age = Record(now, key).age, ~rec.running
  PROVE  Turn(q, mem, max, With(now, key, rec), K, n)
<1>1. Memory(now)
  BY DEF Turn
<1>2. key \notin Running(now)
  BY <1>1, RecordOf
<1>3. /\ Memory(With(now, key, rec)) /\ Running(With(now, key, rec)) = Running(now)
      /\ \A k : Record(With(now, key, rec), k).age = Record(now, k).age
  BY <1>1, <1>2, WithOf
<1> QED
  BY <1>3 DEF Turn, Late

LEMMA TurnForgets ==
  ASSUME NEW q, Quieted(q), NEW mem, NEW max, NEW now, NEW K, NEW n, Turn(q, mem, max, now, K, n), NEW key
  PROVE  Turn(q, mem, max, ForgetHealthy(now, key), K, n)
<1>1. Memory(now)
  BY DEF Turn
<1>2. CASE Record(now, key).running \/ Record(now, key).age < Cooldown
  BY <1>2 DEF ForgetHealthy
<1>3. CASE ~(Record(now, key).running \/ Record(now, key).age < Cooldown)
  <2> DEFINE new == Drop(now, {key})
  <2>1. DOMAIN new = DOMAIN now \ {key} /\ \A k \in DOMAIN new : new[k] = now[k]
    BY DEF Drop
  <2>2. ForgetHealthy(now, key) = new
    BY <1>3 DEF ForgetHealthy
  <2>3. key \notin Running(now) /\ IsRecord(Record(now, key))
    BY <1>1, <1>3, RecordOf
  <2> HIDE DEF new
  <2>4. Memory(new) /\ Running(new) = Running(now) /\ \A k : k # key => Record(new, k) = Record(now, k)
    BY <1>1, <2>1, <2>3 DEF Memory, Running, Record
  <2>5. ASSUME key \in DOMAIN q PROVE Late(q, new, key) /\ key \notin K
    <3>1. key \notin K
      BY <2>3 DEF Turn
    <3>2. Late(q, now, key)
      BY <2>5, <3>1 DEF Turn
    <3>3. q[key] \in Nat /\ Cooldown \in Nat /\ Record(now, key).age \in Nat
      BY <2>3, <2>5, Limits DEF Quieted, IsRecord
    <3>4. ~(q[key] < Cooldown)
      BY <1>3, <3>2, <3>3 DEF Late
    <3> QED
      BY <3>1, <3>4 DEF Late
  <2>6. \A k \in DOMAIN q : IF k \in K THEN q[k] = Cooldown /\ Record(new, k).age = 0
                                ELSE Late(q, new, k)
    BY <2>4, <2>5 DEF Turn, Late
  <2> QED
    BY <2>2, <2>4, <2>6 DEF Turn
<1> QED
  BY <1>2, <1>3

LEMMA TurnReserves ==
  ASSUME NEW q, Quieted(q), NEW mem, NEW max \in Nat, NEW now, NEW K, NEW n, Turn(q, mem, max, now, K, n),
         NEW key, ~Record(now, key).running, ~(Record(now, key).age < Cooldown), ~(n >= max),
         NEW rec, IsRecord(rec), rec.age = 0, rec.running
  PROVE  /\ key \notin K /\ key \notin Running(mem)
         /\ Turn(q, mem, max, With(now, key, rec), K \cup {key}, n + 1)
<1>1. Memory(now) /\ IsFiniteSet(Running(now)) /\ n = Cardinality(Running(now)) /\ n \in Nat
  BY FS_CardinalityType DEF Turn
<1>2. key \notin Running(now) /\ IsRecord(Record(now, key))
  BY <1>1, RecordOf
<1>3. key \notin K /\ key \notin Running(mem)
  BY <1>2 DEF Turn
<1> DEFINE new == With(now, key, rec)
<1>4. /\ Memory(new) /\ Running(new) = Running(now) \cup {key}
      /\ \A k : Record(new, k) = IF k = key THEN rec ELSE Record(now, k)
  BY <1>1, WithOf
<1> HIDE DEF new
<1>5. IsFiniteSet(Running(new)) /\ n + 1 = Cardinality(Running(new))
  BY <1>1, <1>2, <1>4, FS_AddElement
<1>6. n + 1 <= max
  BY <1>1
<1>7. ASSUME key \in DOMAIN q PROVE q[key] = Cooldown
  <2>1. Late(q, now, key)
    BY <1>3, <1>7 DEF Turn
  <2>2. q[key] \in 0 .. Cooldown /\ Cooldown \in Nat /\ Record(now, key).age \in Nat
    BY <1>2, <1>7, Limits DEF Quieted, IsRecord
  <2> QED
    BY <2>1, <2>2 DEF Late
<1>8. \A k \in DOMAIN q : IF k \in K \cup {key} THEN q[k] = Cooldown /\ Record(new, k).age = 0
                              ELSE Late(q, new, k)
  BY <1>4, <1>7 DEF Turn, Late
<1>9. /\ Running(new) = Running(mem) \cup (K \cup {key})
      /\ (K \cup {key}) \cap Running(mem) = {}
  BY <1>3, <1>4 DEF Turn
<1> QED
  BY <1>3, <1>4, <1>5, <1>6, <1>8, <1>9 DEF Turn, new

-----------------------------------------------------------------------------
(***************************************************************************)
(* What a plan holds.                                                      *)
(***************************************************************************)
FreeKinds == {"update", "cluster-only", "global-add", "graft-build"}
FreeStep == [kind : FreeKinds, force : BOOLEAN, noLabel : BOOLEAN, missingOnly : BOOLEAN]

\* A plan that may not bill holds no step that does.
LEMMA FreePlan ==
  ASSUME NEW c, NEW pol
  PROVE  ~Metered(PlanFor(c, pol, FALSE))
<1>1. /\ <<>> \in Seq(FreeStep)
      /\ \A x \in FreeStep : <<x>> \in Seq(FreeStep)
      /\ \A a, b \in Seq(FreeStep) : a \o b \in Seq(FreeStep)
  OBVIOUS
<1>2. ASSUME NEW kind \in FreeKinds PROVE Step(kind) \in FreeStep
  BY DEF Step, FreeStep
<1>3. /\ <<Step("update")>> \in Seq(FreeStep)
      /\ <<Step("global-add")>> \in Seq(FreeStep)
      /\ <<Step("graft-build")>> \in Seq(FreeStep)
  BY <1>1, <1>2 DEF FreeKinds
<1>4. ASSUME NEW i PROVE Rebuild(i, FALSE) \in Seq(FreeStep)
  <2>1. ASSUME NEW b \in BOOLEAN PROVE [Step("update") EXCEPT !.force = b] \in FreeStep
    BY DEF Step, FreeStep, FreeKinds
  <2>2. ("broken" \in i) \in BOOLEAN
    OBVIOUS
  <2>3. <<[Step("update") EXCEPT !.force = "broken" \in i]>> \in Seq(FreeStep)
    BY <1>1, <2>1, <2>2
  <2>4. CASE FromScratch(i)
    BY <2>3, <2>4 DEF Rebuild
  <2>5. CASE ~FromScratch(i)
    BY <1>1, <1>3, <2>5 DEF Rebuild
  <2> QED
    BY <2>4, <2>5
<1>5. ASSUME NEW i PROVE Cluster(i, FALSE) \in Seq(FreeStep)
  <2>1. [Step("cluster-only") EXCEPT !.noLabel = TRUE] \in FreeStep
    BY DEF Step, FreeStep, FreeKinds
  <2>2. <<[Step("cluster-only") EXCEPT !.noLabel = TRUE]>> \in Seq(FreeStep)
    BY <1>1, <2>1
  <2> QED
    BY <1>1, <2>2 DEF Cluster
<1>6. ASSUME NEW i, NEW recent PROVE Label(i, FALSE, recent) = <<>>
  BY DEF Label
<1>7. For(c.graph, FALSE).steps \in Seq(FreeStep)
  <2>1. PICK i : i = Issues(c.graph)
    OBVIOUS
  <2>2. PICK l : l = Label(i, FALSE, c.graph.recent)
    OBVIOUS
  <2>3. Rebuild(i, FALSE) \in Seq(FreeStep) /\ Cluster(i, FALSE) \in Seq(FreeStep) /\ l \in Seq(FreeStep)
    BY <1>1, <1>4, <1>5, <1>6, <2>2
  <2>4. For(c.graph, FALSE).steps = IF i = {} THEN <<>> ELSE Rebuild(i, FALSE) \o Cluster(i, FALSE) \o l
    BY <2>1, <2>2 DEF For
  <2>5. Rebuild(i, FALSE) \o Cluster(i, FALSE) \o l \in Seq(FreeStep)
    BY <1>1, <2>3
  <2> QED
    BY <1>1, <2>4, <2>5
<1>8. ASSUME NEW steps PROVE GlobalSteps(c, pol, steps) \in Seq(FreeStep)
  BY <1>1, <1>3 DEF GlobalSteps, JoinStep, GlobalStep
<1>9. GraftSteps(c, pol) \in Seq(FreeStep)
  BY <1>1, <1>3 DEF GraftSteps, GraftCreateStep, GraftStep
<1>10. PlanFor(c, pol, FALSE) \in Seq(FreeStep)
  BY <1>1, <1>7, <1>8, <1>9 DEF PlanFor
<1>11. \A x \in FreeStep : x.kind \notin MeteredKinds
  BY DEF MeteredKinds, FreeStep, FreeKinds
<1>12. \A s \in Seq(FreeStep) : \A k \in DOMAIN s : s[k] \in FreeStep
  OBVIOUS
<1> QED
  BY <1>10, <1>11, <1>12 DEF Metered

-----------------------------------------------------------------------------
(***************************************************************************)
(* Plan.                                                                   *)
(***************************************************************************)
KeysOf(acts) == {acts[i].key : i \in DOMAIN acts}
Charged(acts, r, pol) == \E i \in DOMAIN acts : acts[i].key = r /\ Metered(acts[i].steps) /\ ~pol.local

\* Some turns into a plan: what is reserved is what is planned, once each, and the
\* bill has grown by the planned chains that bill, if nothing was over it before.
Planned(q, keys, mem, bills, pol, acc) ==
  /\ DOMAIN acc = {"seen", "billed", "acts", "inflight"}
  /\ IsList(acc.acts)
  /\ \A i, j \in DOMAIN acc.acts : acc.acts[i].key = acc.acts[j].key => i = j
  /\ \A i \in DOMAIN acc.acts : /\ acc.acts[i].key \in keys
                                /\ acc.acts[i].local = (pol.local /\ Metered(acc.acts[i].steps))
  /\ Turn(q, mem, pol.max, acc.seen, KeysOf(acc.acts), acc.inflight)
  /\ DOMAIN acc.billed = Repos
  /\ \A r \in Repos :
       /\ acc.billed[r] = IF Charged(acc.acts, r, pol) THEN Append(bills[r], 0) ELSE bills[r]
       /\ Len(acc.billed[r]) <= MeteredPerDay

\* No repository has billed more than the day allows.
Bounded(bills) ==
  DOMAIN bills = Repos /\ \A r \in Repos : IsList(bills[r]) /\ Len(bills[r]) <= MeteredPerDay

LEMMA ReservedOf ==
  ASSUME NEW rec, IsRecord(rec), NEW sig, NEW stamp, NEW moved
  PROVE  /\ IsRecord(Renewed(rec, sig, moved))
         /\ Renewed(rec, sig, moved).age = rec.age
         /\ Renewed(rec, sig, moved).running = rec.running
         /\ IsRecord(Reserved(Renewed(rec, sig, moved), sig, stamp))
         /\ Reserved(Renewed(rec, sig, moved), sig, stamp).age = 0
         /\ Reserved(Renewed(rec, sig, moved), sig, stamp).running
<1>1. ASSUME NEW r, IsRecord(r)
      PROVE  IsRecord(Reserved(r, sig, stamp)) /\ Reserved(r, sig, stamp).age = 0
             /\ Reserved(r, sig, stamp).running
  BY <1>1 DEF IsRecord, Reserved, Fields
<1>2. /\ IsRecord(Renewed(rec, sig, moved))
      /\ Renewed(rec, sig, moved).age = rec.age /\ Renewed(rec, sig, moved).running = rec.running
  BY DEF IsRecord, Renewed, Fields
<1> QED
  BY <1>1, <1>2

LEMMA PlanOneKeeps ==
  ASSUME NEW q, Quieted(q), NEW mem, NEW bills, Bounded(bills), NEW pol, pol.max \in Nat,
         NEW keys, NEW acc, Planned(q, keys, mem, bills, pol, acc), NEW c, c.repo \in keys
  PROVE  Planned(q, keys, mem, bills, pol, PlanOne(acc, c, pol))
<1> DEFINE rec == Record(acc.seen, c.repo)
           sig == CandSig(c, pol)
           full == PlanFor(c, pol, AllowMetered(pol))
           capped == Metered(full) /\ ~pol.local /\ BudgetSpent(acc.billed[c.repo])
           plan == IF capped THEN PlanFor(c, pol, FALSE) ELSE full
           bills2 == Metered(plan) /\ ~pol.local
           moved == Restamped(rec, sig, c)
           new == Renewed(rec, sig, moved)
           K == KeysOf(acc.acts)
           act == [key |-> c.repo, steps |-> plan, local |-> pol.local /\ Metered(plan)]
           last == [seen |-> With(acc.seen, c.repo, Reserved(new, sig, c.stamp)),
                    billed |-> IF bills2 THEN [acc.billed EXCEPT ![c.repo] = Append(@, 0)] ELSE acc.billed,
                    acts |-> Append(acc.acts, act), inflight |-> acc.inflight + 1]
<1>1. PlanOne(acc, c, pol) =
        IF acc.inflight >= pol.max \/ c.excluded \/ c.busy THEN acc
        ELSE IF sig = {} THEN [acc EXCEPT !.seen = ForgetHealthy(@, c.repo)]
        ELSE IF plan = <<>> \/ rec.running \/ Exhausted(rec, sig, moved) THEN acc
        ELSE IF CoolingDown(new) THEN [acc EXCEPT !.seen = With(@, c.repo, new)]
        ELSE last
  BY DEF PlanOne
<1>2. Turn(q, mem, pol.max, acc.seen, K, acc.inflight) /\ IsRecord(rec)
  BY RecordOf DEF Planned, Turn
<1>3. /\ IsRecord(new) /\ new.age = rec.age /\ new.running = rec.running
      /\ IsRecord(Reserved(new, sig, c.stamp)) /\ Reserved(new, sig, c.stamp).age = 0
      /\ Reserved(new, sig, c.stamp).running
  BY <1>2, ReservedOf
<1>4. bills2 => /\ Metered(full) /\ ~pol.local /\ ~BudgetSpent(acc.billed[c.repo])
  BY FreePlan
<1> HIDE DEF rec, sig, full, capped, plan, bills2, moved, new
<1>5. ASSUME NEW s, Turn(q, mem, pol.max, s, K, acc.inflight)
      PROVE  Planned(q, keys, mem, bills, pol, [acc EXCEPT !.seen = s])
  BY <1>5 DEF Planned
<1>6. CASE PlanOne(acc, c, pol) = acc
  BY <1>6
<1>7. CASE PlanOne(acc, c, pol) = [acc EXCEPT !.seen = ForgetHealthy(@, c.repo)]
  <2>1. Turn(q, mem, pol.max, ForgetHealthy(acc.seen, c.repo), K, acc.inflight)
    BY <1>2, TurnForgets
  <2> QED
    BY <1>5, <1>7, <2>1
<1>8. CASE ~rec.running /\ PlanOne(acc, c, pol) = [acc EXCEPT !.seen = With(@, c.repo, new)]
  <2>1. Turn(q, mem, pol.max, With(acc.seen, c.repo, new), K, acc.inflight)
    BY <1>2, <1>3, <1>8, TurnTouches DEF rec
  <2> QED
    BY <1>5, <1>8, <2>1
<1>9. CASE /\ ~rec.running /\ ~CoolingDown(new) /\ ~(acc.inflight >= pol.max)
           /\ PlanOne(acc, c, pol) = last
  <2>1. rec.age >= Cooldown
    <3>1. new.attempts \in Nat /\ new.age \in Nat /\ new.age = rec.age
      BY <1>3 DEF IsRecord
    <3>2. PICK b \in Nat : b = Backoff(new.attempts) /\ b >= Cooldown
      BY <3>1, Limits
    <3>3. ~(new.age < b)
      BY <1>9, <3>2 DEF CoolingDown
    <3> QED
      BY <3>1, <3>2, <3>3, Limits
  <2>2. /\ c.repo \notin K
        /\ Turn(q, mem, pol.max, last.seen, K \cup {c.repo}, acc.inflight + 1)
    <3>1. ~(rec.age < Cooldown)
      BY <1>2, <2>1, Limits DEF IsRecord
    <3> QED
      BY <1>2, <1>3, <1>9, <3>1, TurnReserves DEF rec
  <2> DEFINE acts == Append(acc.acts, act)
             m == Len(acc.acts)
  <2>3. IsList(acc.acts) /\ m \in Nat /\ DOMAIN acc.acts = 1 .. m
    BY ListAppend DEF Planned, IsList
  <2>4. /\ IsList(acts) /\ DOMAIN acts = 1 .. (m + 1)
        /\ \A i \in 1 .. m : acts[i] = acc.acts[i]
        /\ acts[m + 1] = act
    BY <2>3, ListAppend
  <2>5. act.key = c.repo /\ act.steps = plan /\ act.local = (pol.local /\ Metered(plan))
    OBVIOUS
  <2>6. last.acts = acts /\ last.inflight = acc.inflight + 1
        /\ DOMAIN last = {"seen", "billed", "acts", "inflight"}
        /\ last.billed = IF bills2 THEN [acc.billed EXCEPT ![c.repo] = Append(@, 0)] ELSE acc.billed
    OBVIOUS
  <2> HIDE DEF acts, m, act, last
  <2>7. \A i \in DOMAIN acts : i \in DOMAIN acc.acts \/ i = m + 1
    BY <2>3, <2>4
  <2>8. KeysOf(acts) = K \cup {c.repo}
    <3>1. m + 1 \in DOMAIN acts /\ \A i \in DOMAIN acc.acts : i \in DOMAIN acts
      BY <2>3, <2>4
    <3> QED
      BY <2>3, <2>4, <2>5, <2>7, <3>1 DEF KeysOf
  <2>9. \A i \in DOMAIN acc.acts : acc.acts[i].key # c.repo
    BY <2>2 DEF KeysOf
  <2>10. \A i, j \in DOMAIN acts : acts[i].key = acts[j].key => i = j
    BY <2>3, <2>4, <2>5, <2>7, <2>9 DEF Planned
  <2>11. \A i \in DOMAIN acts : acts[i].key \in keys /\ acts[i].local = (pol.local /\ Metered(acts[i].steps))
    BY <2>3, <2>4, <2>5, <2>7 DEF Planned
  <2>12. ASSUME NEW r \in Repos
         PROVE  Charged(acts, r, pol) <=> (Charged(acc.acts, r, pol) \/ (r = c.repo /\ bills2))
    <3>1. m + 1 \in DOMAIN acts /\ \A i \in DOMAIN acc.acts : i \in DOMAIN acts
      BY <2>3, <2>4
    <3> QED
      BY <2>3, <2>4, <2>5, <2>7, <3>1 DEF Charged, bills2
  <2>13. DOMAIN last.billed = Repos
    BY <2>6 DEF Planned
  <2>14. ASSUME NEW r \in Repos
         PROVE  /\ last.billed[r] = IF Charged(acts, r, pol) THEN Append(bills[r], 0) ELSE bills[r]
                /\ Len(last.billed[r]) <= MeteredPerDay
    <3>1. CASE ~(r = c.repo /\ bills2)
      <4>1. last.billed[r] = acc.billed[r]
        BY <2>6, <3>1 DEF Planned
      <4> QED
        BY <2>12, <3>1, <4>1 DEF Planned
    <3>2. CASE r = c.repo /\ bills2
      <4>1. ~Charged(acc.acts, r, pol)
        BY <2>9, <3>2 DEF Charged
      <4>2. acc.billed[r] = bills[r] /\ last.billed[r] = Append(acc.billed[r], 0)
        BY <2>6, <3>2, <4>1 DEF Planned
      <4>3. Len(bills[r]) \in Nat /\ Len(Append(bills[r], 0)) = Len(bills[r]) + 1
        BY ListAppend DEF Bounded, IsList
      <4>4. ~(Len(bills[r]) >= MeteredPerDay)
        BY <1>4, <3>2, <4>2 DEF BudgetSpent
      <4>5. Charged(acts, r, pol)
        BY <2>12, <3>2
      <4>6. Len(bills[r]) + 1 <= MeteredPerDay
        <5>1. MeteredPerDay \in Nat
          BY Limits
        <5>2. PICK k \in Nat : k = Len(bills[r])
          BY <4>3
        <5>3. ~(k >= MeteredPerDay)
          BY <4>4, <5>2
        <5>4. k + 1 <= MeteredPerDay
          BY <5>1, <5>3
        <5> QED
          BY <5>2, <5>4
      <4> QED
        BY <4>2, <4>3, <4>5, <4>6
    <3> QED
      BY <3>1, <3>2
  <2> QED
    BY <1>9, <2>2, <2>4, <2>6, <2>8, <2>10, <2>11, <2>13, <2>14 DEF Planned
<1> HIDE DEF last
<1> QED
  BY <1>1, <1>6, <1>7, <1>8, <1>9

LEMMA PlanKeeps ==
  ASSUME NEW q, Quieted(q), NEW mem, Memory(mem), IsFiniteSet(Running(mem)), \A k \in DOMAIN q : Late(q, mem, k),
         NEW bills, Bounded(bills), NEW cands, IsList(cands), NEW pol, pol.max \in Nat
  PROVE  Planned(q, Keys(cands), mem, bills, pol, Plan(mem, bills, cands, pol))
<1>0. PICK turn : PlanLoop(turn, mem, bills, cands, pol)
  <2>1. Len(cands) \in Nat
    BY DEF IsList
  <2> QED
    BY <2>1, PlanTurns
<1>1. /\ turn[0] = PlanStart(mem, bills)
      /\ \A i \in 1 .. Len(cands) : turn[i] = PlanOne(turn[i - 1], cands[i], pol)
      /\ Plan(mem, bills, cands, pol) = turn[Len(cands)]
  BY <1>0 DEF PlanLoop
<1> DEFINE S == {i \in Nat : i <= Len(cands) => Planned(q, Keys(cands), mem, bills, pol, turn[i])}
<1>2. Planned(q, Keys(cands), mem, bills, pol, PlanStart(mem, bills))
  <2> DEFINE start == PlanStart(mem, bills)
  <2>1. /\ DOMAIN start = {"seen", "billed", "acts", "inflight"}
        /\ start.seen = mem /\ start.billed = bills /\ start.acts = <<>>
        /\ start.inflight = Cardinality(Running(mem))
    BY DEF PlanStart
  <2> HIDE DEF start
  <2>2. KeysOf(<<>>) = {} /\ \A r : ~Charged(<<>>, r, pol)
    BY ListEmpty DEF KeysOf, Charged
  <2>3. Turn(q, mem, pol.max, mem, {}, Cardinality(Running(mem)))
    BY DEF Turn
  <2> QED
    BY <2>1, <2>2, <2>3, ListEmpty DEF Planned, Bounded, start
<1>3. 0 \in S
  BY <1>1, <1>2
<1>4. ASSUME NEW n \in Nat, n \in S PROVE n + 1 \in S
  <2> SUFFICES ASSUME n + 1 <= Len(cands) PROVE Planned(q, Keys(cands), mem, bills, pol, turn[n + 1])
    OBVIOUS
  <2>1. n + 1 \in 1 .. Len(cands) /\ (n + 1) - 1 = n /\ n <= Len(cands) /\ cands[n + 1].repo \in Keys(cands)
    <3>1. Len(cands) \in Nat /\ DOMAIN cands = 1 .. Len(cands)
      BY DEF IsList
    <3> QED
      BY <3>1 DEF Keys
  <2>2. Planned(q, Keys(cands), mem, bills, pol, turn[n])
    BY <1>4, <2>1
  <2>3. turn[n + 1] = PlanOne(turn[n], cands[n + 1], pol)
    BY <1>1, <2>1
  <2> QED
    BY <2>1, <2>2, <2>3, PlanOneKeeps
<1>5. Nat \subseteq S
  <2> HIDE DEF S
  <2> QED
    BY <1>3, <1>4, Successors
<1>6. Planned(q, Keys(cands), mem, bills, pol, turn[Len(cands)])
  <2>1. Len(cands) \in S /\ Len(cands) <= Len(cands)
    BY <1>5 DEF IsList
  <2> QED
    BY <2>1
<1> QED
  BY <1>1, <1>6

-----------------------------------------------------------------------------
(***************************************************************************)
(* PlanFleet.                                                              *)
(***************************************************************************)
FleetPlanned(q, mem, pol, acc) ==
  /\ DOMAIN acc = {"seen", "acts", "inflight"}
  /\ IsList(acc.acts)
  /\ \A i, j \in DOMAIN acc.acts : acc.acts[i] = acc.acts[j] => i = j
  /\ Turn(q, mem, pol.max, acc.seen, Range(acc.acts), acc.inflight)

LEMMA PlanFleetOneKeeps ==
  ASSUME NEW q, Quieted(q), NEW mem, NEW pol, pol.max \in Nat,
         NEW acc, FleetPlanned(q, mem, pol, acc), NEW key, NEW busy
  PROVE  FleetPlanned(q, mem, pol, PlanFleetOne(acc, key, busy, pol))
<1> DEFINE rec == Record(acc.seen, key)
           sig == {"drift:" \o ToString(drifted[key])}
           new == Renewed(rec, sig, FALSE)
           K == Range(acc.acts)
           last == [seen |-> With(acc.seen, key, Reserved(new, sig, NoStamp)),
                    acts |-> Append(acc.acts, key), inflight |-> acc.inflight + 1]
<1>1. \/ PlanFleetOne(acc, key, busy, pol) = acc
      \/ PlanFleetOne(acc, key, busy, pol) = [acc EXCEPT !.seen = ForgetHealthy(@, key)]
      \/ /\ ~rec.running
         /\ PlanFleetOne(acc, key, busy, pol) =
              [acc EXCEPT !.seen = With(@, key, [rec EXCEPT !.declared = TRUE])]
      \/ ~rec.running /\ PlanFleetOne(acc, key, busy, pol) = [acc EXCEPT !.seen = With(@, key, new)]
      \/ /\ ~rec.running /\ ~CoolingDown(new) /\ ~(acc.inflight >= pol.max)
         /\ PlanFleetOne(acc, key, busy, pol) = last
  BY DEF PlanFleetOne
<1>2. Turn(q, mem, pol.max, acc.seen, K, acc.inflight) /\ IsRecord(rec)
  BY RecordOf DEF FleetPlanned, Turn
<1>3. /\ IsRecord(new) /\ new.age = rec.age /\ new.running = rec.running
      /\ IsRecord(Reserved(new, sig, NoStamp)) /\ Reserved(new, sig, NoStamp).age = 0
      /\ Reserved(new, sig, NoStamp).running
  BY <1>2, ReservedOf
<1>4. /\ IsRecord([rec EXCEPT !.declared = TRUE]) /\ [rec EXCEPT !.declared = TRUE].age = rec.age
      /\ [rec EXCEPT !.declared = TRUE].running = rec.running
  BY <1>2 DEF IsRecord, Fields
<1> HIDE DEF rec, sig, new
<1>5. ASSUME NEW s, Turn(q, mem, pol.max, s, K, acc.inflight)
      PROVE  FleetPlanned(q, mem, pol, [acc EXCEPT !.seen = s])
  BY <1>5 DEF FleetPlanned
<1>6. CASE PlanFleetOne(acc, key, busy, pol) = acc
  BY <1>6
<1>7. CASE PlanFleetOne(acc, key, busy, pol) = [acc EXCEPT !.seen = ForgetHealthy(@, key)]
  <2>1. Turn(q, mem, pol.max, ForgetHealthy(acc.seen, key), K, acc.inflight)
    BY <1>2, TurnForgets
  <2> QED
    BY <1>5, <1>7, <2>1
<1>8. ASSUME NEW x, IsRecord(x), x.age = rec.age, ~x.running, ~rec.running,
             PlanFleetOne(acc, key, busy, pol) = [acc EXCEPT !.seen = With(@, key, x)]
      PROVE  FleetPlanned(q, mem, pol, PlanFleetOne(acc, key, busy, pol))
  <2>1. Turn(q, mem, pol.max, With(acc.seen, key, x), K, acc.inflight)
    BY <1>2, <1>8, TurnTouches DEF rec
  <2> QED
    BY <1>5, <1>8, <2>1
<1>9. CASE /\ ~rec.running /\ ~CoolingDown(new) /\ ~(acc.inflight >= pol.max)
           /\ PlanFleetOne(acc, key, busy, pol) = last
  <2>1. ~(rec.age < Cooldown)
    <3>1. new.attempts \in Nat /\ new.age \in Nat /\ new.age = rec.age
      BY <1>3 DEF IsRecord
    <3>2. PICK b \in Nat : b = Backoff(new.attempts) /\ b >= Cooldown
      BY <3>1, Limits
    <3>3. ~(new.age < b)
      BY <1>9, <3>2 DEF CoolingDown
    <3> QED
      BY <3>1, <3>2, <3>3, Limits
  <2>2. /\ key \notin K
        /\ Turn(q, mem, pol.max, last.seen, K \cup {key}, acc.inflight + 1)
    BY <1>2, <1>3, <1>9, <2>1, TurnReserves DEF rec
  <2> DEFINE acts == Append(acc.acts, key)
             m == Len(acc.acts)
  <2>3. IsList(acc.acts) /\ m \in Nat /\ DOMAIN acc.acts = 1 .. m
    BY ListAppend DEF FleetPlanned, IsList
  <2>4. /\ IsList(acts) /\ DOMAIN acts = 1 .. (m + 1)
        /\ \A i \in 1 .. m : acts[i] = acc.acts[i]
        /\ acts[m + 1] = key
    BY <2>3, ListAppend
  <2>5. last.acts = acts /\ last.inflight = acc.inflight + 1 /\ DOMAIN last = {"seen", "acts", "inflight"}
    OBVIOUS
  <2> HIDE DEF acts, m, last
  <2>6. \A i \in DOMAIN acts : i \in DOMAIN acc.acts \/ i = m + 1
    BY <2>3, <2>4
  <2>7. m + 1 \in DOMAIN acts /\ \A i \in DOMAIN acc.acts : i \in DOMAIN acts
    BY <2>3, <2>4
  <2>8. Range(acts) = K \cup {key}
    BY <2>3, <2>4, <2>6, <2>7 DEF Range
  <2>9. \A i \in DOMAIN acc.acts : acc.acts[i] # key
    BY <2>2 DEF Range
  <2>10. \A i, j \in DOMAIN acts : acts[i] = acts[j] => i = j
    BY <2>3, <2>4, <2>6, <2>9 DEF FleetPlanned
  <2> QED
    BY <1>9, <2>2, <2>4, <2>5, <2>8, <2>10 DEF FleetPlanned
<1> HIDE DEF last
<1> QED
  BY <1>1, <1>3, <1>4, <1>6, <1>7, <1>8, <1>9

LEMMA PlanFleetKeeps ==
  ASSUME NEW q, Quieted(q), NEW mem, Memory(mem), IsFiniteSet(Running(mem)), \A k \in DOMAIN q : Late(q, mem, k),
         IsFiniteSet(Fleet), NEW busy, NEW pol, pol.max \in Nat
  PROVE  FleetPlanned(q, mem, pol, PlanFleet(mem, busy, pol))
<1>0. Len(FleetKeys) \in Nat
  BY FleetKeysLen
<1>1. PICK turn :
        /\ turn[0] = FleetStart(mem)
        /\ \A i \in 1 .. Len(FleetKeys) : turn[i] = PlanFleetOne(turn[i - 1], FleetKeys[i], busy, pol)
        /\ PlanFleet(mem, busy, pol) = turn[Len(FleetKeys)]
  BY <1>0, FleetTurns
<1> DEFINE S == {i \in Nat : i <= Len(FleetKeys) => FleetPlanned(q, mem, pol, turn[i])}
<1>2. FleetPlanned(q, mem, pol, FleetStart(mem))
  <2> DEFINE start == FleetStart(mem)
  <2>1. /\ DOMAIN start = {"seen", "acts", "inflight"}
        /\ start.seen = mem /\ start.acts = <<>> /\ start.inflight = Cardinality(Running(mem))
    BY DEF FleetStart
  <2> HIDE DEF start
  <2>2. Range(<<>>) = {}
    BY ListEmpty DEF Range
  <2>3. Turn(q, mem, pol.max, mem, {}, Cardinality(Running(mem)))
    BY DEF Turn
  <2> QED
    BY <2>1, <2>2, <2>3, ListEmpty DEF FleetPlanned, start
<1>3. 0 \in S
  BY <1>1, <1>2
<1>4. ASSUME NEW n \in Nat, n \in S PROVE n + 1 \in S
  <2> SUFFICES ASSUME n + 1 <= Len(FleetKeys) PROVE FleetPlanned(q, mem, pol, turn[n + 1])
    OBVIOUS
  <2>1. n + 1 \in 1 .. Len(FleetKeys) /\ (n + 1) - 1 = n /\ n <= Len(FleetKeys)
    BY <1>0
  <2>2. FleetPlanned(q, mem, pol, turn[n])
    BY <1>4, <2>1
  <2>3. turn[n + 1] = PlanFleetOne(turn[n], FleetKeys[n + 1], busy, pol)
    BY <1>1, <2>1
  <2> QED
    BY <2>2, <2>3, PlanFleetOneKeeps
<1>5. Nat \subseteq S
  <2> HIDE DEF S
  <2> QED
    BY <1>3, <1>4, Successors
<1>6. FleetPlanned(q, mem, pol, turn[Len(FleetKeys)])
  <2>1. Len(FleetKeys) \in S /\ Len(FleetKeys) <= Len(FleetKeys)
    BY <1>0, <1>5
  <2> QED
    BY <2>1
<1> QED
  BY <1>1, <1>6

-----------------------------------------------------------------------------
(***************************************************************************)
(* What else is done to the memory.                                        *)
(***************************************************************************)
\* What leaves every record running or not, and no older, is no way round the clock.
LEMMA Remembers ==
  ASSUME NEW mem, Memory(mem), NEW new, DOMAIN new = DOMAIN mem,
         \A k \in DOMAIN mem : IsRecord(new[k]) /\ new[k].running = mem[k].running
                               /\ new[k].age <= mem[k].age
  PROVE  /\ Memory(new) /\ Running(new) = Running(mem)
         /\ \A q : Quieted(q) => \A k \in DOMAIN q : Late(q, mem, k) => Late(q, new, k)
<1>1. Memory(new) /\ Running(new) = Running(mem)
  BY DEF Memory, Running
<1>2. ASSUME NEW q, Quieted(q), NEW k \in DOMAIN q, Late(q, mem, k) PROVE Late(q, new, k)
  <2>1. q[k] \in Nat /\ Record(new, k).age \in Nat /\ Record(mem, k).age \in Nat
    BY <1>1, <1>2, RecordOf, Limits DEF Quieted, IsRecord
  <2>2. Record(new, k).age <= Record(mem, k).age
    BY <2>1 DEF Record
  <2> QED
    BY <1>2, <2>1, <2>2 DEF Late
<1> QED
  BY <1>1, <1>2

LEMMA ForgiveOf ==
  ASSUME NEW rec, IsRecord(rec)
  PROVE  IsRecord(Forgive(rec)) /\ Forgive(rec).age = rec.age /\ Forgive(rec).running = rec.running
  BY DEF Forgive, NoRecord, IsRecord, Fields

LEMMA PruneOf ==
  ASSUME NEW mem, Memory(mem), NEW keep
  PROVE  /\ Memory(Prune(mem, keep)) /\ Running(Prune(mem, keep)) = Running(mem)
         /\ \A k : k \in keep \/ k \notin DOMAIN mem \/ k \in DOMAIN Prune(mem, keep) =>
              Record(Prune(mem, keep), k) = Record(mem, k)
<1> DEFINE gone == {k \in DOMAIN mem : ~mem[k].running /\ k \notin keep}
           new == Prune(mem, keep)
<1>1. DOMAIN new = DOMAIN mem \ gone /\ \A k \in DOMAIN new : new[k] = mem[k]
  BY DEF Prune, Drop
<1> HIDE DEF new
<1>2. Memory(new) /\ Running(new) = Running(mem)
  BY <1>1 DEF Memory, Running
<1>3. \A k : k \in keep \/ k \notin DOMAIN mem \/ k \in DOMAIN new => Record(new, k) = Record(mem, k)
  BY <1>1 DEF Record
<1> QED
  BY <1>2, <1>3 DEF new

LEMMA RetryOf ==
  ASSUME NEW mem, Memory(mem), NEW keys
  PROVE  /\ Memory(Retry(mem, keys)) /\ Running(Retry(mem, keys)) = Running(mem)
         /\ \A k : k \notin keys => Record(Retry(mem, keys), k) = Record(mem, k)
<1> DEFINE new == Retry(mem, keys)
           left == {k \in DOMAIN mem : k \notin keys \/ mem[k].running}
<1>1. DOMAIN new = left /\ \A k \in left : new[k] = IF k \in keys THEN Forgive(mem[k]) ELSE mem[k]
  BY DEF Retry
<1> HIDE DEF new
<1>2. \A k \in DOMAIN mem : /\ IsRecord(mem[k]) /\ IsRecord(Forgive(mem[k]))
                            /\ Forgive(mem[k]).running = mem[k].running
  BY ForgiveOf DEF Memory
<1>3. Memory(new) /\ Running(new) = Running(mem)
  BY <1>1, <1>2 DEF Memory, Running
<1>4. \A k : k \notin keys => Record(new, k) = Record(mem, k)
  BY <1>1 DEF Record
<1> QED
  BY <1>3, <1>4 DEF new

LEMMA ReleasedOf ==
  ASSUME NEW mem, Memory(mem), NEW keys
  PROVE  /\ Memory(Released(mem, keys)) /\ Running(Released(mem, keys)) = Running(mem) \ keys
         /\ \A q : Quieted(q) => \A k \in DOMAIN q : Late(q, mem, k) => Late(q, Released(mem, keys), k)
<1> DEFINE new == Released(mem, keys)
<1>1. /\ DOMAIN new = DOMAIN mem
      /\ \A k \in DOMAIN mem :
           new[k] = IF k \in keys THEN [mem[k] EXCEPT !.running = FALSE, !.age = 0] ELSE mem[k]
  BY DEF Released
<1> HIDE DEF new
<1>2. ASSUME NEW k \in DOMAIN mem
      PROVE  /\ IsRecord(new[k]) /\ new[k].age = IF k \in keys THEN 0 ELSE mem[k].age
             /\ new[k].running = IF k \in keys THEN FALSE ELSE mem[k].running
  <2>1. IsRecord(mem[k])
    BY DEF Memory
  <2>2. ASSUME NEW rec, IsRecord(rec)
        PROVE  /\ IsRecord([rec EXCEPT !.running = FALSE, !.age = 0])
               /\ [rec EXCEPT !.running = FALSE, !.age = 0].age = 0
               /\ [rec EXCEPT !.running = FALSE, !.age = 0].running = FALSE
    BY <2>2 DEF IsRecord, Fields
  <2>3. CASE k \in keys
    BY <1>1, <2>1, <2>2, <2>3
  <2>4. CASE k \notin keys
    BY <1>1, <2>1, <2>4
  <2> QED
    BY <2>3, <2>4
<1>3. Memory(new) /\ Running(new) = Running(mem) \ keys
  BY <1>1, <1>2 DEF Memory, Running
<1>4. ASSUME NEW q, Quieted(q), NEW k \in DOMAIN q, Late(q, mem, k) PROVE Late(q, new, k)
  <2>1. q[k] \in 0 .. Cooldown
    BY <1>4 DEF Quieted
  <2>2. Record(new, k).age = Record(mem, k).age \/ Record(new, k).age = 0
    BY <1>1, <1>2 DEF Record
  <2> QED
    BY <1>4, <2>1, <2>2, Limits DEF Late
<1> QED
  BY <1>3, <1>4 DEF new

\* A tick makes the records and the clock older together.
LEMMA TickOf ==
  ASSUME Quieted(quiet), Memory(seen), \A k \in DOMAIN quiet : Late(quiet, seen, k), Tick
  PROVE  /\ Memory(seen)' /\ Running(seen') = Running(seen)
         /\ DOMAIN quiet' = DOMAIN quiet /\ Quieted(quiet)' /\ (\A k \in DOMAIN quiet : Late(quiet, seen, k))'
<1>1. /\ seen' = [k \in DOMAIN seen |-> [seen[k] EXCEPT !.age = Older(@, Aged)]]
      /\ quiet' = [k \in DOMAIN quiet |-> Older(quiet[k], Cooldown)]
  BY DEF Tick
<1>2. \A a, b \in Nat : Older(a, b) \in Nat /\ (a <= b => Older(a, b) <= b) /\ Older(a, b) >= a
                        /\ Older(a, b) <= a + 1 /\ (a < b => Older(a, b) = a + 1)
  BY DEF Older
<1>3. ASSUME NEW k \in DOMAIN seen
      PROVE  /\ IsRecord(seen'[k]) /\ seen'[k].running = seen[k].running
             /\ seen'[k].age = Older(seen[k].age, Aged)
  BY <1>1, <1>2, Limits DEF Memory, IsRecord, Fields
<1>4. DOMAIN seen' = DOMAIN seen /\ DOMAIN quiet' = DOMAIN quiet
      /\ \A k \in DOMAIN quiet : quiet'[k] = Older(quiet[k], Cooldown)
  BY <1>1
<1>5. Memory(seen)' /\ Running(seen') = Running(seen)
  BY <1>3, <1>4 DEF Memory, Running
<1>6. Quieted(quiet)'
  BY <1>2, <1>4, Limits DEF Quieted
<1>7. ASSUME NEW k \in DOMAIN quiet PROVE quiet'[k] < Cooldown => Record(seen', k).age <= quiet'[k]
  <2>1. quiet[k] \in Nat /\ quiet[k] <= Cooldown /\ Late(quiet, seen, k)
    BY Limits DEF Quieted
  <2>2. Record(seen, k).age \in Nat
    BY RecordOf DEF IsRecord
  <2>3. Record(seen', k).age <= Record(seen, k).age + 1
    <3>1. CASE k \in DOMAIN seen
      <4>1. /\ Record(seen', k).age = Older(seen[k].age, Aged) /\ Record(seen, k) = seen[k]
        BY <1>3, <1>4, <3>1 DEF Record
      <4>2. seen[k].age \in Nat /\ Aged \in Nat
        BY <2>2, <4>1, Limits
      <4>3. Older(seen[k].age, Aged) <= seen[k].age + 1
        BY <1>2, <4>2
      <4> QED
        BY <4>1, <4>3
    <3>2. CASE k \notin DOMAIN seen
      BY <1>4, <2>2, <3>2 DEF Record
    <3> QED
      BY <3>1, <3>2
  <2>4. Record(seen', k).age \in Nat
    <3>1. PICK m : m = seen'
      OBVIOUS
    <3>2. Memory(m)
      BY <1>5, <3>1 DEF Memory
    <3> QED
      BY <3>1, <3>2, RecordOf DEF IsRecord
  <2>5. CASE quiet[k] < Cooldown
    <3>1. quiet'[k] = quiet[k] + 1 /\ Record(seen, k).age <= quiet[k]
      BY <1>2, <1>4, <2>1, <2>5, Limits DEF Late
    <3> QED
      BY <2>1, <2>2, <2>3, <2>4, <3>1
  <2>6. CASE quiet[k] = Cooldown
    BY <1>2, <1>4, <2>1, <2>6, Limits DEF Older
  <2> QED
    BY <2>1, <2>5, <2>6, Limits
<1>8. (\A k \in DOMAIN quiet : Late(quiet, seen, k))'
  BY <1>4, <1>7 DEF Late, Record
<1> QED
  BY <1>4, <1>5, <1>6, <1>8

-----------------------------------------------------------------------------
(***************************************************************************)
(* The loop.                                                               *)
(***************************************************************************)
IsChain(c) == DOMAIN c = {"key", "steps", "owner", "live"} /\ c.owner \in {"loop", "user"}

PassShape ==
  /\ pass.phase \in {"none", "plan", "declare", "submit"}
  /\ pass.phase = "plan" => IsList(pass.cands) /\ (pass.now => budget.pressed)
  /\ pass.phase \in {"declare", "submit"} => IsList(pass.acts)

\* The subjects stand still, and a pass has what its phase needs.
Shape ==
  /\ DOMAIN world = budget.repos /\ DOMAIN drifted = budget.fleet /\ IsFiniteSet(Fleet)
  /\ {"repos", "fleet", "settings", "harm", "press", "pressed"} \subseteq DOMAIN budget
  /\ DOMAIN quiet = Subjects \ Tags
  /\ IsFiniteSet(chains) /\ \A c \in chains : IsChain(c)
  /\ PassShape

Clock == Quieted(quiet) /\ Memory(seen) /\ \A k \in DOMAIN quiet : Late(quiet, seen, k)

KeysIn(some) == {c.key : c \in some}

\* Every slot is a planned chain or one accepted and not over, one each.
Slots(mem, acts, owned) ==
  /\ IsFiniteSet(Running(mem))
  /\ Running(mem) = KeysOf(acts) \cup KeysIn(owned)
  /\ \A i, j \in DOMAIN acts : acts[i].key = acts[j].key => i = j
  /\ \A c, d \in owned : c.key = d.key => c = d
  /\ KeysOf(acts) \cap KeysIn(owned) = {}

AutofixInv ==
  /\ Shape
  /\ Clock
  /\ Slots(seen, Pending, Owned)
  /\ ~budget.pressed => Cardinality(Running(seen)) <= MaxRunning
  /\ Bounded(billed)

\* What a step reserves had gone its cooldown.
Spaced == \A k \in DOMAIN quiet : k \in Running(seen') \ Running(seen) => quiet[k] = Cooldown

\* The parts of a step that have nothing to do with the engine.
LEMMA StepStatic ==
  ASSUME Shape, Next
  PROVE  /\ DOMAIN world' = DOMAIN world /\ DOMAIN drifted' = DOMAIN drifted
         /\ DOMAIN budget' = DOMAIN budget /\ budget'.repos = budget.repos /\ budget'.fleet = budget.fleet
         /\ budget'.settings = budget.settings
         /\ budget.pressed => budget'.pressed
         /\ DOMAIN quiet' = DOMAIN quiet
<1> USE DEF Next, env, board, engine, history
<1>1. DOMAIN world' = DOMAIN world
  BY DEF Harmed, LeaveOrReturn, FleetDrifts, Tick, ScanStarts, ScanPublished, WorkerPlans, WorkerPlansNow,
         WorkerDeclares, RunAutoFix, FleetPlans, NextJob, JobSucceeds, JobFails, ChainDone, Settled,
         FixPressed, NowPressed, SettingsSaved
<1>2. DOMAIN drifted' = DOMAIN drifted
  BY DEF Harmed, LeaveOrReturn, FleetDrifts, Tick, ScanStarts, ScanPublished, WorkerPlans, WorkerPlansNow,
         WorkerDeclares, RunAutoFix, FleetPlans, NextJob, JobSucceeds, JobFails, ChainDone, Settled,
         FixPressed, NowPressed, SettingsSaved
<1>3. \/ budget' = budget
      \/ budget' = [budget EXCEPT !.harm = @ - 1]
      \/ budget' = [budget EXCEPT !.press = @ - 1, !.pressed = TRUE]
  BY DEF Harmed, LeaveOrReturn, FleetDrifts, Tick, ScanStarts, ScanPublished, WorkerPlans, WorkerPlansNow,
         WorkerDeclares, RunAutoFix, FleetPlans, NextJob, JobSucceeds, JobFails, ChainDone, Settled,
         FixPressed, NowPressed, SettingsSaved, Press
<1>4. /\ DOMAIN budget' = DOMAIN budget /\ budget'.repos = budget.repos /\ budget'.fleet = budget.fleet
      /\ budget'.settings = budget.settings
      /\ budget.pressed => budget'.pressed
  BY <1>3 DEF Shape
<1>5. DOMAIN quiet' = DOMAIN quiet
  BY DEF Harmed, LeaveOrReturn, FleetDrifts, Tick, ScanStarts, ScanPublished, WorkerPlans, WorkerPlansNow,
         WorkerDeclares, RunAutoFix, FleetPlans, NextJob, JobSucceeds, JobFails, ChainDone, Settled,
         FixPressed, NowPressed, SettingsSaved, Charge, Calm
<1> QED
  BY <1>1, <1>2, <1>4, <1>5

LEMMA ShapeKeeps ==
  ASSUME Shape, Next, PassShape',
         IsFiniteSet(chains'), \A c \in chains' : IsChain(c)
  PROVE  Shape'
  BY StepStatic DEF Shape, Repos, Fleet, Subjects

\* A step that reserves nothing and bills nothing.
LEMMA StepKeeps ==
  ASSUME AutofixInv, Next, PassShape',
         IsFiniteSet(chains'), \A c \in chains' : IsChain(c),
         Clock', Slots(seen', Pending', Owned'), Running(seen') \subseteq Running(seen), Bounded(billed)'
  PROVE  AutofixInv' /\ Spaced
<1>1. Shape'
  BY ShapeKeeps DEF AutofixInv
<1>2. ~budget'.pressed => Cardinality(Running(seen')) <= MaxRunning
  <2>1. IsFiniteSet(Running(seen)) /\ (budget.pressed => budget'.pressed)
    BY StepStatic DEF AutofixInv, Slots
  <2>2. Cardinality(Running(seen')) <= Cardinality(Running(seen)) /\ Cardinality(Running(seen')) \in Nat
        /\ Cardinality(Running(seen)) \in Nat
    BY <2>1, FS_Subset, FS_CardinalityType
  <2> QED
    BY <2>1, <2>2, Limits DEF AutofixInv
<1>3. Spaced
  BY DEF Spaced
<1> QED
  BY <1>1, <1>2, <1>3 DEF AutofixInv, Running

\* A step that leaves the pass alone.
LEMMA PassStays ==
  ASSUME Shape, Next, pass' = pass
  PROVE  PassShape' /\ Pending' = Pending
  BY StepStatic DEF Shape, PassShape, Pending

LEMMA BillStays ==
  ASSUME Bounded(billed), Next, Shape, billed' = billed
  PROVE  Bounded(billed)'
  BY StepStatic DEF Bounded, Repos

LEMMA RestKeeps ==
  ASSUME AutofixInv, Next, UNCHANGED <<seen, billed, quiet, pass, chains>>
  PROVE  AutofixInv' /\ Spaced
<1>1. PassShape' /\ Pending' = Pending /\ Bounded(billed)' /\ Owned' = Owned
  BY PassStays, BillStays DEF AutofixInv, Owned
<1>2. Clock'
  BY DEF AutofixInv, Clock, Quieted, Memory, Late, Record
<1>3. Slots(seen', Pending', Owned') /\ Running(seen') \subseteq Running(seen)
  BY <1>1 DEF AutofixInv
<1>4. IsFiniteSet(chains') /\ \A c \in chains' : IsChain(c)
  BY DEF AutofixInv, Shape
<1> QED
  BY <1>1, <1>2, <1>3, <1>4, StepKeeps

LEMMA CandidatesList ==
  ASSUME NEW view, NEW scope
  PROVE  IsList(Candidates(view, scope))
<1> DEFINE I == {i \in DOMAIN Order : Order[i] \in scope}
           n == Cardinality(I)
           listed == Picked(Order, I)
           cands == [i \in DOMAIN listed |-> Candidate(listed[i], view[listed[i]])]
<1>1. Len(Order) \in Nat /\ DOMAIN Order = 1 .. Len(Order)
  BY AutofixAssumptions
<1>2. n \in Nat
  <2>1. IsFiniteSet(1 .. Len(Order)) /\ I \in SUBSET (1 .. Len(Order))
    BY <1>1, FS_Interval
  <2> HIDE DEF I
  <2> QED
    BY <2>1, FS_Subset, FS_CardinalityType
<1>3. DOMAIN listed = 1 .. n
  BY DEF Picked
<1>4. DOMAIN cands = 1 .. n /\ cands = [i \in 1 .. n |-> cands[i]]
  BY <1>3
<1>5. Candidates(view, scope) = cands
  BY DEF Candidates
<1> HIDE DEF cands, n
<1> QED
  BY <1>2, <1>4, <1>5, ListOf

LEMMA TickKeeps ==
  ASSUME AutofixInv, Next, Tick
  PROVE  AutofixInv' /\ Spaced
<1>1. PassShape' /\ Pending' = Pending /\ Owned' = Owned /\ chains' = chains
  BY PassStays DEF AutofixInv, Owned, Tick
<1>2. Clock' /\ Running(seen') = Running(seen)
  BY TickOf DEF AutofixInv, Clock
<1>3. Slots(seen', Pending', Owned')
  BY <1>1, <1>2 DEF AutofixInv, Slots
<1>4. Bounded(billed)'
  <2>1. DOMAIN billed' = Repos /\ Repos' = Repos /\ \A r \in Repos : billed'[r] = Trimmed(billed[r])
    BY StepStatic DEF Tick, AutofixInv, Shape, Repos
  <2>2. ASSUME NEW r \in Repos PROVE IsList(billed'[r]) /\ Len(billed'[r]) <= MeteredPerDay
    <3>1. Len(billed[r]) \in Nat /\ DOMAIN billed[r] = 1 .. Len(billed[r]) /\ Len(billed[r]) <= MeteredPerDay
      BY DEF AutofixInv, Bounded, IsList
    <3>2. IsList(Trimmed(billed[r])) /\ Len(Trimmed(billed[r])) <= Len(billed[r])
      BY <3>1, ListPicked DEF Trimmed
    <3> QED
      BY <2>1, <3>1, <3>2, Limits DEF IsList
  <2> QED
    BY <2>1, <2>2 DEF Bounded
<1> QED
  BY <1>1, <1>2, <1>3, <1>4, StepKeeps DEF AutofixInv, Shape

\* What the user forgives starts with a calm clock.
LEMMA CalmOf ==
  ASSUME Clock, NEW keys, Calm(keys), seen' = Retry(seen, keys)
  PROVE  Clock' /\ Running(seen') = Running(seen)
<1>1. /\ Memory(seen)' /\ Running(seen') = Running(seen)
      /\ \A k : k \notin keys => Record(seen', k) = Record(seen, k)
  BY RetryOf DEF Clock, Memory
<1>2. DOMAIN quiet' = DOMAIN quiet /\ \A k \in DOMAIN quiet : quiet'[k] = IF k \in keys THEN Cooldown ELSE quiet[k]
  BY DEF Calm
<1>3. Quieted(quiet)'
  BY <1>2, Limits DEF Clock, Quieted
<1>4. \A k \in DOMAIN quiet : quiet'[k] < Cooldown => Record(seen', k).age <= quiet'[k]
  BY <1>1, <1>2, Limits DEF Clock, Late
<1> QED
  BY <1>1, <1>2, <1>3, <1>4 DEF Clock, Late, Record

LEMMA SettingsKeep ==
  ASSUME AutofixInv, Next, SettingsSaved
  PROVE  AutofixInv' /\ Spaced
<1>1. /\ PassShape' /\ Pending' = Pending /\ Bounded(billed)' /\ Owned' = Owned
      /\ chains' = chains /\ quiet' = quiet
  BY PassStays, BillStays DEF AutofixInv, Owned, SettingsSaved, history
<1>2. seen' = Reset(seen) /\ DOMAIN seen' = DOMAIN seen
  BY DEF SettingsSaved, Reset
<1>3. \A k \in DOMAIN seen : IsRecord(seen'[k]) /\ seen'[k].running = seen[k].running
                             /\ seen'[k].age <= seen[k].age
  BY <1>2, ForgiveOf DEF Reset, AutofixInv, Clock, Memory, IsRecord
<1>4. /\ Memory(seen') /\ Running(seen') = Running(seen)
      /\ \A k \in DOMAIN quiet : Late(quiet, seen', k)
  BY <1>2, <1>3, Remembers DEF AutofixInv, Clock
<1>5. Clock'
  BY <1>1, <1>4 DEF AutofixInv, Clock, Quieted, Memory, Late, Record
<1>6. Slots(seen', Pending', Owned')
  BY <1>1, <1>4 DEF AutofixInv, Slots
<1> QED
  BY <1>1, <1>4, <1>5, <1>6, StepKeeps DEF AutofixInv, Shape

LEMMA FixKeeps ==
  ASSUME AutofixInv, Next, NEW r, FixPressed(r)
  PROVE  AutofixInv' /\ Spaced
<1>1. PassShape' /\ Pending' = Pending /\ Bounded(billed)'
  BY PassStays, BillStays DEF AutofixInv, FixPressed
<1>2. Clock' /\ Running(seen') = Running(seen)
  BY CalmOf DEF AutofixInv, FixPressed
<1>3. PICK plan : chains' = chains \cup {Chain(r, plan, "user")}
  BY DEF FixPressed
<1>4. IsChain(Chain(r, plan, "user")) /\ Chain(r, plan, "user").owner # "loop"
  BY DEF Chain, IsChain
<1>5. IsFiniteSet(chains') /\ \A c \in chains' : IsChain(c)
  BY <1>3, <1>4, FS_AddElement DEF AutofixInv, Shape
<1>6. Owned' = Owned
  BY <1>3, <1>4 DEF Owned
<1>7. Slots(seen', Pending', Owned')
  BY <1>1, <1>2, <1>6 DEF AutofixInv, Slots
<1> QED
  BY <1>1, <1>2, <1>5, <1>7, StepKeeps

LEMMA NowKeeps ==
  ASSUME AutofixInv, Next, NowPressed
  PROVE  AutofixInv' /\ Spaced
<1>1. PICK scope : /\ seen' = Retry(seen, scope)
                   /\ pass' = [phase |-> "plan", cands |-> Candidates(rows, scope), set |-> set, now |-> TRUE]
                   /\ Calm(scope)
  BY DEF NowPressed
<1>2. Bounded(billed)' /\ chains' = chains /\ Owned' = Owned
  BY BillStays DEF AutofixInv, NowPressed, Owned
<1>3. Clock' /\ Running(seen') = Running(seen)
  BY <1>1, CalmOf DEF AutofixInv
<1>4. PassShape'
  <2>1. budget'.pressed
    BY DEF NowPressed, Press, AutofixInv, Shape
  <2>2. IsList(Candidates(rows, scope))
    BY CandidatesList
  <2> QED
    BY <1>1, <2>1, <2>2 DEF PassShape
<1>5. Pending = <<>> /\ Pending' = <<>>
  BY <1>1 DEF NowPressed, NoPass, Pending
<1>6. Slots(seen', Pending', Owned')
  BY <1>2, <1>3, <1>5 DEF AutofixInv, Slots
<1> QED
  BY <1>2, <1>3, <1>4, <1>6, StepKeeps DEF AutofixInv, Shape

LEMMA ScanKeeps ==
  ASSUME AutofixInv, Next, ScanPublished
  PROVE  AutofixInv' /\ Spaced
<1>1. /\ Bounded(billed)' /\ chains' = chains /\ Owned' = Owned
      /\ seen' = seen /\ quiet' = quiet
  BY BillStays DEF AutofixInv, ScanPublished, Owned, engine, history
<1>2. Clock'
  BY <1>1 DEF AutofixInv, Clock, Quieted, Memory, Late, Record
<1>3. PassShape' /\ Pending' = Pending
  <2>1. CASE pass' = pass
    BY <2>1, PassStays DEF AutofixInv
  <2>2. CASE pass = NoPass /\ pass' = NoPass
    BY <2>2 DEF PassShape, Pending, NoPass
  <2>3. CASE /\ pass = NoPass
             /\ pass' = [phase |-> "plan", cands |-> Candidates(scan[1], DOMAIN scan[1]), set |-> set,
                         now |-> FALSE]
    <3>1. IsList(Candidates(scan[1], DOMAIN scan[1]))
      BY CandidatesList
    <3> QED
      BY <2>3, <3>1 DEF PassShape, Pending, NoPass
  <2> QED
    BY <2>1, <2>2, <2>3 DEF ScanPublished
<1>4. Slots(seen', Pending', Owned') /\ Running(seen') = Running(seen)
  BY <1>1, <1>3 DEF AutofixInv
<1> QED
  BY <1>1, <1>2, <1>3, <1>4, StepKeeps DEF AutofixInv, Shape

LEMMA DeclaresKeep ==
  ASSUME AutofixInv, Next, WorkerDeclares
  PROVE  AutofixInv' /\ Spaced
<1>1. /\ Bounded(billed)' /\ chains' = chains /\ Owned' = Owned /\ quiet' = quiet
      /\ pass.phase = "declare" /\ pass' = [phase |-> "submit", acts |-> pass.acts]
  BY BillStays DEF AutofixInv, WorkerDeclares, Owned, history
<1>2. seen' = Declare(seen, pass.cands, pass.pol) /\ DOMAIN seen' = DOMAIN seen
  BY DEF WorkerDeclares, Declare
<1>3. ASSUME NEW k \in DOMAIN seen
      PROVE  IsRecord(seen'[k]) /\ seen'[k].running = seen[k].running /\ seen'[k].age <= seen[k].age
  <2>1. \E b : seen'[k] = [seen[k] EXCEPT !.declared = b]
    BY <1>2 DEF Declare
  <2>2. IsRecord(seen[k])
    BY DEF AutofixInv, Clock, Memory
  <2> QED
    BY <2>1, <2>2 DEF IsRecord, Fields
<1>4. /\ Memory(seen') /\ Running(seen') = Running(seen)
      /\ \A k \in DOMAIN quiet : Late(quiet, seen', k)
  BY <1>2, <1>3, Remembers DEF AutofixInv, Clock
<1>5. Clock'
  BY <1>1, <1>4 DEF AutofixInv, Clock, Quieted, Memory, Late, Record
<1>6. PassShape' /\ Pending' = Pending
  BY <1>1 DEF AutofixInv, Shape, PassShape, Pending
<1>7. Slots(seen', Pending', Owned')
  BY <1>1, <1>4, <1>6 DEF AutofixInv, Slots
<1> QED
  BY <1>1, <1>4, <1>5, <1>6, <1>7, StepKeeps DEF AutofixInv, Shape

\* A chain that moves on is still the chain of its slot.
LEMMA MovesKeep ==
  ASSUME AutofixInv, Next, NEW c \in chains,
         NEW d, IsChain(d), d.key = c.key, d.owner = c.owner, chains' = (chains \ {c}) \cup {d},
         UNCHANGED <<seen, billed, quiet, pass>>
  PROVE  AutofixInv' /\ Spaced
<1>1. PassShape' /\ Pending' = Pending /\ Bounded(billed)'
  BY PassStays, BillStays DEF AutofixInv
<1>2. Clock' /\ Running(seen') = Running(seen)
  BY DEF AutofixInv, Clock, Quieted, Memory, Late, Record
<1>3. IsFiniteSet(chains') /\ \A e \in chains' : IsChain(e)
  <2>1. IsFiniteSet(chains \ {c})
    BY FS_Subset DEF AutofixInv, Shape
  <2> QED
    BY <2>1, FS_AddElement DEF AutofixInv, Shape
<1>4. KeysIn(Owned') = KeysIn(Owned) /\ \A e, f \in Owned' : e.key = f.key => e = f
  <2>1. CASE c.owner = "loop"
    <3>1. c \in Owned /\ Owned' = (Owned \ {c}) \cup {d} /\ \A e, f \in Owned : e.key = f.key => e = f
      BY <2>1 DEF Owned, AutofixInv, Slots
    <3> HIDE DEF Owned
    <3> QED
      BY <3>1 DEF KeysIn
  <2>2. CASE c.owner # "loop"
    <3>1. Owned' = Owned
      BY <2>2 DEF Owned
    <3> QED
      BY <3>1 DEF AutofixInv, Slots
  <2> QED
    BY <2>1, <2>2
<1>5. Slots(seen', Pending', Owned')
  BY <1>1, <1>2, <1>4 DEF AutofixInv, Slots
<1> QED
  BY <1>1, <1>2, <1>3, <1>5, StepKeeps

LEMMA JobsKeep ==
  ASSUME AutofixInv, Next, NEW c \in chains, NextJob(c) \/ JobSucceeds(c) \/ JobFails(c)
  PROVE  AutofixInv' /\ Spaced
<1>1. IsChain(c)
  BY DEF AutofixInv, Shape
<1>2. UNCHANGED <<seen, billed, quiet, pass>>
  BY DEF NextJob, JobSucceeds, JobFails, engine, history
<1>3. ASSUME NEW live, NEW steps
      PROVE  /\ IsChain([c EXCEPT !.live = live, !.steps = steps])
             /\ [c EXCEPT !.live = live, !.steps = steps].key = c.key
             /\ [c EXCEPT !.live = live, !.steps = steps].owner = c.owner
             /\ IsChain([c EXCEPT !.live = live]) /\ [c EXCEPT !.live = live].key = c.key
             /\ [c EXCEPT !.live = live].owner = c.owner
  BY <1>1 DEF IsChain
<1>4. \E live, steps : \/ chains' = (chains \ {c}) \cup {[c EXCEPT !.live = live]}
                       \/ chains' = (chains \ {c}) \cup {[c EXCEPT !.live = live, !.steps = steps]}
  BY DEF NextJob, JobSucceeds, JobFails
<1> QED
  BY <1>2, <1>3, <1>4, MovesKeep

\* A slot given back is one that no chain and no plan has any more.
LEMMA DoneKeeps ==
  ASSUME AutofixInv, Next, NEW c \in chains, ChainDone(c)
  PROVE  AutofixInv' /\ Spaced
<1>1. /\ PassShape' /\ Pending' = Pending /\ Bounded(billed)' /\ quiet' = quiet
      /\ chains' = chains \ {c} /\ IsChain(c)
  BY PassStays, BillStays DEF AutofixInv, ChainDone, history, Shape
<1>2. IsFiniteSet(chains') /\ \A e \in chains' : IsChain(e)
  BY <1>1, FS_Subset DEF AutofixInv, Shape
<1>3. CASE c.owner = "user"
  <2>1. Owned' = Owned /\ seen' = seen
    BY <1>1, <1>3 DEF Owned, ChainDone
  <2>2. Clock' /\ Slots(seen', Pending', Owned')
    BY <1>1, <2>1 DEF AutofixInv, Clock, Quieted, Memory, Late, Record
  <2> QED
    BY <1>1, <1>2, <2>1, <2>2, StepKeeps
<1>4. CASE c.owner = "loop"
  <2>1. c \in Owned /\ Owned' = Owned \ {c}
    BY <1>1, <1>4 DEF Owned
  <2>2. c.key \in Running(seen)
    BY <2>1 DEF AutofixInv, Slots, KeysIn
  <2>3. /\ Memory(seen') /\ Running(seen') = Running(seen) \ {c.key}
        /\ \A k \in DOMAIN quiet : Late(quiet, seen', k)
    <3>1. CASE seen' = Released(seen, {c.key})
      BY <3>1, ReleasedOf DEF AutofixInv, Clock
    <3>2. CASE seen' = [seen EXCEPT ![c.key].running = FALSE]
      <4>1. ASSUME NEW rec, IsRecord(rec)
            PROVE  /\ IsRecord([rec EXCEPT !.running = FALSE]) /\ [rec EXCEPT !.running = FALSE].age = rec.age
                   /\ [rec EXCEPT !.running = FALSE].running = FALSE
        BY <4>1 DEF IsRecord, Fields
      <4>2. /\ DOMAIN seen' = DOMAIN seen
            /\ \A k \in DOMAIN seen :
                 seen'[k] = IF k = c.key THEN [seen[k] EXCEPT !.running = FALSE] ELSE seen[k]
        BY <3>2
      <4>3. ASSUME NEW k \in DOMAIN seen
            PROVE  /\ IsRecord(seen'[k]) /\ seen'[k].age = seen[k].age
                   /\ seen'[k].running = IF k = c.key THEN FALSE ELSE seen[k].running
        <5>1. IsRecord(seen[k])
          BY DEF AutofixInv, Clock, Memory
        <5>2. CASE k = c.key
          BY <4>1, <4>2, <5>1, <5>2
        <5>3. CASE k # c.key
          BY <4>2, <5>1, <5>3
        <5> QED
          BY <5>2, <5>3
      <4>4. Memory(seen') /\ Running(seen') = Running(seen) \ {c.key}
        BY <4>2, <4>3 DEF Memory, Running
      <4>5. \A k : Record(seen', k).age = Record(seen, k).age
        BY <4>2, <4>3 DEF Record
      <4> QED
        BY <4>4, <4>5 DEF AutofixInv, Clock, Late
    <3> QED
      BY <1>4, <3>1, <3>2 DEF ChainDone
  <2>4. Clock'
    BY <1>1, <2>3 DEF AutofixInv, Clock, Quieted, Memory, Late, Record
  <2>5. KeysIn(Owned') = KeysIn(Owned) \ {c.key} /\ c.key \notin KeysOf(Pending)
        /\ \A e, f \in Owned' : e.key = f.key => e = f
    <3>1. /\ \A e, f \in Owned : e.key = f.key => e = f
          /\ KeysOf(Pending) \cap KeysIn(Owned) = {}
      BY DEF AutofixInv, Slots
    <3> HIDE DEF Owned, Pending
    <3> QED
      BY <2>1, <3>1 DEF KeysIn
  <2>6. IsFiniteSet(Running(seen'))
    BY <2>3, FS_Subset DEF AutofixInv, Slots
  <2>7. Slots(seen', Pending', Owned')
    BY <1>1, <2>3, <2>5, <2>6 DEF AutofixInv, Slots
  <2> QED
    BY <1>1, <1>2, <2>3, <2>4, <2>7, StepKeeps
<1> QED
  BY <1>1, <1>3, <1>4 DEF IsChain

\* What is submitted takes its slot with it; what has left the board gives it back.
LEMMA RunKeeps ==
  ASSUME AutofixInv, Next, RunAutoFix
  PROVE  AutofixInv' /\ Spaced
<1> DEFINE acts == pass.acts
           gone == {i \in DOMAIN acts : acts[i].key \notin DOMAIN rows}
           left == {acts[i].key : i \in gone}
           new == {Chain(acts[i].key, acts[i].steps, "loop") : i \in DOMAIN acts \ gone}
<1>1. /\ Bounded(billed)' /\ quiet' = quiet /\ pass.phase = "submit" /\ pass' = NoPass
      /\ seen' = Released(seen, left) /\ chains' = chains \cup new
  BY BillStays DEF AutofixInv, RunAutoFix, history
<1>2. PassShape' /\ Pending = acts /\ Pending' = <<>>
  BY <1>1 DEF PassShape, Pending, NoPass
<1>3. /\ Memory(seen') /\ Running(seen') = Running(seen) \ left
      /\ \A k \in DOMAIN quiet : Late(quiet, seen', k)
  BY <1>1, ReleasedOf DEF AutofixInv, Clock
<1>4. Clock'
  BY <1>1, <1>3 DEF AutofixInv, Clock, Quieted, Memory, Late, Record
<1>5. \A i \in DOMAIN acts : /\ IsChain(Chain(acts[i].key, acts[i].steps, "loop"))
                             /\ Chain(acts[i].key, acts[i].steps, "loop").owner = "loop"
                             /\ Chain(acts[i].key, acts[i].steps, "loop").key = acts[i].key
  BY DEF Chain, IsChain
<1>6. IsFiniteSet(new)
  <2>1. DOMAIN acts = 1 .. Len(acts) /\ Len(acts) \in Nat
    BY <1>1 DEF AutofixInv, Shape, PassShape, IsList
  <2> DEFINE I == DOMAIN acts \ gone
             f == [i \in I |-> Chain(acts[i].key, acts[i].steps, "loop")]
  <2>2. IsFiniteSet(1 .. Len(acts)) /\ I \in SUBSET (1 .. Len(acts))
    BY <2>1, FS_Interval
  <2>3. f \in Surjection(I, new)
    BY DEF Surjection
  <2> HIDE DEF I, f, new
  <2> QED
    BY <2>2, <2>3, FS_Subset, FS_Surjection
<1>7. IsFiniteSet(chains') /\ \A c \in chains' : IsChain(c)
  BY <1>1, <1>5, <1>6, FS_Union DEF AutofixInv, Shape
<1>8. Owned' = Owned \cup new
  BY <1>1, <1>5 DEF Owned
<1> HIDE DEF acts
<1>9. /\ Running(seen) = KeysOf(acts) \cup KeysIn(Owned)
      /\ \A i, j \in DOMAIN acts : acts[i].key = acts[j].key => i = j
      /\ \A c, d \in Owned : c.key = d.key => c = d
      /\ KeysOf(acts) \cap KeysIn(Owned) = {} /\ IsFiniteSet(Running(seen))
  BY <1>2 DEF AutofixInv, Slots
<1>10. /\ KeysIn(new) = KeysOf(acts) \ left
       /\ \A c, d \in new : c.key = d.key => c = d
  <2>1. KeysIn(new) = {acts[i].key : i \in DOMAIN acts \ gone}
    BY <1>5 DEF KeysIn
  <2>2. \A i \in DOMAIN acts \ gone : acts[i].key \notin left
    OBVIOUS
  <2> QED
    BY <1>5, <1>9, <2>1, <2>2 DEF KeysOf
<1>11. left \subseteq KeysOf(acts)
  BY DEF KeysOf
<1> HIDE DEF left, new
<1>12. KeysIn(Owned') = KeysIn(Owned) \cup KeysIn(new)
  BY <1>8 DEF KeysIn
<1>13. ASSUME NEW c \in Owned, NEW d \in new PROVE c.key # d.key
  BY <1>9, <1>10 DEF KeysIn
<1>14. \A c, d \in Owned' : c.key = d.key => c = d
  BY <1>8, <1>9, <1>10, <1>13
<1>15. Running(seen') = KeysIn(Owned')
  BY <1>3, <1>9, <1>10, <1>11, <1>12
<1>16. Slots(seen', Pending', Owned')
  <2>1. KeysOf(<<>>) = {}
    BY ListEmpty DEF KeysOf
  <2>2. IsFiniteSet(Running(seen'))
    BY <1>3, <1>9, FS_Subset
  <2> QED
    BY <1>2, <1>14, <1>15, <2>1, <2>2, ListEmpty DEF Slots
<1> QED
  BY <1>1, <1>2, <1>3, <1>4, <1>7, <1>16, StepKeeps

\* A plan: what it reserves is pending, its records and the clock start anew.
LEMMA PlannedKeeps ==
  ASSUME AutofixInv, Next, NEW mem, Running(mem) = Running(seen), NEW keys, NEW pol, NEW out,
         NEW q, DOMAIN q = DOMAIN quiet, Quieted(q), \A k \in keys \cap DOMAIN quiet : q[k] = quiet[k],
         Planned(q, keys, mem, billed, pol, out), budget.pressed \/ pol.max = MaxRunning,
         Pending = <<>>, chains' = chains, PassShape', Pending' = out.acts,
         seen' = out.seen, billed' = out.billed,
         \A k \in DOMAIN quiet : quiet'[k] = IF k \in KeysOf(out.acts) THEN 0 ELSE q[k]
  PROVE  AutofixInv' /\ Spaced
<1> DEFINE K == KeysOf(out.acts)
<1>1. /\ Memory(seen') /\ IsFiniteSet(Running(seen')) /\ out.inflight = Cardinality(Running(seen'))
      /\ K = {} \/ out.inflight <= pol.max
      /\ Running(seen') = Running(seen) \cup K /\ K \cap Running(seen) = {}
      /\ \A k \in DOMAIN quiet : IF k \in K THEN q[k] = Cooldown /\ Record(seen', k).age = 0
                                 ELSE Late(q, seen', k)
      /\ \A i, j \in DOMAIN out.acts : out.acts[i].key = out.acts[j].key => i = j
      /\ K \subseteq keys
  <2>1. /\ Turn(q, mem, pol.max, out.seen, K, out.inflight)
        /\ \A i, j \in DOMAIN out.acts : out.acts[i].key = out.acts[j].key => i = j
        /\ \A i \in DOMAIN out.acts : out.acts[i].key \in keys
    BY DEF Planned
  <2>2. K \subseteq keys
    BY <2>1 DEF KeysOf
  <2> HIDE DEF K
  <2>3. Turn(q, mem, pol.max, seen', K, out.inflight)
    BY <2>1
  <2>4. /\ Memory(seen') /\ IsFiniteSet(Running(seen')) /\ out.inflight = Cardinality(Running(seen'))
        /\ K = {} \/ out.inflight <= pol.max
        /\ Running(seen') = Running(mem) \cup K /\ K \cap Running(mem) = {}
    BY <2>3 DEF Turn
  <2>5. \A k \in DOMAIN quiet : IF k \in K THEN q[k] = Cooldown /\ Record(seen', k).age = 0
                                ELSE Late(q, seen', k)
    BY <2>3 DEF Turn
  <2> QED
    BY <2>1, <2>2, <2>4, <2>5
<1> HIDE DEF K
<1>2. DOMAIN quiet' = DOMAIN quiet /\ \A k \in DOMAIN quiet : quiet'[k] = IF k \in K THEN 0 ELSE q[k]
  BY StepStatic DEF AutofixInv, K
<1>3. Clock'
  <2>1. Quieted(quiet')
    BY <1>2, Limits DEF Quieted
  <2>2. \A k \in DOMAIN quiet : Late(quiet', seen', k)
    BY <1>1, <1>2 DEF Late
  <2> QED
    BY <1>1, <1>2, <2>1, <2>2 DEF Clock, Quieted, Memory, Late, Record
<1>4. Owned' = Owned /\ KeysOf(<<>>) = {}
  BY ListEmpty DEF Owned, KeysOf
<1>5. /\ Running(seen) = KeysIn(Owned)
      /\ \A c, d \in Owned : c.key = d.key => c = d
  BY <1>4 DEF AutofixInv, Slots
<1>6. Slots(seen', Pending', Owned')
  BY <1>1, <1>4, <1>5 DEF Slots, K
<1>7. Spaced
  BY <1>1 DEF Spaced
<1>8. Bounded(billed)'
  <2>1. Repos' = Repos
    BY StepStatic DEF AutofixInv, Repos
  <2>2. ASSUME NEW r \in Repos PROVE IsList(billed'[r]) /\ Len(billed'[r]) <= MeteredPerDay
    BY ListAppend DEF Planned, AutofixInv, Bounded
  <2> QED
    BY <2>1, <2>2 DEF Planned, Bounded
<1>9. Shape'
  BY ShapeKeeps DEF AutofixInv, Shape
<1>10. ASSUME ~budget'.pressed PROVE Cardinality(Running(seen')) <= MaxRunning
  <2>1. ~budget.pressed
    BY <1>10, StepStatic DEF AutofixInv
  <2>2. CASE K = {}
    <3>1. Running(seen') = Running(seen)
      BY <1>1, <2>2
    <3> QED
      BY <2>1, <3>1 DEF AutofixInv
  <2>3. CASE K # {}
    BY <1>1, <2>1, <2>3
  <2> QED
    BY <2>2, <2>3
<1> QED
  BY <1>3, <1>6, <1>7, <1>8, <1>9, <1>10 DEF AutofixInv, Running

LEMMA PlansKeep ==
  ASSUME AutofixInv, Next, WorkerPlans
  PROVE  AutofixInv' /\ Spaced
<1> DEFINE kept == Prune(seen, Keys(pass.cands) \cup Fleet)
           left == DOMAIN seen \ DOMAIN kept
           q == [k \in DOMAIN quiet |-> IF k \in left THEN Cooldown ELSE quiet[k]]
<1>1. PICK up \in BOOLEAN :
        LET pol == Policy(pass.set, up, MaxRunning)
            out == Plan(kept, billed, pass.cands, pol)
        IN  /\ seen' = out.seen /\ billed' = out.billed
            /\ pass' = [phase |-> "declare", cands |-> pass.cands, acts |-> out.acts, pol |-> pol]
            /\ Charge(out.acts, pol, left)
  BY DEF WorkerPlans
<1> DEFINE pol == Policy(pass.set, up, MaxRunning)
           out == Plan(kept, billed, pass.cands, pol)
<1>2. pass.phase = "plan" /\ Pending = <<>> /\ chains' = chains /\ IsList(pass.cands)
  BY DEF WorkerPlans, Pending, AutofixInv, Shape, PassShape
<1>3. pol.max = MaxRunning
  BY DEF Policy
<1> HIDE DEF pol
<1>4. /\ Memory(kept) /\ Running(kept) = Running(seen)
      /\ \A k : k \in Keys(pass.cands) \cup Fleet \/ k \notin left => Record(kept, k) = Record(seen, k)
  BY PruneOf DEF AutofixInv, Clock
<1>5. \A k \in Keys(pass.cands) : k \notin left
  BY DEF Prune, Drop
<1> HIDE DEF kept, left
<1>6. DOMAIN q = DOMAIN quiet /\ \A k \in DOMAIN quiet : q[k] = IF k \in left THEN Cooldown ELSE quiet[k]
  OBVIOUS
<1> HIDE DEF q
<1>7. Quieted(q)
  BY <1>6, Limits DEF AutofixInv, Clock, Quieted
<1>8. \A k \in DOMAIN q : Late(q, kept, k)
  BY <1>4, <1>6, Limits DEF AutofixInv, Clock, Late
<1>9. Planned(q, Keys(pass.cands), kept, billed, pol, out)
  <2>1. IsFiniteSet(Running(kept)) /\ Bounded(billed) /\ pol.max \in Nat
    BY <1>3, <1>4, Limits DEF AutofixInv, Slots
  <2> QED
    BY <1>2, <1>4, <1>7, <1>8, <2>1, PlanKeeps
<1> HIDE DEF out
<1>10. /\ seen' = out.seen /\ billed' = out.billed
       /\ pass' = [phase |-> "declare", cands |-> pass.cands, acts |-> out.acts, pol |-> pol]
       /\ Charge(out.acts, pol, left)
  BY <1>1 DEF out, pol
<1>11. \A k \in DOMAIN quiet : quiet'[k] = IF k \in KeysOf(out.acts) THEN 0 ELSE q[k]
  BY <1>6, <1>10 DEF Charge, KeysOf
<1>12. Pending' = out.acts /\ PassShape'
  BY <1>9, <1>10 DEF Pending, PassShape, Planned
<1> QED
  BY <1>2, <1>3, <1>4, <1>5, <1>6, <1>7, <1>9, <1>10, <1>11, <1>12, PlannedKeeps

LEMMA PlansNowKeep ==
  ASSUME AutofixInv, Next, WorkerPlansNow
  PROVE  AutofixInv' /\ Spaced
<1>1. PICK up \in BOOLEAN :
        LET pol == Policy(pass.set, up, Len(pass.cands))
            out == Plan(seen, billed, pass.cands, pol)
        IN  \/ /\ seen' = out.seen /\ billed' = out.billed
               /\ pass' = [phase |-> "submit", acts |-> out.acts]
               /\ Charge(out.acts, pol, {})
            \/ /\ seen' = seen /\ billed' = billed
               /\ pass' = [phase |-> "submit", acts |-> <<>>]
               /\ Charge(<<>>, pol, {})
  BY DEF WorkerPlansNow
<1> DEFINE pol == Policy(pass.set, up, Len(pass.cands))
           out == Plan(seen, billed, pass.cands, pol)
<1>2. /\ pass.phase = "plan" /\ Pending = <<>> /\ chains' = chains /\ IsList(pass.cands)
      /\ budget.pressed
  BY DEF WorkerPlansNow, Pending, AutofixInv, Shape, PassShape
<1>3. pol.max = Len(pass.cands)
  BY DEF Policy
<1> HIDE DEF pol
<1>4. Planned(quiet, Keys(pass.cands), seen, billed, pol, out)
  <2>1. /\ IsFiniteSet(Running(seen)) /\ Bounded(billed) /\ pol.max \in Nat /\ Memory(seen)
        /\ Quieted(quiet) /\ \A k \in DOMAIN quiet : Late(quiet, seen, k)
    BY <1>2, <1>3 DEF AutofixInv, Slots, Clock, IsList
  <2> QED
    BY <1>2, <2>1, PlanKeeps
<1> HIDE DEF out
<1>5. CASE /\ seen' = out.seen /\ billed' = out.billed
           /\ pass' = [phase |-> "submit", acts |-> out.acts]
           /\ Charge(out.acts, pol, {})
  <2>1. \A k \in DOMAIN quiet : quiet'[k] = IF k \in KeysOf(out.acts) THEN 0 ELSE quiet[k]
    BY <1>5 DEF Charge, KeysOf
  <2>2. Pending' = out.acts /\ PassShape'
    BY <1>4, <1>5 DEF Pending, PassShape, Planned
  <2>3. Quieted(quiet)
    BY DEF AutofixInv, Clock
  <2> QED
    BY <1>2, <1>4, <1>5, <2>1, <2>2, <2>3, PlannedKeeps
<1>6. CASE /\ seen' = seen /\ billed' = billed
           /\ pass' = [phase |-> "submit", acts |-> <<>>]
           /\ Charge(<<>>, pol, {})
  <2>1. DOMAIN quiet' = DOMAIN quiet /\ \A k \in DOMAIN quiet : quiet'[k] = quiet[k]
    BY <1>6, ListEmpty DEF Charge
  <2>2. Clock'
    BY <1>6, <2>1 DEF AutofixInv, Clock, Quieted, Memory, Late, Record
  <2>3. Pending' = <<>> /\ PassShape' /\ Owned' = Owned
    BY <1>2, <1>6, ListEmpty DEF Pending, PassShape, Owned
  <2>4. Slots(seen', Pending', Owned') /\ Bounded(billed)'
    BY <1>2, <1>6, <2>3, BillStays DEF AutofixInv
  <2> QED
    BY <1>2, <1>6, <2>2, <2>3, <2>4, StepKeeps DEF AutofixInv, Shape
<1> QED
  BY <1>1, <1>5, <1>6 DEF pol, out

\* A fleet pass plans and submits in one step.
LEMMA FleetPlansKeep ==
  ASSUME AutofixInv, Next, FleetPlans
  PROVE  AutofixInv' /\ Spaced
<1> DEFINE kept == Prune(seen, Repos \cup (Fleet \ Tags) \cup {t \in Fleet : drifted[t] > 0})
<1>0. PICK i \in DOMAIN fleet, up \in BOOLEAN :
        \E out \in {PlanFleet(kept, fleet[i].busy, Policy(fleet[i].set, up, MaxRunning))} :
          /\ seen' = out.seen
          /\ chains' = chains \cup {Chain(out.acts[n], <<Step("fleet")>>, "loop") : n \in DOMAIN out.acts}
          /\ quiet' = [k \in DOMAIN quiet |-> IF k \in Range(out.acts) THEN 0 ELSE quiet[k]]
  BY Zenon DEF FleetPlans
<1>1. PICK out \in {PlanFleet(kept, fleet[i].busy, Policy(fleet[i].set, up, MaxRunning))} :
        /\ seen' = out.seen
        /\ chains' = chains \cup {Chain(out.acts[n], <<Step("fleet")>>, "loop") : n \in DOMAIN out.acts}
        /\ quiet' = [k \in DOMAIN quiet |-> IF k \in Range(out.acts) THEN 0 ELSE quiet[k]]
  <2> HIDE DEF kept
  <2> QED
    BY Zenon, <1>0
<1> DEFINE pol == Policy(fleet[i].set, up, MaxRunning)
           K == Range(out.acts)
           new == {Chain(out.acts[n], <<Step("fleet")>>, "loop") : n \in DOMAIN out.acts}
<1>2. pass' = pass /\ billed' = billed
  BY DEF FleetPlans
<1>3. pol.max = MaxRunning
  BY DEF Policy
<1>4. Memory(kept) /\ Running(kept) = Running(seen) /\ \A k \in DOMAIN quiet : Late(quiet, kept, k)
  <2>1. DOMAIN quiet \subseteq Repos \cup (Fleet \ Tags)
    BY DEF AutofixInv, Shape, Subjects
  <2>2. Memory(seen) /\ \A k \in DOMAIN quiet : Late(quiet, seen, k)
    BY DEF AutofixInv, Clock
  <2>3. \A k \in DOMAIN quiet : Record(kept, k) = Record(seen, k)
    BY <2>1, <2>2, PruneOf
  <2> QED
    BY <2>2, <2>3, PruneOf DEF Late
<1> HIDE DEF kept, pol
<1>5. FleetPlanned(quiet, kept, pol, out)
  <2>1. /\ Quieted(quiet) /\ IsFiniteSet(Running(kept)) /\ IsFiniteSet(Fleet) /\ pol.max \in Nat
    BY <1>3, <1>4, Limits DEF AutofixInv, Clock, Slots, Shape
  <2> QED
    BY <1>1, <1>4, <2>1, PlanFleetKeeps DEF pol
<1>6. /\ seen' = out.seen /\ chains' = chains \cup new
      /\ quiet' = [k \in DOMAIN quiet |-> IF k \in K THEN 0 ELSE quiet[k]]
  BY <1>1
<1>7. /\ IsList(out.acts) /\ \A m, n \in DOMAIN out.acts : out.acts[m] = out.acts[n] => m = n
      /\ Turn(quiet, kept, pol.max, out.seen, K, out.inflight)
  BY <1>5 DEF FleetPlanned
<1>8. \A n \in DOMAIN out.acts : /\ IsChain(Chain(out.acts[n], <<Step("fleet")>>, "loop"))
                                 /\ Chain(out.acts[n], <<Step("fleet")>>, "loop").owner = "loop"
                                 /\ Chain(out.acts[n], <<Step("fleet")>>, "loop").key = out.acts[n]
  BY DEF Chain, IsChain
<1>9. IsFiniteSet(new)
  <2> DEFINE f == [n \in DOMAIN out.acts |-> Chain(out.acts[n], <<Step("fleet")>>, "loop")]
  <2>1. DOMAIN out.acts = 1 .. Len(out.acts) /\ Len(out.acts) \in Nat
    BY <1>7 DEF IsList
  <2>2. IsFiniteSet(DOMAIN out.acts)
    BY <2>1, FS_Interval
  <2>3. f \in Surjection(DOMAIN out.acts, new)
    BY DEF Surjection
  <2> HIDE DEF f, new
  <2> QED
    BY <2>2, <2>3, FS_Surjection
<1>10. KeysIn(new) = K /\ \A c, d \in new : c.key = d.key => c = d
  <2>1. KeysIn(new) = {out.acts[n] : n \in DOMAIN out.acts}
    BY <1>8 DEF KeysIn
  <2> QED
    BY <1>7, <1>8, <2>1 DEF Range
<1>11. Owned' = Owned \cup new
  BY <1>6, <1>8 DEF Owned
<1>12. IsFiniteSet(chains') /\ \A c \in chains' : IsChain(c)
  BY <1>6, <1>8, <1>9, FS_Union DEF AutofixInv, Shape
<1> HIDE DEF K, new
<1>13. /\ Memory(seen') /\ IsFiniteSet(Running(seen')) /\ out.inflight = Cardinality(Running(seen'))
       /\ K = {} \/ Cardinality(Running(seen')) <= MaxRunning
       /\ Running(seen') = Running(seen) \cup K /\ K \cap Running(seen) = {}
  <2>1. Turn(quiet, kept, pol.max, seen', K, out.inflight)
    BY <1>6, <1>7
  <2> QED
    BY <1>3, <1>4, <2>1 DEF Turn
<1>14. \A k \in DOMAIN quiet : IF k \in K THEN quiet[k] = Cooldown /\ Record(seen', k).age = 0
                               ELSE Late(quiet, seen', k)
  <2>1. Turn(quiet, kept, pol.max, seen', K, out.inflight)
    BY <1>6, <1>7
  <2> QED
    BY <2>1 DEF Turn
<1>15. Clock'
  <2>1. DOMAIN quiet' = DOMAIN quiet /\ \A k \in DOMAIN quiet : quiet'[k] = IF k \in K THEN 0 ELSE quiet[k]
    BY <1>6
  <2>2. Quieted(quiet')
    BY <2>1, Limits DEF AutofixInv, Clock, Quieted
  <2>3. \A k \in DOMAIN quiet : Late(quiet', seen', k)
    BY <1>14, <2>1 DEF Late
  <2> QED
    BY <1>13, <2>1, <2>2, <2>3 DEF Clock, Quieted, Memory, Late, Record
<1>16. PassShape' /\ Pending' = Pending /\ Bounded(billed)'
  BY <1>2, PassStays, BillStays DEF AutofixInv
<1>17. Slots(seen', Pending', Owned')
  <2>1. /\ Running(seen) = KeysOf(Pending) \cup KeysIn(Owned)
        /\ \A m, n \in DOMAIN Pending : Pending[m].key = Pending[n].key => m = n
        /\ \A c, d \in Owned : c.key = d.key => c = d
        /\ KeysOf(Pending) \cap KeysIn(Owned) = {}
    BY DEF AutofixInv, Slots
  <2>2. KeysIn(Owned') = KeysIn(Owned) \cup K
    BY <1>10, <1>11 DEF KeysIn
  <2>3. ASSUME NEW c \in Owned, NEW d \in new PROVE c.key # d.key
    BY <1>10, <1>13, <2>1 DEF KeysIn
  <2>4. \A c, d \in Owned' : c.key = d.key => c = d
    BY <1>10, <1>11, <2>1, <2>3
  <2> HIDE DEF Owned, Pending
  <2>5. Running(seen') = KeysOf(Pending) \cup KeysIn(Owned') /\ KeysOf(Pending) \cap KeysIn(Owned') = {}
    BY <1>13, <2>1, <2>2
  <2> QED
    BY <1>13, <1>16, <2>1, <2>4, <2>5 DEF Slots
<1>18. Spaced
  BY <1>13, <1>14 DEF Spaced
<1>19. Shape'
  BY <1>12, <1>16, ShapeKeeps DEF AutofixInv
<1>20. ASSUME ~budget'.pressed PROVE Cardinality(Running(seen')) <= MaxRunning
  <2>1. ~budget.pressed
    BY <1>20, StepStatic DEF AutofixInv
  <2>2. CASE K = {}
    <3>1. Running(seen') = Running(seen)
      BY <1>13, <2>2
    <3> QED
      BY <2>1, <3>1 DEF AutofixInv
  <2>3. CASE K # {}
    BY <1>13, <2>3
  <2> QED
    BY <2>2, <2>3
<1> QED
  BY <1>15, <1>16, <1>17, <1>18, <1>19, <1>20 DEF AutofixInv, Running

(***************************************************************************)
(* The inductive invariant.                                                *)
(***************************************************************************)
LEMMA InitAutofix == Init => AutofixInv
<1> SUFFICES ASSUME Init PROVE AutofixInv
  OBVIOUS
<1>1. /\ budget.repos \cap budget.fleet = {} /\ IsFiniteSet(budget.fleet)
      /\ {"repos", "fleet", "settings", "harm", "press", "pressed"} \subseteq DOMAIN budget
  BY AutofixAssumptions DEF Init
<1>2. DOMAIN world = budget.repos /\ DOMAIN drifted = budget.fleet /\ DOMAIN quiet = Subjects \ Tags
  BY DEF Init
<1>3. Shape
  <2>1. chains = {} /\ pass = NoPass
    BY DEF Init
  <2>2. PassShape
    BY <2>1 DEF PassShape, NoPass
  <2> QED
    BY <1>1, <1>2, <2>1, <2>2, FS_EmptySet DEF Shape, Fleet
<1>4. seen = <<>> /\ DOMAIN seen = {} /\ Running(seen) = {}
  BY ListEmpty DEF Init, Running
<1>5. Clock
  <2>1. \A k \in DOMAIN quiet : quiet[k] = Cooldown
    BY DEF Init
  <2> QED
    BY <1>4, <2>1, Limits DEF Clock, Quieted, Memory, Late
<1>6. Slots(seen, Pending, Owned)
  <2>1. Pending = <<>> /\ Owned = {}
    BY DEF Init, Pending, NoPass, Owned
  <2> QED
    BY <1>4, <2>1, ListEmpty, FS_EmptySet DEF Slots, KeysOf, KeysIn
<1>7. Cardinality(Running(seen)) <= MaxRunning
  <2>1. Cardinality(Running(seen)) = 0 /\ MaxRunning \in Nat
    BY <1>4, FS_EmptySet, Limits
  <2> QED
    BY <2>1
<1>8. Bounded(billed)
  <2>1. DOMAIN billed = Repos /\ \A r \in Repos : billed[r] = <<>>
    BY DEF Init
  <2> QED
    BY <2>1, ListEmpty, Limits DEF Bounded
<1> QED
  BY <1>3, <1>5, <1>6, <1>7, <1>8 DEF AutofixInv

LEMMA StepAutofix == AutofixInv /\ [Next]_vars => AutofixInv' /\ (Spaced \/ UNCHANGED vars)
<1>1. CASE UNCHANGED vars
  <2>1. UNCHANGED <<world, drifted, budget, quiet, chains, pass, seen, billed>>
    BY <1>1 DEF vars, env, board, engine, history
  <2>2. Shape' <=> Shape
    BY <2>1 DEF Shape, PassShape, Fleet, Repos, Subjects
  <2>3. Clock' <=> Clock
    BY <2>1 DEF Clock, Quieted, Memory, Late, Record
  <2>4. Pending' = Pending /\ Owned' = Owned
    BY <2>1 DEF Pending, Owned
  <2>5. Slots(seen, Pending, Owned)' <=> Slots(seen, Pending, Owned)
    BY <2>1, <2>4
  <2>6. Bounded(billed)' <=> Bounded(billed)
    BY <2>1 DEF Bounded, Repos
  <2>7. Running(seen)' = Running(seen)
    BY <2>1
  <2> QED
    BY <1>1, <2>1, <2>2, <2>3, <2>5, <2>6, <2>7 DEF AutofixInv
<1>2. CASE Next
  <2> USE <1>2
  <2> SUFFICES ASSUME AutofixInv PROVE AutofixInv' /\ Spaced
    OBVIOUS
  <2>1. ASSUME NEW r \in Repos, Harmed(r) PROVE AutofixInv' /\ Spaced
    BY <2>1, RestKeeps DEF Harmed, board, engine, history
  <2>2. ASSUME NEW r \in Repos, LeaveOrReturn(r) PROVE AutofixInv' /\ Spaced
    BY <2>2, RestKeeps DEF LeaveOrReturn, board, engine, history
  <2>3. ASSUME NEW f \in Fleet, FleetDrifts(f) PROVE AutofixInv' /\ Spaced
    BY <2>3, RestKeeps DEF FleetDrifts, board, engine, history
  <2>4. CASE Tick
    BY <2>4, TickKeeps
  <2>5. CASE ScanStarts
    BY <2>5, RestKeeps DEF ScanStarts, env, engine, history
  <2>6. CASE ScanPublished
    BY <2>6, ScanKeeps
  <2>7. CASE WorkerPlans
    BY <2>7, PlansKeep
  <2>8. CASE WorkerPlansNow
    BY <2>8, PlansNowKeep
  <2>9. CASE WorkerDeclares
    BY <2>9, DeclaresKeep
  <2>10. CASE RunAutoFix
    BY <2>10, RunKeeps
  <2>11. CASE FleetPlans
    BY <2>11, FleetPlansKeep
  <2>12. ASSUME NEW c \in chains, NextJob(c) \/ JobSucceeds(c) \/ JobFails(c) PROVE AutofixInv' /\ Spaced
    BY <2>12, JobsKeep
  <2>13. ASSUME NEW c \in chains, ChainDone(c) PROVE AutofixInv' /\ Spaced
    BY <2>13, DoneKeeps
  <2>14. ASSUME NEW r \in settling, Settled(r) PROVE AutofixInv' /\ Spaced
    BY <2>14, RestKeeps DEF Settled, env, engine, history
  <2>15. ASSUME NEW r \in Repos, FixPressed(r) PROVE AutofixInv' /\ Spaced
    BY <2>15, FixKeeps
  <2>16. CASE NowPressed
    BY <2>16, NowKeeps
  <2>17. CASE SettingsSaved
    BY <2>17, SettingsKeep
  <2> QED
    BY <2>1, <2>2, <2>3, <2>4, <2>5, <2>6, <2>7, <2>8, <2>9, <2>10, <2>11, <2>12, <2>13, <2>14, <2>15, <2>16,
       <2>17 DEF Next
<1> QED
  BY <1>1, <1>2

LEMMA AutofixInvariant == Spec => []AutofixInv
<1> QED
  BY InitAutofix, StepAutofix, PTL DEF Spec

\* AttemptsSpaced, for any repositories, fleet, limits and settings: no step of
\* the loop, the user, the runner or the clock reserves a repository or a root
\* inside its cooldown (CoolingDown before reserve, and Done, Forget and Prune
\* that never make a record look older than the reservation they follow).
THEOREM SpacedCorrect == Spec => AttemptsSpaced
<1>1. AutofixInv /\ [Next]_vars => [\A k \in DOMAIN quiet :
         k \in Running(seen') \ Running(seen) => quiet[k] = Cooldown]_vars
  BY StepAutofix DEF Spaced
<1> QED
  BY <1>1, AutofixInvariant, PTL DEF Spec, AttemptsSpaced

(***************************************************************************)
(* The slots, counted.                                                     *)
(***************************************************************************)
LEMMA InvSlots == AutofixInv => SlotsMatch
<1> SUFFICES ASSUME AutofixInv PROVE SlotsMatch
  OBVIOUS
<1>1. /\ IsFiniteSet(Running(seen)) /\ Running(seen) = KeysOf(Pending) \cup KeysIn(Owned)
      /\ \A i, j \in DOMAIN Pending : Pending[i].key = Pending[j].key => i = j
      /\ \A c, d \in Owned : c.key = d.key => c = d
      /\ KeysOf(Pending) \cap KeysIn(Owned) = {}
  BY DEF AutofixInv, Slots
<1>2. IsFiniteSet(Owned)
  BY FS_Subset DEF AutofixInv, Shape, Owned
<1>3. IsList(Pending)
  BY ListEmpty DEF AutofixInv, Shape, PassShape, Pending
<1> DEFINE A == KeysOf(Pending)
           B == KeysIn(Owned)
<1>4. IsFiniteSet(A) /\ Cardinality(A) = Len(Pending)
  <2>1. Len(Pending) \in Nat /\ DOMAIN Pending = 1 .. Len(Pending)
    BY <1>3 DEF IsList
  <2>2. IsFiniteSet(DOMAIN Pending) /\ Cardinality(DOMAIN Pending) = Len(Pending)
    <3>1. PICK n \in Nat : n = Len(Pending)
      BY <2>1
    <3>2. IsFiniteSet(1 .. n) /\ Cardinality(1 .. n) = n
      BY FS_Interval
    <3> QED
      BY <2>1, <3>1, <3>2
  <2> DEFINE f == [i \in DOMAIN Pending |-> Pending[i].key]
  <2> HIDE DEF Pending
  <2>3. f \in Surjection(DOMAIN Pending, A) /\ f \in Injection(DOMAIN Pending, A)
    BY <1>1 DEF Surjection, Injection, IsInjective, KeysOf
  <2> HIDE DEF f, A
  <2> QED
    BY <2>2, <2>3, FS_Surjection
<1>5. IsFiniteSet(B) /\ Cardinality(B) = Cardinality(Owned)
  <2> DEFINE f == [c \in Owned |-> c.key]
  <2> HIDE DEF Owned
  <2>1. f \in Surjection(Owned, B) /\ f \in Injection(Owned, B)
    BY <1>1 DEF Surjection, Injection, IsInjective, KeysIn
  <2> HIDE DEF f, B
  <2> QED
    BY <1>2, <2>1, FS_Surjection
<1>6. Cardinality(Running(seen)) = Len(Pending) + Cardinality(Owned)
  <2>1. Cardinality({}) = 0 /\ Len(Pending) \in Nat /\ Cardinality(Owned) \in Nat
    BY <1>2, <1>3, FS_EmptySet, FS_CardinalityType DEF IsList
  <2>2. A \cap B = {} /\ Running(seen) = A \cup B
    BY <1>1
  <2> HIDE DEF A, B
  <2>3. Cardinality(A \cup B) = Cardinality(A) + Cardinality(B) - Cardinality(A \cap B)
    BY <1>4, <1>5, FS_Union
  <2> QED
    <3>1. PICK a \in Nat, b \in Nat : a = Len(Pending) /\ b = Cardinality(Owned)
      BY <2>1
    <3>2. Cardinality(A) = a /\ Cardinality(B) = b /\ Cardinality(A \cap B) = 0
      BY <1>4, <1>5, <2>1, <2>2, <3>1
    <3>3. Cardinality(A \cup B) = a + b - 0
      BY <2>3, <3>2
    <3>4. Cardinality(A \cup B) = a + b
      BY <3>3
    <3> QED
      BY <2>2, <3>1, <3>4
<1>7. Running(seen) = {Pending[i].key : i \in DOMAIN Pending} \cup {c.key : c \in Owned}
  BY <1>1 DEF KeysOf, KeysIn
<1> QED
  BY <1>6, <1>7 DEF SlotsMatch, AutofixInv

\* The slots of the engine and the chains that hold them agree, one for one, and
\* there are at most MaxRunning of them until Auto-fix now is clicked: what
\* Engine.Done, Retry, Reset, Prune and runAutoFix keep true between them.
THEOREM SlotsCorrect == Spec => []SlotsMatch
<1> QED
  BY AutofixInvariant, InvSlots, PTL

(***************************************************************************)
(* The bill.                                                               *)
(***************************************************************************)
\* No saved settings both allow billed repairs and prefer a local model, or the
\* pinned backend does not bill.
LocalOrBilled ==
  BilledPin => \A s \in Scenarios : \A x \in s.settings : ~(x.local /\ x.metered)

\* The loop's own ledger is the bill.
Ledger(sp, bl, repos) ==
  /\ DOMAIN sp = repos
  /\ \A r \in repos : IF BilledPin THEN sp[r] = bl[r] ELSE IsList(sp[r]) /\ Len(sp[r]) = 0

BillInv ==
  /\ BilledPin => \A x \in budget.settings : ~(x.local /\ x.metered)
  /\ set \in budget.settings
  /\ pass.phase = "plan" => pass.set \in budget.settings
  /\ Ledger(spent, billed, Repos)

LEMMA InitBill == LocalOrBilled /\ Init => BillInv
<1> SUFFICES ASSUME LocalOrBilled, Init PROVE BillInv
  OBVIOUS
<1>1. budget \in Scenarios /\ set \in budget.settings /\ pass.phase = "none"
  BY DEF Init, NoPass
<1>2. Ledger(spent, billed, Repos)
  BY ListEmpty DEF Init, Ledger
<1> QED
  BY <1>1, <1>2 DEF BillInv, LocalOrBilled

\* What Plan adds to its ledger is what Charge adds to the bill.
LEMMA ChargeBills ==
  ASSUME AutofixInv, Ledger(spent, billed, Repos), NEW x, BilledPin => ~(x.local /\ x.metered), NEW up \in BOOLEAN,
         NEW max \in Nat, NEW mem, Memory(mem), IsFiniteSet(Running(mem)), NEW cands, IsList(cands), NEW out, NEW left,
         out = Plan(mem, billed, cands, Policy(x, up, max)), Charge(out.acts, Policy(x, up, max), left)
  PROVE  Ledger(spent', out.billed, Repos)
<1> DEFINE pol == Policy(x, up, max)
<1>1. /\ pol.max = max /\ (pol.local <=> x.local /\ up) /\ (pol.metered <=> x.metered)
  BY DEF Policy
<1> HIDE DEF pol
<1>2. Planned(<<>>, Keys(cands), mem, billed, pol, out)
  <2>1. Quieted(<<>>) /\ \A k \in DOMAIN <<>> : Late(<<>>, mem, k)
    BY ListEmpty DEF Quieted
  <2>2. Bounded(billed)
    BY DEF AutofixInv
  <2> QED
    BY <1>1, <2>1, <2>2, PlanKeeps DEF pol
<1>3. /\ \A i \in DOMAIN out.acts : out.acts[i].local = (pol.local /\ Metered(out.acts[i].steps))
      /\ \A r \in Repos :
           out.billed[r] = IF Charged(out.acts, r, pol) THEN Append(billed[r], 0) ELSE billed[r]
  BY <1>2 DEF Planned
<1>4. spent' = [r \in Repos |->
         IF \E i \in DOMAIN out.acts : out.acts[i].key = r /\ Bills(out.acts[i], pol)
         THEN Append(spent[r], 0) ELSE spent[r]]
  BY DEF Charge, pol
<1>5. CASE BilledPin
  <2>1. ASSUME NEW i \in DOMAIN out.acts
        PROVE  Bills(out.acts[i], pol) <=> Metered(out.acts[i].steps) /\ ~pol.local
    BY <1>1, <1>3, <1>5 DEF Bills, ToLocal
  <2>2. ASSUME NEW r \in Repos
        PROVE  (\E i \in DOMAIN out.acts : out.acts[i].key = r /\ Bills(out.acts[i], pol))
               <=> Charged(out.acts, r, pol)
    BY <2>1 DEF Charged
  <2> QED
    BY <1>3, <1>4, <1>5, <2>2 DEF Ledger
<1>6. CASE ~BilledPin
  <2>1. spent' = [r \in Repos |-> spent[r]]
    BY <1>4, <1>6 DEF Bills
  <2> QED
    BY <1>6, <2>1 DEF Ledger
<1> QED
  BY <1>5, <1>6

LEMMA StepBill == AutofixInv /\ BillInv /\ [Next]_vars => BillInv'
<1> SUFFICES ASSUME AutofixInv, BillInv, [Next]_vars PROVE BillInv'
  OBVIOUS
<1> USE DEF env, board, engine, history
<1>1. CASE UNCHANGED vars
  BY <1>1 DEF vars, BillInv, Ledger, Repos
<1>2. CASE Next
  <2>1. Repos' = Repos /\ budget'.settings = budget.settings
    BY <1>2, StepStatic DEF AutofixInv, Repos
  <2>2. CASE UNCHANGED <<set, pass, spent, billed>>
    BY <2>1, <2>2 DEF BillInv
  <2>3. CASE Tick
    <3>1. /\ billed' = [r \in Repos |-> Trimmed(billed[r])] /\ spent' = [r \in Repos |-> Trimmed(spent[r])]
          /\ set' = set /\ pass' = pass
      BY <2>3 DEF Tick
    <3>2. ASSUME NEW s, IsList(s), Len(s) = 0 PROVE IsList(Trimmed(s)) /\ Len(Trimmed(s)) = 0
      <4>1. DOMAIN s = 1 .. 0
        BY <3>2 DEF IsList
      <4>2. IsList(Trimmed(s)) /\ Len(Trimmed(s)) <= 0
        BY <4>1, ListPicked DEF Trimmed
      <4> QED
        BY <4>2 DEF IsList
    <3>3. Ledger(spent', billed', Repos)
      BY <3>1, <3>2 DEF BillInv, Ledger
    <3> QED
      BY <2>1, <3>1, <3>3 DEF BillInv
  <2>4. CASE ScanPublished
    <3>1. UNCHANGED <<set, spent, billed>>
      BY <2>4 DEF ScanPublished
    <3>2. pass'.phase = "plan" => pass' = pass \/ pass'.set = set
      BY <2>4 DEF ScanPublished, NoPass
    <3> QED
      BY <2>1, <3>1, <3>2 DEF BillInv
  <2>5. CASE WorkerPlans
    <3> DEFINE kept == Prune(seen, Keys(pass.cands) \cup Fleet)
    <3>0. PICK up \in BOOLEAN :
            \E out \in {Plan(kept, billed, pass.cands, Policy(pass.set, up, MaxRunning))} :
              /\ billed' = out.billed /\ pass'.phase = "declare"
              /\ Charge(out.acts, Policy(pass.set, up, MaxRunning), DOMAIN seen \ DOMAIN kept)
      BY <2>5 DEF WorkerPlans
    <3>1. PICK out \in {Plan(kept, billed, pass.cands, Policy(pass.set, up, MaxRunning))} :
            /\ billed' = out.billed /\ pass'.phase = "declare"
            /\ Charge(out.acts, Policy(pass.set, up, MaxRunning), DOMAIN seen \ DOMAIN kept)
      BY <3>0
    <3>2. pass.phase = "plan" /\ set' = set /\ IsList(pass.cands)
      BY <2>5 DEF WorkerPlans, AutofixInv, Shape, PassShape
    <3>3. Memory(kept) /\ IsFiniteSet(Running(kept))
      BY PruneOf DEF AutofixInv, Clock, Slots
    <3> HIDE DEF kept
    <3>4. Ledger(spent', billed', Repos)
      BY <3>1, <3>2, <3>3, Limits, ChargeBills DEF BillInv
    <3> QED
      BY <2>1, <3>1, <3>2, <3>4 DEF BillInv
  <2>6. CASE WorkerPlansNow
    <3>0. PICK up \in BOOLEAN :
            \E out : /\ billed' = out.billed /\ pass'.phase = "submit"
                     /\ Charge(out.acts, Policy(pass.set, up, Len(pass.cands)), {})
                     /\ \/ out = Plan(seen, billed, pass.cands, Policy(pass.set, up, Len(pass.cands)))
                        \/ out.acts = <<>> /\ out.billed = billed
      BY <2>6 DEF WorkerPlansNow
    <3>1. PICK out :
            /\ billed' = out.billed /\ pass'.phase = "submit"
            /\ Charge(out.acts, Policy(pass.set, up, Len(pass.cands)), {})
            /\ \/ out = Plan(seen, billed, pass.cands, Policy(pass.set, up, Len(pass.cands)))
               \/ out.acts = <<>> /\ out.billed = billed
      BY <3>0
    <3>2. pass.phase = "plan" /\ set' = set /\ IsList(pass.cands)
      BY <2>6 DEF WorkerPlansNow, AutofixInv, Shape, PassShape
    <3>3. Memory(seen) /\ IsFiniteSet(Running(seen)) /\ Len(pass.cands) \in Nat
      BY <3>2 DEF AutofixInv, Clock, Slots, IsList
    <3>4. Ledger(spent', billed', Repos)
      <4>1. CASE out = Plan(seen, billed, pass.cands, Policy(pass.set, up, Len(pass.cands)))
        BY <3>1, <3>2, <3>3, <4>1, ChargeBills DEF BillInv
      <4>2. CASE out.acts = <<>> /\ out.billed = billed
        <5>1. spent' = [r \in Repos |-> spent[r]]
          BY <3>1, <4>2, ListEmpty DEF Charge
        <5> QED
          BY <3>1, <4>2, <5>1 DEF BillInv, Ledger
      <4> QED
        BY <3>1, <4>1, <4>2
    <3> QED
      BY <2>1, <3>1, <3>2, <3>4 DEF BillInv
  <2>7. CASE WorkerDeclares
    <3>1. UNCHANGED <<set, spent, billed>> /\ pass'.phase = "submit"
      BY <2>7 DEF WorkerDeclares
    <3> QED
      BY <2>1, <3>1 DEF BillInv
  <2>8. CASE RunAutoFix
    <3>1. UNCHANGED <<set, spent, billed>> /\ pass'.phase = "none"
      BY <2>8 DEF RunAutoFix, NoPass
    <3> QED
      BY <2>1, <3>1 DEF BillInv
  <2>9. CASE NowPressed
    <3>1. UNCHANGED <<set, spent, billed>> /\ pass'.set = set
      BY <2>9 DEF NowPressed
    <3> QED
      BY <2>1, <3>1 DEF BillInv
  <2>10. CASE SettingsSaved
    <3>1. UNCHANGED <<pass, spent, billed>> /\ set' \in budget.settings
      BY <2>10 DEF SettingsSaved
    <3> QED
      BY <2>1, <3>1 DEF BillInv
  <2> QED
    BY <1>2, <2>2, <2>3, <2>4, <2>5, <2>6, <2>7, <2>8, <2>9, <2>10
    DEF Next, Harmed, LeaveOrReturn, FleetDrifts, ScanStarts, FleetPlans, NextJob, JobSucceeds, JobFails,
        ChainDone, Settled, FixPressed
<1> QED
  BY <1>1, <1>2

LEMMA InvBounds == AutofixInv /\ BillInv => BoundsHold
<1> SUFFICES ASSUME AutofixInv, BillInv, NEW r \in Repos PROVE Len(spent[r]) <= MeteredPerDay
  BY InvSlots DEF BoundsHold, BilledWithinBudget
<1>1. Len(billed[r]) <= MeteredPerDay
  BY DEF AutofixInv, Bounded
<1> QED
  BY <1>1, Limits, SMTT(30) DEF BillInv, Ledger

\* The two bounds of the loop at once, whatever the user retries, resets or saves:
\* the chains in flight, and, unless the settings let a billed chain through as a
\* local one (run billed_cap shows that they can), what a repository is billed in
\* any window (DefaultMaxRunning, DefaultMeteredPerDay).
THEOREM BoundsCorrect == LocalOrBilled => (Spec => []BoundsHold)
<1> SUFFICES ASSUME LocalOrBilled PROVE Spec => []BoundsHold
  OBVIOUS
<1>1. Init => AutofixInv /\ BillInv
  BY InitAutofix, InitBill
<1>2. AutofixInv /\ BillInv /\ [Next]_vars => AutofixInv' /\ BillInv'
  BY StepAutofix, StepBill
<1> QED
  BY <1>1, <1>2, InvBounds, PTL DEF Spec
=============================================================================
