----------------------------- MODULE PartsProofs -----------------------------
(***************************************************************************)
(* The parts of the board, each for any values of its constants.           *)
(***************************************************************************)
EXTENDS MCParts, Positions, FiniteSetTheorems, TLAPS

\* A step is one of the part whose behaviour it is, and leaves it that part.
LEMMA PartSteps ==
  ASSUME [Next]_partsVars
  PROVE  /\ part' = part
         /\ part = "log" => Log!LogNext \/ UNCHANGED logVars
         /\ part = "restart" => Relaunch!RestartNext \/ UNCHANGED relaunchVars
         /\ part = "usage" => Usage!UsageNext \/ UNCHANGED usageVars
         /\ part = "knowledge" => Knowledge!KnowledgeNext \/ UNCHANGED knowledgeVars
         /\ part = "gateway" => Proxy!GatewayNext \/ UNCHANGED proxyVars
         /\ part = "graft" => Graft!GraftNext \/ UNCHANGED graftVars
         /\ part = "global" => Global!GlobalNext \/ UNCHANGED globalVars
         /\ part = "routing" => Route!RoutingNext \/ UNCHANGED routeVars
         /\ part = "dock" => Panel!DockNext \/ UNCHANGED panelVars
  BY DEF Next, Others, partsVars, LogStep, RelaunchStep, UsageStep, KnowledgeStep, ProxyStep,
         GraftStep, GlobalStep, RouteStep, PanelStep

-----------------------------------------------------------------------------
(***************************************************************************)
(* The elements of a list at some positions, in order.                     *)
(***************************************************************************)
\* The positions counted from the lowest are the positions, each of them once.
LEMMA NthOf ==
  ASSUME NEW n \in Nat, NEW I \in SUBSET (1 .. n)
  PROVE  /\ Cardinality(I) \in Nat
         /\ \A k \in 1 .. Cardinality(I) : Nth(I, k) \in I
         /\ \A k, l \in 1 .. Cardinality(I) : Nth(I, k) = Nth(I, l) => k = l
         /\ \A i \in I : \E k \in 1 .. Cardinality(I) : Nth(I, k) = i
<1> DEFINE UpTo(i) == {j \in I : j <= i}
           rank == [i \in I |-> Cardinality(UpTo(i))]
           N == Cardinality(I)
<1>1. IsFiniteSet(I) /\ N \in Nat
  <2>1. IsFiniteSet(1 .. n)
    BY FS_Interval
  <2> QED
    BY <2>1, FS_Subset, FS_CardinalityType
<1>2. ASSUME NEW i \in I
      PROVE  /\ IsFiniteSet(UpTo(i)) /\ rank[i] \in 1 .. N
  <2>1. IsFiniteSet(UpTo(i)) /\ Cardinality(UpTo(i)) <= N /\ Cardinality(UpTo(i)) \in Nat
    BY <1>1, FS_Subset, FS_CardinalityType
  <2>2. Cardinality(UpTo(i)) # 0
    <3>1. i \in UpTo(i)
      OBVIOUS
    <3> HIDE DEF UpTo
    <3> QED
      BY <2>1, <3>1, FS_EmptySet
  <2> QED
    BY <1>1, <2>1, <2>2
<1>3. ASSUME NEW i \in I, NEW j \in I, i < j PROVE rank[i] # rank[j]
  <2>1. UpTo(i) \in SUBSET UpTo(j) /\ j \in UpTo(j) /\ j \notin UpTo(i)
    <3>1. i \in Int /\ j \in Int /\ ~(j <= i) /\ j <= j
      BY <1>3
    <3>2. \A x \in I : x <= i => x <= j
      BY <1>3, <3>1
    <3> QED
      BY <3>1, <3>2
  <2>2. rank[i] = Cardinality(UpTo(i)) /\ rank[j] = Cardinality(UpTo(j))
    OBVIOUS
  <2>3. IsFiniteSet(UpTo(j))
    BY <1>2
  <2> HIDE DEF UpTo, rank
  <2> QED
    BY <2>1, <2>2, <2>3, FS_Subset
<1>4. rank \in Injection(I, 1 .. N)
  <2>1. rank \in [I -> 1 .. N]
    BY <1>2
  <2>2. ASSUME NEW i \in I, NEW j \in I, rank[i] = rank[j] PROVE i = j
    <3>1. i \in Int /\ j \in Int
      OBVIOUS
    <3> HIDE DEF rank
    <3>2. ~(i < j) /\ ~(j < i)
      BY <1>3, <2>2
    <3> QED
      BY <3>1, <3>2
  <2> HIDE DEF rank
  <2> QED
    BY <2>1, <2>2 DEF Injection, IsInjective
<1>5. rank \in Surjection(I, 1 .. N)
  <2>1. IsFiniteSet(1 .. N) /\ Cardinality(1 .. N) = N
    BY <1>1, FS_Interval
  <2> QED
    BY <1>4, <2>1, FS_Injection
<1>6. \A k \in 1 .. N : \E i \in I : rank[i] = k
  BY <1>5 DEF Surjection
<1>7. ASSUME NEW k \in 1 .. N PROVE Nth(I, k) \in I /\ rank[Nth(I, k)] = k
  <2>1. \E i \in I : Cardinality(UpTo(i)) = k
    BY <1>6
  <2> QED
    BY <2>1 DEF Nth
<1>8. ASSUME NEW i \in I PROVE Nth(I, rank[i]) = i
  <2>1. rank[i] \in 1 .. N
    BY <1>2
  <2>2. Nth(I, rank[i]) \in I /\ rank[Nth(I, rank[i])] = rank[i]
    BY <1>7, <2>1
  <2> HIDE DEF rank
  <2> QED
    BY <1>4, <2>2 DEF Injection, IsInjective
<1> HIDE DEF rank
<1> QED
  BY <1>1, <1>2, <1>7, <1>8

\* What is picked is the list's, position by position, each of them once.
LEMMA PickedOf ==
  ASSUME NEW S, NEW s \in Seq(S), NEW I \in SUBSET DOMAIN s
  PROVE  /\ Picked(s, I) \in Seq(S)
         /\ DOMAIN Picked(s, I) = 1 .. Len(Picked(s, I))
         /\ \E p \in [DOMAIN Picked(s, I) -> I] :
              /\ \A k \in DOMAIN Picked(s, I) : Picked(s, I)[k] = s[p[k]]
              /\ \A k, l \in DOMAIN Picked(s, I) : p[k] = p[l] => k = l
              /\ \A i \in I : \E k \in DOMAIN Picked(s, I) : p[k] = i
<1> DEFINE n == Cardinality(I)
           p == [k \in 1 .. n |-> Nth(I, k)]
<1>1. Len(s) \in Nat /\ DOMAIN s = 1 .. Len(s) /\ I \in SUBSET (1 .. Len(s))
  OBVIOUS
<1>2. /\ n \in Nat
      /\ \A k \in 1 .. n : Nth(I, k) \in I
      /\ \A k, l \in 1 .. n : Nth(I, k) = Nth(I, l) => k = l
      /\ \A i \in I : \E k \in 1 .. n : Nth(I, k) = i
  BY <1>1, NthOf
<1>3. Picked(s, I) = [k \in 1 .. n |-> s[Nth(I, k)]]
  BY DEF Picked
<1> HIDE DEF n
<1>4. \A k \in 1 .. n : s[Nth(I, k)] \in S
  BY <1>1, <1>2
<1>5. Picked(s, I) \in [1 .. n -> S]
  BY <1>3, <1>4
<1>6. Picked(s, I) \in Seq(S) /\ Len(Picked(s, I)) = n
  BY <1>2, <1>5
<1>7. /\ p \in [1 .. n -> I]
      /\ \A k, l \in 1 .. n : p[k] = p[l] => k = l
      /\ \A i \in I : \E k \in 1 .. n : p[k] = i
      /\ \A k \in 1 .. n : Picked(s, I)[k] = s[p[k]]
  BY <1>2, <1>3
<1>8. DOMAIN Picked(s, I) = 1 .. n
  BY <1>3
<1> HIDE DEF p
<1> QED
  BY <1>6, <1>7, <1>8, SMTT(30)

-----------------------------------------------------------------------------
(***************************************************************************)
(* The OpenCode gateway.                                                   *)
(***************************************************************************)
Entry == [model : Models \cup {NoModel}, price : Models \cup {NoModel}, hand : BOOLEAN]
Request == [plan : Plans, model : Models \cup {NoModel}, checked : Models \cup {NoModel}]

\* A process that owns the proxy is on the port; what a submit asks for is served
\* by its own version until it has an answer, and by what answered from then on;
\* one process at a time writes the file, from what is in it.
ProxyInv ==
  /\ version \in [Processes -> DOMAIN Served]
  /\ pc \in [Processes -> {"idle", "proxy", "lock", "write"}]
  /\ req \in [Processes -> Request]
  /\ DOMAIN root = Processes /\ DOMAIN via = Processes /\ DOMAIN providersDraft = Processes
  /\ file \in [Plans -> Entry]
  /\ \A p \in Processes :
       /\ root[p] = "owned" => holder = p
       /\ pc[p] = "proxy" => req[p].plan \in Served[version[p]] \cup {Go}
       /\ pc[p] \in {"lock", "write"} => req[p].plan \in via[p]
       /\ pc[p] = "write" => providersLock = {p} /\ providersDraft[p] = file

LEMMA InitProxy == Init /\ part = "gateway" => ProxyInv
<1> SUFFICES ASSUME Proxy!GatewayInit PROVE ProxyInv
  BY DEF Init
<1>1. Go \in Plans /\ NoModel \in Models \cup {NoModel}
  BY ProxyConstants DEF Proxy!GatewayAssumptions
<1>2. file \in [Plans -> Entry]
  <2>1. PICK other \in Plans : file = [b \in Plans |-> [Proxy!NoEntry EXCEPT !.hand = (b = other)]]
    BY DEF Proxy!GatewayInit
  <2>2. ASSUME NEW b \in Plans PROVE [Proxy!NoEntry EXCEPT !.hand = (b = other)] \in Entry
    BY DEF Proxy!NoEntry, Entry
  <2> QED
    BY <2>1, <2>2
<1> QED
  BY <1>1, <1>2 DEF Proxy!GatewayInit, ProxyInv, Proxy!NoRequest, Request

\* Up to the answer of the proxy.
LEMMA SubmitProxy ==
  ASSUME ProxyInv, NEW p \in Processes,
         \/ \E b \in Plans, m \in Models \cup {NoModel} : Proxy!Preflight(p, b, m)
         \/ Proxy!VerdictExpires(p)
         \/ Proxy!StartOpenCodeProxy(p)
  PROVE  ProxyInv'
<1> USE DEF ProxyInv
<1>0. /\ Go \in Plans /\ NoModel \notin Models /\ {Proxy!Nobody, Proxy!Stranger} \cap Processes = {}
      /\ Default \in [Plans -> Models \cup {NoModel}]
  BY ProxyConstants DEF Proxy!GatewayAssumptions
<1>1. ASSUME NEW b \in Plans, NEW m \in Models \cup {NoModel}, Proxy!Preflight(p, b, m)
      PROVE  ProxyInv'
  <2>1. Proxy!ModelFor(b, m) \in Models \cup {NoModel}
    BY <1>0 DEF Proxy!ModelFor
  <2>2. /\ req' = [req EXCEPT ![p] = [plan |-> b, model |-> m, checked |-> Proxy!ModelFor(b, m)]]
        /\ pc[p] = "idle" /\ pc' = [pc EXCEPT ![p] = "proxy"] /\ b \in Served[version[p]] \cup {Go}
        /\ UNCHANGED <<version, holder, root, via, file, providersLock, providersDraft>>
    BY <1>1 DEF Proxy!Preflight, Proxy!Serves
  <2>3. req' \in [Processes -> Request]
    BY <2>1, <2>2 DEF Request
  <2> QED
    BY <2>2, <2>3
<1>2. CASE Proxy!VerdictExpires(p)
  BY <1>2 DEF Proxy!VerdictExpires
<1>3. CASE Proxy!StartOpenCodeProxy(p)
  <2>0. pc[p] = "proxy" /\ UNCHANGED <<version, file, providersLock, providersDraft>>
    BY <1>3 DEF Proxy!StartOpenCodeProxy
  <2>1. ASSUME UNCHANGED <<holder, req>>, Proxy!Registers(p), root' \in {root, [root EXCEPT ![p] = "shared"]},
               req[p].plan \in Served[version[holder]] \cup {Go}
        PROVE  ProxyInv'
    BY <2>0, <2>1 DEF Proxy!Registers, Proxy!Serves
  <2>2. ASSUME Proxy!Refuses(p), UNCHANGED <<holder, root>> PROVE ProxyInv'
    BY <1>0, <2>0, <2>2 DEF Proxy!Refuses, Proxy!NoRequest, Request
  <2>3. CASE root[p] = "owned" /\ UNCHANGED <<holder, req, root, listed>> /\ Proxy!Registers(p)
    BY <2>0, <2>1, <2>3
  <2>4. CASE /\ root[p] # "owned" /\ Proxy!Answers(p) /\ UNCHANGED holder
             /\ Proxy!SharedProxyServes(Proxy!Listed(p), req[p].plan)
             /\ Proxy!Registers(p) /\ root' = [root EXCEPT ![p] = "shared"] /\ UNCHANGED req
    BY <2>1, <2>4 DEF Proxy!SharedProxyServes, Proxy!Listed, Proxy!Serves
  <2>5. CASE Proxy!Refuses(p) /\ UNCHANGED <<holder, root>>
    BY <2>2, <2>5
  <2>6. CASE root' = [root EXCEPT ![p] = "none"] /\ UNCHANGED <<holder, req, pc, via>>
    BY <2>0, <2>6
  <2>7. CASE /\ root[p] = "none" /\ holder = Proxy!Nobody /\ holder' = p /\ Proxy!Registers(p)
             /\ root' = [root EXCEPT ![p] = "owned"] /\ UNCHANGED req
    BY <1>0, <2>0, <2>7 DEF Proxy!Registers, Proxy!Serves
  <2> QED
    BY <1>3, <2>3, <2>4, <2>5, <2>6, <2>7 DEF Proxy!StartOpenCodeProxy
<1> QED
  BY <1>1, <1>2, <1>3

\* The file and the jobs, and what ends a process or the gateway's answers.
LEMMA WriteProxy ==
  ASSUME ProxyInv,
         \/ \E p \in Processes : \/ Proxy!LockProviders(p) \/ Proxy!WriteFileAtomic(p)
                                 \/ Proxy!JobStarts(p) \/ Proxy!Restarts(p)
         \/ Proxy!GatewayChanges \/ Proxy!StrangerLeaves
  PROVE  ProxyInv' /\ Proxy!KeptProviders
<1> USE DEF ProxyInv
<1>0. /\ Go \in Plans /\ NoModel \notin Models /\ {Proxy!Nobody, Proxy!Stranger} \cap Processes = {}
      /\ Default \in [Plans -> Models \cup {NoModel}]
  BY ProxyConstants DEF Proxy!GatewayAssumptions
<1>1. ASSUME NEW p \in Processes, Proxy!LockProviders(p) PROVE ProxyInv'
  BY <1>1 DEF Proxy!LockProviders, Proxy!LockFree
<1>2. ASSUME NEW p \in Processes, Proxy!WriteFileAtomic(p) PROVE ProxyInv' /\ Proxy!KeptProviders
  <2> DEFINE b == req[p].plan
             entry == Proxy!Managed(providersDraft[p][b], b, req[p].model)
  <2>1. /\ pc[p] = "write" /\ providersLock = {p} /\ providersDraft[p] = file
        /\ b \in Plans /\ req[p].model \in Models \cup {NoModel} /\ file[b] \in Entry
    BY <1>2 DEF Proxy!WriteFileAtomic, Request
  <2>2. entry \in Entry /\ entry.hand = file[b].hand
        /\ (file[b].model # NoModel => entry.model # NoModel)
    BY <1>0, <2>1 DEF Proxy!Managed, Proxy!ModelFor, Entry
  <2>3. /\ file' = IF entry = providersDraft[p][b] THEN file
                   ELSE [providersDraft[p] EXCEPT ![b] = entry]
        /\ req' = [req EXCEPT ![p] = Proxy!NoRequest] /\ pc' = [pc EXCEPT ![p] = "idle"]
        /\ providersDraft' = [providersDraft EXCEPT ![p] = Proxy!NoDraft]
        /\ providersLock' = providersLock \ {p}
        /\ UNCHANGED <<version, holder, root, via>>
    BY <1>2 DEF Proxy!WriteFileAtomic
  <2> HIDE DEF b, entry
  <2>4. file' = file \/ file' = [file EXCEPT ![b] = entry]
    BY <2>1, <2>3
  <2>5. file' \in [Plans -> Entry] /\ Proxy!KeptProviders
    BY <2>1, <2>2, <2>4 DEF Proxy!KeptProviders
  <2>6. Proxy!NoRequest \in Request
    BY <1>0 DEF Proxy!NoRequest, Request
  <2> QED
    BY <2>1, <2>3, <2>5, <2>6
<1>3. ASSUME NEW p \in Processes, Proxy!JobStarts(p) PROVE ProxyInv'
  BY <1>3 DEF Proxy!JobStarts
<1>4. ASSUME NEW p \in Processes, Proxy!Restarts(p) PROVE ProxyInv'
  <2>1. Proxy!NoRequest \in Request
    BY <1>0 DEF Proxy!NoRequest, Request
  <2> QED
    BY <1>4, <2>1 DEF Proxy!Restarts
<1>5. ASSUME Proxy!GatewayChanges PROVE ProxyInv'
  BY <1>5 DEF Proxy!GatewayChanges
<1>6. ASSUME Proxy!StrangerLeaves PROVE ProxyInv'
  BY <1>0, <1>6 DEF Proxy!StrangerLeaves
<1>7. file' = file => Proxy!KeptProviders
  BY DEF Proxy!KeptProviders
<1> QED
  BY <1>1, <1>2, <1>3, <1>4, <1>5, <1>6, <1>7
     DEF Proxy!LockProviders, Proxy!JobStarts, Proxy!Restarts, Proxy!GatewayChanges, Proxy!StrangerLeaves

LEMMA StepProxy ==
  ASSUME ProxyInv, Proxy!GatewayNext \/ UNCHANGED proxyVars
  PROVE  ProxyInv' /\ Proxy!KeptProviders
<1>1. CASE \E p \in Processes :
             \/ \E b \in Plans, m \in Models \cup {NoModel} : Proxy!Preflight(p, b, m)
             \/ Proxy!VerdictExpires(p)
             \/ Proxy!StartOpenCodeProxy(p)
  <2>1. ProxyInv'
    BY <1>1, SubmitProxy
  <2>2. file' = file
    BY <1>1 DEF Proxy!Preflight, Proxy!VerdictExpires, Proxy!StartOpenCodeProxy
  <2> QED
    BY <2>1, <2>2 DEF Proxy!KeptProviders
<1>2. CASE UNCHANGED proxyVars
  BY <1>2 DEF proxyVars, ProxyInv, Proxy!KeptProviders
<1> QED
  BY <1>1, <1>2, WriteProxy DEF Proxy!GatewayNext

\* However the boards that share the port come, go and differ in version, a submit
\* goes on only behind a proxy that serves its plan.
THEOREM AcceptedCorrect == Spec => []AcceptedIsServed
<1>1. (part = "gateway" => ProxyInv) /\ [Next]_partsVars => (part = "gateway" => ProxyInv)'
  BY PartSteps, StepProxy
<1>2. (part = "gateway" => ProxyInv) => AcceptedIsServed
  BY DEF ProxyInv, AcceptedIsServed, Proxy!AcceptedIsServed
<1> QED
  BY InitProxy, <1>1, <1>2, PTL DEF Spec

-----------------------------------------------------------------------------
(***************************************************************************)
(* The knowledge index.                                                    *)
(***************************************************************************)
Row == [built : Nat, tier : Nat]
Graph == [built : Nat, manifest : Nat]

\* A checkout said to have a graph has one, or had it removed.
HadGraph(c) == graph[c].built # 0 \/ c \in removed

\* Whoever has a draft holds the lock, and what it would lose no scan covers.
KnowledgeInv ==
  /\ graph \in [Repos -> Graph] /\ builds \in Nat
  /\ entries \in [Repos -> Row]
  /\ DOMAIN snap = DOMAIN Covers /\ DOMAIN draft = DOMAIN Covers
  /\ \A c \in Repos : entries[c].built # 0 => HadGraph(c)
  /\ \A p \in DOMAIN Covers :
       /\ \A c \in DOMAIN snap[p] \cap Repos :
            /\ snap[p][c] \in Nat /\ (snap[p][c] # 0 => HadGraph(c))
            /\ c \notin Covers[p] => snap[p][c] # 0
       /\ draft[p] # Knowledge!NoRows =>
            /\ flock = {p} /\ draft[p] \in [Repos -> Row]
            /\ \A c \in Repos : draft[p][c].built # 0 => HadGraph(c)
            /\ \A c \in Knowledge!Uncovered \ removed :
                 entries[c].built # 0 => draft[p][c].built # 0

LEMMA InitKnowledge == Init /\ part = "knowledge" => KnowledgeInv
<1> SUFFICES ASSUME Knowledge!KnowledgeInit PROVE KnowledgeInv
  BY DEF Init
<1> QED
  BY DEF Knowledge!KnowledgeInit, KnowledgeInv, Knowledge!Publishers, Knowledge!NoRows,
         Knowledge!NoEntry, Row, Graph, HadGraph

\* A graph, once there, is there until it is removed.
LEMMA KnowledgeBuilds ==
  ASSUME KnowledgeInv, NEW c \in Repos,
         Knowledge!BuildStarts(c) \/ Knowledge!BuildEnds(c) \/ Knowledge!Removed(c)
  PROVE  KnowledgeInv' /\ entries' = entries
<1> USE DEF KnowledgeInv
<1>1. /\ graph' \in [Repos -> Graph] /\ builds' \in Nat /\ removed \subseteq removed'
      /\ \A d \in Repos : HadGraph(d) => HadGraph(d)'
      /\ UNCHANGED <<entries, flock, snap, draft>>
  <2>1. CASE Knowledge!BuildStarts(c)
    BY <2>1 DEF Knowledge!BuildStarts, HadGraph, Graph
  <2>2. CASE Knowledge!BuildEnds(c)
    BY <2>2 DEF Knowledge!BuildEnds, HadGraph, Graph
  <2>3. CASE Knowledge!Removed(c)
    BY <2>3 DEF Knowledge!Removed, HadGraph, Graph
  <2> QED
    BY <2>1, <2>2, <2>3
<1> QED
  BY <1>1 DEF Knowledge!Uncovered

LEMMA KnowledgePublishes ==
  ASSUME KnowledgeInv, NEW p \in DOMAIN Covers,
         \/ Knowledge!Scanned(p) \/ Knowledge!Loads(p) \/ Knowledge!Saves(p) \/ Knowledge!Dies(p)
         \/ \E c \in Repos : Knowledge!Built(p, c)
  PROVE  KnowledgeInv' /\ Knowledge!KeptEntries
<1> USE DEF KnowledgeInv
<1>1. CASE Knowledge!Scanned(p)
  <2>1. /\ snap' = [snap EXCEPT ![p] = [c \in Covers[p] |-> graph[c].built]]
        /\ UNCHANGED <<graph, builds, removed, entries, flock, draft>>
    BY <1>1 DEF Knowledge!Scanned
  <2>2. \A c \in Covers[p] \cap Repos : graph[c].built \in Nat /\ (graph[c].built # 0 => HadGraph(c))
    BY DEF HadGraph, Graph
  <2> QED
    BY <2>1, <2>2 DEF HadGraph, Knowledge!Uncovered, Knowledge!KeptEntries
<1>2. ASSUME NEW c \in Repos, Knowledge!Built(p, c) PROVE KnowledgeInv' /\ Knowledge!KeptEntries
  <2>1. /\ snap' = [snap EXCEPT ![p] = [row \in {c} |-> graph[row].built]] /\ graph[c].built # 0
        /\ UNCHANGED <<graph, builds, removed, entries, flock, draft>>
    BY <1>2 DEF Knowledge!Built
  <2>2. graph[c].built \in Nat /\ HadGraph(c)
    BY <2>1 DEF HadGraph, Graph
  <2> QED
    BY <2>1, <2>2 DEF HadGraph, Knowledge!Uncovered, Knowledge!KeptEntries
<1>3. CASE Knowledge!Loads(p)
  <2> DEFINE d == [c \in Repos |->
          IF c \in DOMAIN snap[p]
          THEN IF snap[p][c] = 0 THEN Knowledge!NoEntry
               ELSE Knowledge!FromRow(snap[p][c], c, IF Covers[p] = {} THEN Knowledge!NoEntry
                                                     ELSE entries[c])
          ELSE IF Covers[p] = {} \/ Knowledge!HasGraph(c) THEN entries[c] ELSE Knowledge!NoEntry]
  <2>1. /\ flock = {} /\ flock' = {p} /\ draft' = [draft EXCEPT ![p] = d]
        /\ UNCHANGED <<graph, builds, removed, entries, snap>>
    BY <1>3 DEF Knowledge!Loads, Knowledge!Lock
  <2>2. ASSUME NEW c \in Repos
        PROVE  /\ d[c] \in Row /\ (d[c].built # 0 => HadGraph(c))
               /\ c \in Knowledge!Uncovered \ removed /\ entries[c].built # 0 => d[c].built # 0
    <3>1. CASE c \in DOMAIN snap[p]
      <4>1. /\ snap[p][c] \in Nat /\ (snap[p][c] # 0 => HadGraph(c))
            /\ c \in Knowledge!Uncovered => snap[p][c] # 0
        BY <3>1 DEF Knowledge!Uncovered, Knowledge!Publishers
      <4>2. graph[c].manifest \in Nat /\ entries[c].tier \in Nat
        BY DEF Graph, Row
      <4>3. d[c] = IF snap[p][c] = 0 THEN Knowledge!NoEntry
                   ELSE Knowledge!FromRow(snap[p][c], c, IF Covers[p] = {} THEN Knowledge!NoEntry
                                                         ELSE entries[c])
        BY <3>1
      <4> HIDE DEF d
      <4> QED
        BY <4>1, <4>2, <4>3 DEF Knowledge!FromRow, Knowledge!NoEntry, Row
    <3>2. CASE c \notin DOMAIN snap[p]
      <4>1. d[c] = IF Covers[p] = {} \/ Knowledge!HasGraph(c) THEN entries[c] ELSE Knowledge!NoEntry
        BY <3>2
      <4> HIDE DEF d
      <4> QED
        BY <4>1 DEF Knowledge!HasGraph, Knowledge!NoEntry, Row, HadGraph
    <3> QED
      BY <3>1, <3>2
  <2>3. d \in [Repos -> Row]
    BY <2>2
  <2> HIDE DEF d
  <2> QED
    BY <2>1, <2>2, <2>3 DEF HadGraph, Knowledge!Uncovered, Knowledge!KeptEntries
<1>4. CASE Knowledge!Saves(p)
  <2>1. /\ draft[p] # Knowledge!NoRows /\ entries' = draft[p] /\ flock' = flock \ {p}
        /\ snap' = [snap EXCEPT ![p] = Knowledge!NoRows]
        /\ draft' = [draft EXCEPT ![p] = Knowledge!NoRows]
        /\ UNCHANGED <<graph, builds, removed>>
    BY <1>4 DEF Knowledge!Saves
  <2>2. \A q \in DOMAIN Covers : draft'[q] = Knowledge!NoRows
    BY <2>1
  <2>3. DOMAIN Knowledge!NoRows = {}
    BY DEF Knowledge!NoRows
  <2>4. Knowledge!KeptEntries
    BY <2>1 DEF Knowledge!KeptEntries
  <2> QED
    BY <2>1, <2>2, <2>3, <2>4 DEF HadGraph
<1>5. CASE Knowledge!Dies(p)
  <2>1. /\ flock' = flock \ {p}
        /\ snap' = [snap EXCEPT ![p] = Knowledge!NoRows]
        /\ draft' = [draft EXCEPT ![p] = Knowledge!NoRows]
        /\ UNCHANGED <<graph, builds, removed, entries>>
    BY <1>5 DEF Knowledge!Dies
  <2>2. DOMAIN Knowledge!NoRows = {}
    BY DEF Knowledge!NoRows
  <2> QED
    BY <2>1, <2>2 DEF HadGraph, Knowledge!Uncovered, Knowledge!KeptEntries
<1> QED
  BY <1>1, <1>2, <1>3, <1>4, <1>5

LEMMA StepKnowledge ==
  ASSUME KnowledgeInv, Knowledge!KnowledgeNext \/ UNCHANGED knowledgeVars
  PROVE  KnowledgeInv' /\ Knowledge!KeptEntries
<1>1. CASE UNCHANGED knowledgeVars
  BY <1>1 DEF knowledgeVars, KnowledgeInv, HadGraph, Knowledge!Uncovered, Knowledge!KeptEntries
<1> QED
  BY <1>1, KnowledgeBuilds, KnowledgePublishes
     DEF Knowledge!KnowledgeNext, Knowledge!Publishers, Knowledge!KeptEntries

\* Processes that publish into one file keep each other's entries, in the
\* knowledge index and in providers.json, whoever dies with the lock in hand.
THEOREM NoneDroppedCorrect == Spec => NoneDropped
<1> DEFINE Inv == /\ part = "knowledge" => KnowledgeInv
                  /\ part = "gateway" => ProxyInv
<1>1. Init => Inv
  BY InitProxy, InitKnowledge
<1>2. Inv /\ [Next]_partsVars => Inv'
  BY PartSteps, StepProxy, StepKnowledge
<1>3. Inv /\ [Next]_partsVars => /\ part = "knowledge" => Knowledge!KeptEntries
                                 /\ part = "gateway" => Proxy!KeptProviders
  BY PartSteps, StepProxy, StepKnowledge
<1>4. Inv /\ [Next]_partsVars => [/\ part = "knowledge" => Knowledge!KeptEntries
                                  /\ part = "gateway" => Proxy!KeptProviders]_partsVars
  BY <1>3
<1> QED
  BY <1>1, <1>2, <1>4, PTL DEF Spec, NoneDropped

-----------------------------------------------------------------------------
(***************************************************************************)
(* The graft index.                                                        *)
(***************************************************************************)
States == {"none", "broken", "stale", "wiring", "fresh"}
Directory == [moves : Nat, wiring : BOOLEAN, deep : BOOLEAN, built : Nat]
Index == [key : Nat, moves : Nat, tree : Nat, state : States, fresh : BOOLEAN]
Read == [of : SUBSET Indexed, stamp : Nat \X Nat, key : Nat, entry : Index, index : Index]

GraftTypes ==
  /\ graft \in [Indexed -> Directory] /\ tree \in [Indexed -> Nat]
  /\ cache \in [Indexed -> Index]
  /\ gen \in [Indexed -> Nat] /\ clears \in Nat
  /\ floor \in [Indexed -> Nat \X Nat]
  /\ reader \in [Readers -> Read]

\* What is said of an index that was read of a checkout.
Sound(x) == x # Graft!NoIndex => x.key >= 1 /\ x.moves >= x.key
Since(x, c) == x # Graft!NoIndex => x.moves >= floor[c][1] /\ x.tree >= floor[c][2]

\* No stamp is later than the present one.
Earlier(stamp, c) == stamp[1] < clears \/ (stamp[1] = clears /\ stamp[2] <= gen[c])

\* What a read in flight took from the cache, or derived, is as new as the last
\* invalidation unless the stamp has moved, which stops it from being stored.
GraftInv ==
  /\ GraftTypes
  /\ \A c \in Indexed :
       /\ graft[c].moves >= 1
       /\ floor[c][1] <= graft[c].moves /\ floor[c][2] <= tree[c]
       /\ Sound(cache[c]) /\ Since(cache[c], c)
  /\ \A r \in Readers, c \in Indexed : reader[r].of = {c} =>
       /\ Earlier(reader[r].stamp, c)
       /\ reader[r].key >= 1 /\ reader[r].key <= graft[c].moves
       /\ Sound(reader[r].entry) /\ Sound(reader[r].index)
       /\ reader[r].stamp = Graft!Stamp(c) =>
            Since(reader[r].entry, c) /\ Since(reader[r].index, c)

LEMMA InitGraft == Init /\ part = "graft" => GraftInv
<1> SUFFICES ASSUME Graft!GraftInit PROVE GraftInv
  BY DEF Init
<1>1. GraftTypes
  BY DEF Graft!GraftInit, GraftTypes, Graft!NoIndex, Graft!NoRead, Directory, Index, Read, States
<1>2. \A r \in Readers, c \in Indexed : reader[r].of # {c}
  BY DEF Graft!GraftInit, Graft!NoRead
<1>3. \A c \in Indexed : /\ graft[c].moves = 1 /\ tree[c] = 0 /\ cache[c] = Graft!NoIndex
                         /\ floor[c] = <<0, 0>>
  BY DEF Graft!GraftInit
<1> QED
  BY <1>1, <1>2, <1>3 DEF GraftInv, Sound, Since

\* A step beside the reads: what is dropped from the cache moves the stamp.
LEMMA GraftMoves ==
  ASSUME GraftInv, GraftTypes', reader' = reader,
         \A c \in Indexed :
           /\ graft'[c].moves >= graft[c].moves /\ tree'[c] >= tree[c]
           /\ \/ /\ floor'[c] = floor[c]
                 /\ cache'[c] \in {Graft!NoIndex, cache[c], [cache[c] EXCEPT !.fresh = FALSE]}
                 /\ clears' > clears \/ (clears' = clears /\ gen'[c] >= gen[c])
              \/ /\ floor'[c][1] <= graft'[c].moves /\ floor'[c][2] <= tree'[c]
                 /\ cache'[c] = Graft!NoIndex
                 /\ clears' > clears \/ (clears' = clears /\ gen'[c] > gen[c])
  PROVE  GraftInv'
<1>1. ASSUME NEW c \in Indexed
      PROVE  /\ graft'[c].moves >= 1
             /\ floor'[c][1] <= graft'[c].moves /\ floor'[c][2] <= tree'[c]
             /\ Sound(cache[c])' /\ Since(cache[c], c)'
  <2>1. /\ graft[c].moves \in Nat /\ graft'[c].moves \in Nat /\ tree[c] \in Nat /\ tree'[c] \in Nat
        /\ floor[c][1] \in Nat /\ floor[c][2] \in Nat /\ cache[c] \in Index
        /\ graft[c].moves >= 1 /\ floor[c][1] <= graft[c].moves /\ floor[c][2] <= tree[c]
        /\ Sound(cache[c]) /\ Since(cache[c], c)
    BY DEF GraftInv, GraftTypes, Directory
  <2>2. CASE cache'[c] = Graft!NoIndex
    BY <2>1, <2>2 DEF Sound, Since
  <2>3. CASE floor'[c] = floor[c] /\ cache'[c] = cache[c]
    BY <2>1, <2>3 DEF Sound, Since
  <2>4. CASE floor'[c] = floor[c] /\ cache'[c] = [cache[c] EXCEPT !.fresh = FALSE]
    <3>1. cache[c] = Graft!NoIndex => cache'[c] = Graft!NoIndex
      <4>1. ASSUME cache[c] = Graft!NoIndex PROVE cache'[c] = Graft!NoIndex
        <5>1. cache'[c] \in Index /\ Graft!NoIndex \in Index
          BY DEF GraftTypes, Graft!NoIndex, Index, States
        <5>2. /\ cache'[c].key = Graft!NoIndex.key /\ cache'[c].moves = Graft!NoIndex.moves
              /\ cache'[c].tree = Graft!NoIndex.tree /\ cache'[c].state = Graft!NoIndex.state
              /\ cache'[c].fresh = Graft!NoIndex.fresh
          BY <2>1, <2>4, <4>1 DEF Graft!NoIndex
        <5> QED
          BY <5>1, <5>2 DEF Index
      <4> QED
        BY <4>1
    <3>2. /\ cache'[c].key = cache[c].key /\ cache'[c].moves = cache[c].moves
          /\ cache'[c].tree = cache[c].tree
      BY <2>1, <2>4 DEF Index
    <3> QED
      BY <2>1, <2>4, <3>1, <3>2 DEF Sound, Since
  <2> QED
    BY <2>1, <2>2, <2>3, <2>4
<1>2. ASSUME NEW r \in Readers, NEW c \in Indexed, reader[r].of = {c}
      PROVE  /\ Earlier(reader[r].stamp, c)'
             /\ reader[r].key >= 1 /\ reader[r].key <= graft'[c].moves
             /\ Sound(reader[r].entry) /\ Sound(reader[r].index)
             /\ reader[r].stamp = Graft!Stamp(c)' =>
                  Since(reader[r].entry, c)' /\ Since(reader[r].index, c)'
  <2>1. /\ graft[c].moves \in Nat /\ graft'[c].moves \in Nat /\ clears \in Nat /\ clears' \in Nat
        /\ gen[c] \in Nat /\ gen'[c] \in Nat /\ reader[r] \in Read
    BY DEF GraftInv, GraftTypes, Directory
  <2>2. /\ Earlier(reader[r].stamp, c)
        /\ reader[r].key >= 1 /\ reader[r].key <= graft[c].moves
        /\ Sound(reader[r].entry) /\ Sound(reader[r].index)
        /\ reader[r].stamp = Graft!Stamp(c) =>
             Since(reader[r].entry, c) /\ Since(reader[r].index, c)
    BY <1>2 DEF GraftInv
  <2>3. /\ reader[r].stamp[1] \in Nat /\ reader[r].stamp[2] \in Nat /\ reader[r].key \in Nat
        /\ reader[r].stamp = <<reader[r].stamp[1], reader[r].stamp[2]>>
    BY <2>1 DEF Read
  <2>4. Earlier(reader[r].stamp, c)'
    BY <2>1, <2>2, <2>3 DEF Earlier
  <2>5. reader[r].stamp = Graft!Stamp(c)' => floor'[c] = floor[c] /\ reader[r].stamp = Graft!Stamp(c)
    BY <2>1, <2>2, <2>3 DEF Earlier, Graft!Stamp
  <2>6. graft[c].moves <= graft'[c].moves
    OBVIOUS
  <2>7. reader[r].key <= graft'[c].moves
    BY <2>1, <2>2, <2>3, <2>6
  <2> QED
    BY <2>2, <2>4, <2>5, <2>7 DEF Since
<1> QED
  BY <1>1, <1>2 DEF GraftInv

LEMMA GraftRuns ==
  ASSUME GraftInv,
         \/ \E c \in Indexed : \/ Graft!RunStarts(c) \/ Graft!RunEnds(c) \/ Graft!Edited(c)
                               \/ Graft!Expires(c) \/ Graft!DeepQueued(c)
         \/ Graft!ScanPrunes \/ Graft!Clear \/ Graft!SweepGraftDeep \/ Graft!SweepConfirmed
  PROVE  GraftInv'
<1>0. GraftTypes
  BY DEF GraftInv
<1>1. ASSUME NEW c \in Indexed, Graft!RunStarts(c) PROVE GraftInv'
  <2>1. GraftTypes' /\ reader' = reader
    BY <1>0, <1>1 DEF Graft!RunStarts, GraftTypes, Directory
  <2> QED
    BY <1>0, <1>1, <2>1, GraftMoves DEF Graft!RunStarts, GraftTypes, Directory
<1>2. ASSUME NEW c \in Indexed, Graft!RunEnds(c) PROVE GraftInv'
  <2>1. /\ graft' = [graft EXCEPT ![c] = [moves |-> @.moves + 1, wiring |-> TRUE,
                                          deep |-> @.deep \/ deeps[c] > 0, built |-> tree[c]]]
        /\ Graft!Invalidate(c) \/ UNCHANGED <<cache, gen, floor>>
        /\ UNCHANGED <<tree, clears, reader>>
    BY <1>2 DEF Graft!RunEnds
  <2>2. /\ graft' \in [Indexed -> Directory] /\ graft'[c].moves = graft[c].moves + 1
        /\ \A d \in Indexed : graft'[d].moves \in Nat /\ graft'[d].moves >= graft[d].moves
    BY <1>0, <2>1 DEF GraftTypes, Directory
  <2>3. CASE UNCHANGED <<cache, gen, floor>>
    <3>1. GraftTypes'
      BY <1>0, <2>1, <2>2, <2>3 DEF GraftTypes
    <3> QED
      BY <1>0, <2>1, <2>2, <2>3, <3>1, GraftMoves DEF GraftTypes
  <2>4. CASE Graft!Invalidate(c)
    <3>1. /\ cache' = [cache EXCEPT ![c] = Graft!NoIndex] /\ gen' = [gen EXCEPT ![c] = @ + 1]
          /\ floor' = [floor EXCEPT ![c] = <<graft'[c].moves, tree[c]>>]
      BY <2>4 DEF Graft!Invalidate
    <3>2. GraftTypes'
      BY <1>0, <2>1, <2>2, <3>1 DEF GraftTypes, Graft!NoIndex, Index, States
    <3> QED
      BY <1>0, <2>1, <2>2, <3>1, <3>2, GraftMoves DEF GraftTypes
  <2> QED
    BY <2>1, <2>3, <2>4
<1>3. ASSUME NEW c \in Indexed, Graft!Edited(c) PROVE GraftInv'
  <2>1. GraftTypes' /\ reader' = reader
    BY <1>0, <1>3 DEF Graft!Edited, GraftTypes
  <2> QED
    BY <1>0, <1>3, <2>1, GraftMoves DEF Graft!Edited, GraftTypes, Directory
<1>4. ASSUME NEW c \in Indexed, Graft!Expires(c) PROVE GraftInv'
  <2>1. GraftTypes' /\ reader' = reader
    BY <1>0, <1>4 DEF Graft!Expires, GraftTypes, Index
  <2>2. \A d \in Indexed : cache'[d] \in {cache[d], [cache[d] EXCEPT !.fresh = FALSE]}
    BY <1>0, <1>4 DEF Graft!Expires, GraftTypes
  <2>3. UNCHANGED <<graft, tree, gen, clears, floor>>
    BY <1>4 DEF Graft!Expires
  <2> QED
    BY <1>0, <2>1, <2>2, <2>3, GraftMoves DEF GraftTypes, Directory
<1>5. CASE Graft!ScanPrunes
  <2>1. PICK keep \in SUBSET Indexed : Graft!Prune(keep)
    BY <1>5 DEF Graft!ScanPrunes
  <2> DEFINE gone == {c \in Indexed \ keep : cache[c] # Graft!NoIndex \/ gen[c] # 0}
  <2>2. /\ cache' = [c \in Indexed |-> IF c \in gone THEN Graft!NoIndex ELSE cache[c]]
        /\ gen' = [c \in Indexed |-> IF c \in gone THEN 0 ELSE gen[c]]
        /\ clears' = clears + 1
        /\ UNCHANGED <<graft, tree, floor, reader>>
    BY <1>5, <2>1 DEF Graft!ScanPrunes, Graft!Prune
  <2> HIDE DEF gone
  <2>3. GraftTypes'
    BY <1>0, <2>2 DEF GraftTypes, Graft!NoIndex, Index, States
  <2> QED
    BY <1>0, <2>2, <2>3, GraftMoves DEF GraftTypes, Directory
<1>6. CASE Graft!Clear
  <2>1. GraftTypes' /\ reader' = reader
    BY <1>0, <1>6 DEF Graft!Clear, GraftTypes, Graft!NoIndex, Index, States, Directory
  <2> QED
    BY <1>0, <1>6, <2>1, GraftMoves DEF Graft!Clear, GraftTypes, Directory
<1>7. ASSUME UNCHANGED <<graft, tree, cache, gen, clears, floor, reader>> PROVE GraftInv'
  BY <1>7 DEF GraftInv, GraftTypes, Sound, Since, Earlier, Graft!Stamp
<1> QED
  BY <1>1, <1>2, <1>3, <1>4, <1>5, <1>6, <1>7
     DEF Graft!DeepQueued, Graft!SweepGraftDeep, Graft!SweepConfirmed

LEMMA GraftReads ==
  ASSUME GraftInv, NEW r \in Readers, NEW c \in Indexed,
         Graft!ReadStarts(r, c) \/ Graft!Derives(r, c) \/ Graft!Stores(r, c)
  PROVE  GraftInv'
<1> USE DEF GraftInv
<1>0. /\ graft[c] \in Directory /\ tree[c] \in Nat /\ cache[c] \in Index /\ gen[c] \in Nat
      /\ floor[c] \in Nat \X Nat /\ reader[r] \in Read /\ clears \in Nat
      /\ Graft!NoIndex \in Index
  BY DEF GraftTypes, Graft!NoIndex, Index, States
<1>1. ASSUME UNCHANGED <<graft, tree, cache, gen, clears, floor>>,
             NEW x \in Read, reader' = [reader EXCEPT ![r] = x],
             \A d \in Indexed : x.of = {d} =>
               /\ Earlier(x.stamp, d) /\ x.key >= 1 /\ x.key <= graft[d].moves
               /\ Sound(x.entry) /\ Sound(x.index)
               /\ x.stamp = Graft!Stamp(d) => Since(x.entry, d) /\ Since(x.index, d)
      PROVE  GraftInv'
  <2>1. GraftTypes'
    BY <1>1 DEF GraftTypes
  <2>2. ASSUME NEW q \in Readers PROVE reader'[q] = IF q = r THEN x ELSE reader[q]
    BY <1>1 DEF GraftTypes
  <2> QED
    BY <1>1, <2>1, <2>2 DEF Earlier, Since, Graft!Stamp
<1>2. CASE Graft!ReadStarts(r, c)
  <2> DEFINE x == [of |-> {c}, stamp |-> Graft!Stamp(c), key |-> Graft!DirKey(c),
                   entry |-> cache[c], index |-> Graft!NoIndex]
  <2>1. /\ reader' = reader \/ reader' = [reader EXCEPT ![r] = x]
        /\ UNCHANGED <<graft, tree, cache, gen, clears, floor>>
    <3>1. [Graft!NoRead EXCEPT !.of = {c}, !.stamp = Graft!Stamp(c), !.key = Graft!DirKey(c),
                               !.entry = cache[c]] = x
      <4> DEFINE y == [Graft!NoRead EXCEPT !.of = {c}, !.stamp = Graft!Stamp(c), !.key = Graft!DirKey(c),
                                           !.entry = cache[c]]
      <4>1. /\ y.of = x.of /\ y.stamp = x.stamp /\ y.key = x.key /\ y.entry = x.entry
            /\ y.index = x.index
        BY DEF Graft!NoRead
      <4>2. x \in Read /\ y \in Read
        BY <1>0 DEF Graft!NoRead, Read, Graft!Stamp, Graft!DirKey, Directory
      <4> HIDE DEF x, y
      <4>3. x = y
        BY <4>1, <4>2 DEF Read
      <4> QED
        BY <4>3 DEF y
    <3>2. \/ reader' = reader
          \/ reader' = [reader EXCEPT ![r] = [Graft!NoRead EXCEPT !.of = {c}, !.stamp = Graft!Stamp(c),
                                                !.key = Graft!DirKey(c), !.entry = cache[c]]]
      BY <1>2 DEF Graft!ReadStarts
    <3> QED
      BY <1>2, <3>1, <3>2 DEF Graft!ReadStarts
  <2>2. x \in Read
    BY <1>0 DEF Read, Graft!Stamp, Graft!DirKey, Directory
  <2>3. \A d \in Indexed : x.of = {d} => d = c
    OBVIOUS
  <2>4. /\ Earlier(x.stamp, c) /\ x.key >= 1 /\ x.key <= graft[c].moves
        /\ Sound(x.entry) /\ Sound(x.index)
        /\ Since(x.entry, c) /\ Since(x.index, c)
    BY <1>0 DEF Earlier, Graft!Stamp, Graft!DirKey, Sound, Since, Directory
  <2> HIDE DEF x
  <2>5. CASE reader' = reader
    BY <2>1, <2>5 DEF GraftTypes, Sound, Since, Earlier, Graft!Stamp
  <2>6. CASE reader' = [reader EXCEPT ![r] = x]
    <3> HIDE DEF GraftInv
    <3>1. \A d \in Indexed : x.of = {d} =>
            /\ Earlier(x.stamp, d) /\ x.key >= 1 /\ x.key <= graft[d].moves
            /\ Sound(x.entry) /\ Sound(x.index)
            /\ x.stamp = Graft!Stamp(d) => Since(x.entry, d) /\ Since(x.index, d)
      BY <2>3, <2>4
    <3> QED
      BY <1>1, <2>1, <2>2, <2>6, <3>1
  <2> QED
    BY <2>1, <2>5, <2>6
<1>3. CASE Graft!Derives(r, c)
  <2> DEFINE e == reader[r].entry
             static == IF e.key = reader[r].key THEN e.moves ELSE graft[c].moves
             i == [key |-> reader[r].key, moves |-> static, tree |-> tree[c],
                   state |-> Graft!StateOf(c), fresh |-> TRUE]
             x == [reader[r] EXCEPT !.index = i]
  <2>1. /\ reader[r].of = {c} /\ reader' = [reader EXCEPT ![r].index = i]
        /\ UNCHANGED <<graft, tree, cache, gen, clears, floor>>
    BY <1>3 DEF Graft!Derives
  <2>2. /\ reader[r].key \in Nat /\ e \in Index /\ graft[c].moves \in Nat /\ e.moves \in Nat /\ e.key \in Nat
        /\ floor[c][1] \in Nat /\ floor[c][2] \in Nat /\ static \in Nat
    BY <1>0 DEF Read, Index, Directory
  <2>3. Graft!StateOf(c) \in States
    BY DEF Graft!StateOf, States
  <2>4. i \in Index
    BY <1>0, <2>2, <2>3 DEF Index
  <2>5. /\ Earlier(reader[r].stamp, c) /\ reader[r].key >= 1 /\ reader[r].key <= graft[c].moves
        /\ Sound(e) /\ (reader[r].stamp = Graft!Stamp(c) => Since(e, c))
        /\ floor[c][1] <= graft[c].moves /\ floor[c][2] <= tree[c]
    BY <2>1
  <2>6. e.key = reader[r].key => e # Graft!NoIndex
    BY <2>2, <2>5 DEF Graft!NoIndex
  <2>7. Sound(i)
    BY <2>2, <2>5, <2>6 DEF Sound
  <2>8. reader[r].stamp = Graft!Stamp(c) => Since(i, c)
    BY <2>2, <2>5, <2>6 DEF Since
  <2> HIDE DEF e, i
  <2>9. /\ x \in Read /\ x.of = {c} /\ x.stamp = reader[r].stamp /\ x.key = reader[r].key
        /\ x.entry = e /\ x.index = i /\ reader' = [reader EXCEPT ![r] = x]
    BY <1>0, <2>1, <2>4 DEF Read, e
  <2>10. \A d \in Indexed : x.of = {d} => d = c
    BY <2>9
  <2> HIDE DEF x, GraftInv
  <2>11. \A d \in Indexed : x.of = {d} =>
           /\ Earlier(x.stamp, d) /\ x.key >= 1 /\ x.key <= graft[d].moves
           /\ Sound(x.entry) /\ Sound(x.index)
           /\ x.stamp = Graft!Stamp(d) => Since(x.entry, d) /\ Since(x.index, d)
    BY <2>5, <2>7, <2>8, <2>9, <2>10
  <2> QED
    BY <1>1, <2>1, <2>9, <2>11
<1>4. CASE Graft!Stores(r, c)
  <2>1. /\ reader[r].of = {c}
        /\ cache' = IF Graft!Stamp(c) = reader[r].stamp THEN [cache EXCEPT ![c] = reader[r].index]
                    ELSE cache
        /\ reader' = [reader EXCEPT ![r] = Graft!NoRead]
        /\ UNCHANGED <<graft, tree, gen, clears, floor>>
    BY <1>4 DEF Graft!Stores
  <2>2. Graft!NoRead \in Read /\ \A d \in Indexed : Graft!NoRead.of # {d}
    BY <1>0 DEF Graft!NoRead, Read
  <2>3. reader[r].index \in Index /\ Sound(reader[r].index)
        /\ (reader[r].stamp = Graft!Stamp(c) => Since(reader[r].index, c))
    BY <1>0, <2>1 DEF Read
  <2>4. GraftTypes'
    BY <2>1, <2>2, <2>3 DEF GraftTypes
  <2>5. \A d \in Indexed : Sound(cache[d])' /\ Since(cache[d], d)'
    BY <2>1, <2>3 DEF GraftTypes, Sound, Since
  <2>6. \A q \in Readers : reader'[q] = IF q = r THEN Graft!NoRead ELSE reader[q]
    BY <2>1 DEF GraftTypes
  <2> QED
    BY <2>1, <2>2, <2>4, <2>5, <2>6 DEF Earlier, Since, Graft!Stamp
<1> QED
  BY <1>2, <1>3, <1>4

LEMMA StepGraft ==
  ASSUME GraftInv, Graft!GraftNext \/ UNCHANGED graftVars
  PROVE  GraftInv'
<1>1. CASE UNCHANGED graftVars
  BY <1>1 DEF graftVars, GraftInv, GraftTypes, Sound, Since, Earlier, Graft!Stamp
<1> QED
  BY <1>1, GraftRuns, GraftReads DEF Graft!GraftNext

\* What the cache holds is no older than its last invalidation and its key,
\* whatever reads were in flight when it was invalidated, pruned or cleared.
THEOREM CacheCorrect == Spec => []CachedIsCurrent
<1>1. (part = "graft" => GraftInv) /\ [Next]_partsVars => (part = "graft" => GraftInv)'
  BY PartSteps, StepGraft
<1>2. GraftInv => Graft!CachedIsCurrent
  BY DEF GraftInv, Sound, Since, Graft!CachedIsCurrent
<1> QED
  BY InitGraft, <1>1, <1>2, PTL DEF Spec, CachedIsCurrent

-----------------------------------------------------------------------------
(***************************************************************************)
(* The global graph.                                                       *)
(***************************************************************************)
\* What the rows say of their membership is what m does.
Shown(m) ==
  \A r \in Repos :
    /\ members[r].in = (Global!Entries(m, r) # {})
    /\ members[r].tag = IF Global!Entries(m, r) = {} THEN "" ELSE Global!ByGraph(m, r)

\* The rows are up to date, or a scan is in flight that was given the present
\* manifest, or one whose end starts another.
GlobalInv ==
  /\ scan = {} => ~dirty /\ Shown(manifest)
  /\ scan # {} /\ ~dirty => scan = {manifest}

LEMMA MembershipOf ==
  ASSUME NEW m, NEW r \in Repos
  PROVE  /\ Global!MemberOf(m, r).in = (Global!Entries(m, r) # {})
         /\ Global!MemberOf(m, r).tag = IF Global!Entries(m, r) = {} THEN ""
                                        ELSE Global!ByGraph(m, r)
  BY DEF Global!MemberOf, Global!NoMember

LEMMA InitGlobal == Init /\ part = "global" => GlobalInv
<1> SUFFICES ASSUME Global!GlobalInit PROVE GlobalInv
  BY DEF Init
<1>1. \A r \in Repos : Global!Entries(manifest, r) = {}
  BY GlobalConstants DEF Global!GlobalInit, Global!GlobalAssumptions, Global!Entries, Global!NoEntry
<1>2. \A r \in Repos : members[r] = Global!NoMember
  BY DEF Global!GlobalInit
<1> QED
  BY <1>1, <1>2, Zenon DEF Global!GlobalInit, GlobalInv, Shown, Global!NoMember

\* The manifest moves with a command's step alone, which asks for a scan.
LEMMA StepGlobal ==
  ASSUME GlobalInv, Global!GlobalNext \/ UNCHANGED globalVars
  PROVE  GlobalInv'
<1> USE DEF GlobalInv
<1>1. ASSUME UNCHANGED <<manifest, scan, dirty, members>> PROVE GlobalInv'
  <2>1. Shown(manifest) => Shown(manifest)'
    BY <1>1, Zenon DEF Shown
  <2> QED
    BY <1>1, <2>1
<1>2. CASE Global!ScanTick
  BY <1>2 DEF Global!ScanTick, Global!Refresh, Global!ScanIsDirty, Global!Load
<1>3. CASE Global!ScanLands
  <2>1. PICK m \in scan : members' = [r \in Repos |-> Global!MemberOf(m, r)]
    BY <1>3 DEF Global!ScanLands
  <2>2. manifest' = manifest
    BY <1>3 DEF Global!ScanLands
  <2>3. CASE dirty
    BY <1>3, <2>2, <2>3 DEF Global!ScanLands, Global!Load
  <2>4. CASE ~dirty
    <3>1. m = manifest /\ scan' = {} /\ dirty' = dirty
      BY <1>3, <2>1, <2>4 DEF Global!ScanLands
    <3>2. Shown(manifest)'
      BY <2>1, <2>2, <3>1, MembershipOf, Zenon DEF Shown
    <3> QED
      BY <2>4, <3>1, <3>2
  <2> QED
    BY <2>3, <2>4
<1>4. ASSUME NEW i \in DOMAIN chains, Global!Steps(i) PROVE GlobalInv'
  BY <1>4 DEF Global!Steps, Global!ScanIsDirty
<1>5. ASSUME NEW rs, Global!GlobalAdd(rs) PROVE GlobalInv'
  BY <1>1, <1>5 DEF Global!GlobalAdd
<1>6. ASSUME NEW r \in Repos, Global!Builds(r) \/ Global!AutoFixAdds(r) PROVE GlobalInv'
  BY <1>1, <1>6 DEF Global!Builds, Global!AutoFixAdds
<1>7. CASE Global!ResyncChecked \/ Global!RemoveChecked \/ Global!Answered
  BY <1>1, <1>7 DEF Global!ResyncChecked, Global!RemoveChecked, Global!Answered
<1>8. CASE \/ \E rs \in SUBSET Repos : Global!GlobalRemove(rs)
           \/ \E t \in Tags : Global!Tick(t)
           \/ UNCHANGED globalVars
  BY <1>1, <1>8 DEF Global!GlobalRemove, Global!Tick, globalVars
<1> QED
  BY <1>2, <1>3, <1>4, <1>5, <1>6, <1>7, <1>8 DEF Global!GlobalNext, Global!GlobalToggle

\* However commands, their failures and the scans before them interleave, at rest
\* every row says of its membership what the manifest does.
THEOREM MembershipCorrect == Spec => []MembershipShown
<1>1. (part = "global" => GlobalInv) /\ [Next]_partsVars => (part = "global" => GlobalInv)'
  BY PartSteps, StepGlobal
<1>2. GlobalInv => Global!MembershipShown
  BY MembershipOf, Zenon DEF GlobalInv, Shown, Global!MembershipShown
<1> QED
  BY InitGlobal, <1>1, <1>2, PTL DEF Spec, MembershipShown

-----------------------------------------------------------------------------
(***************************************************************************)
(* The job list across a restart.                                          *)
(***************************************************************************)
Statuses == {"queued", "running"} \cup Relaunch!Finished
JobEntry(n) ==
  [number : 1 .. n, class : Relaunch!Classes, status : Statuses, held : BOOLEAN, paused : BOOLEAN]

\* A list of the first n jobs ever made, none of them twice.
Listed(list, n) ==
  /\ list \in Seq(JobEntry(n))
  /\ \A i, j \in DOMAIN list : list[i].number = list[j].number => i = j

\* A billed job that may start has somebody's consent, and shares it with no job.
RestartInv ==
  /\ made \in Nat
  /\ Listed(jobList, made) /\ Listed(sidecar, made) /\ Listed(savedJobs, made)
  /\ unasked = {}
  /\ \A j \in DOMAIN jobList :
       /\ jobList[j].class = "billed" /\ jobList[j].status = "queued" /\ ~jobList[j].held
       => jobList[j].number \in consent

LEMMA ListedSame ==
  ASSUME NEW n \in Nat, NEW list, Listed(list, n),
         NEW new \in [DOMAIN list -> JobEntry(n)],
         \A i \in DOMAIN list : new[i].number = list[i].number
  PROVE  Listed(new, n)
<1>1. Len(list) \in Nat /\ DOMAIN list = 1 .. Len(list)
  BY DEF Listed
<1>2. new \in Seq(JobEntry(n))
  BY <1>1
<1> QED
  BY <1>2 DEF Listed

LEMMA ListedMore ==
  ASSUME NEW n \in Nat, NEW list, Listed(list, n)
  PROVE  Listed(list, n + 1)
<1>1. JobEntry(n) \subseteq JobEntry(n + 1)
  BY DEF JobEntry
<1>2. Len(list) \in Nat /\ list \in [1 .. Len(list) -> JobEntry(n + 1)] /\ DOMAIN list = 1 .. Len(list)
  BY <1>1 DEF Listed
<1>3. list \in Seq(JobEntry(n + 1))
  BY <1>2
<1> QED
  BY <1>3 DEF Listed

LEMMA ListedPicked ==
  ASSUME NEW n \in Nat, NEW list, Listed(list, n), NEW I \in SUBSET DOMAIN list
  PROVE  /\ Listed(Relaunch!Picked(list, I), n)
         /\ Relaunch!WorkIn(Relaunch!Picked(list, I)) =
              {list[i].number : i \in {i \in I : Relaunch!Outstanding(list[i])}}
<1> DEFINE kept == Picked(list, I)
<1>0. Relaunch!Picked(list, I) = kept
  <2>1. \A T : Relaunch!Cardinality(T) = Cardinality(T)
    BY Zenon DEF Relaunch!Cardinality, Cardinality
  <2>2. ASSUME NEW k PROVE Relaunch!Nth(I, k) = Nth(I, k)
    <3> DEFINE any(S) == CHOOSE i \in S : TRUE
               there == {i \in I : Relaunch!Cardinality({j \in I : j <= i}) = k}
               here  == {i \in I : Cardinality({j \in I : j <= i}) = k}
    <3>1. there = here
      BY <2>1
    <3>2. Relaunch!Nth(I, k) = any(there) /\ Nth(I, k) = any(here)
      BY DEF Relaunch!Nth, Nth
    <3> HIDE DEF any, there, here
    <3> QED
      BY <3>1, <3>2
  <2> QED
    BY <2>1, <2>2 DEF Relaunch!Picked, Picked
<1>1. list \in Seq(JobEntry(n))
  BY DEF Listed
<1>2. /\ kept \in Seq(JobEntry(n))
      /\ \E p \in [DOMAIN kept -> I] :
              /\ \A k \in DOMAIN kept : kept[k] = list[p[k]]
              /\ \A k, l \in DOMAIN kept : p[k] = p[l] => k = l
              /\ \A i \in I : \E k \in DOMAIN kept : p[k] = i
  BY <1>1, PickedOf, SMTT(30)
<1> HIDE DEF kept
<1>3. PICK p \in [DOMAIN kept -> I] :
              /\ \A k \in DOMAIN kept : kept[k] = list[p[k]]
              /\ \A k, l \in DOMAIN kept : p[k] = p[l] => k = l
              /\ \A i \in I : \E k \in DOMAIN kept : p[k] = i
  BY <1>2
<1>4. Listed(kept, n)
  <2>1. ASSUME NEW k \in DOMAIN kept, NEW l \in DOMAIN kept, kept[k].number = kept[l].number
        PROVE  k = l
    <3>1. p[k] \in DOMAIN list /\ p[l] \in DOMAIN list /\ list[p[k]].number = list[p[l]].number
      BY <1>3, <2>1
    <3> QED
      BY <1>3, <3>1 DEF Listed
  <2> QED
    BY <1>2, <2>1 DEF Listed
<1>5. Relaunch!WorkIn(kept) =
        {list[i].number : i \in {i \in I : Relaunch!Outstanding(list[i])}}
  BY <1>3 DEF Relaunch!WorkIn
<1> QED
  BY <1>0, <1>4, <1>5

LEMMA ListedReverse ==
  ASSUME NEW n \in Nat, NEW list, Listed(list, n)
  PROVE  /\ Listed(Relaunch!Reverse(list), n)
         /\ Relaunch!WorkIn(Relaunch!Reverse(list)) = Relaunch!WorkIn(list)
<1> DEFINE back == Relaunch!Reverse(list)
<1>1. Len(list) \in Nat /\ DOMAIN list = 1 .. Len(list) /\ \A i \in DOMAIN list : list[i] \in JobEntry(n)
  BY DEF Listed
<1>2. /\ DOMAIN back = 1 .. Len(list)
      /\ \A i \in 1 .. Len(list) : back[i] = list[Len(list) - i + 1] /\ Len(list) - i + 1 \in 1 .. Len(list)
      /\ back \in [1 .. Len(list) -> JobEntry(n)]
  BY <1>1 DEF Relaunch!Reverse
<1> HIDE DEF back
<1>3. back \in Seq(JobEntry(n))
  BY <1>1, <1>2
<1>4. ASSUME NEW i \in DOMAIN back, NEW j \in DOMAIN back, back[i].number = back[j].number
      PROVE  i = j
  <2> DEFINE a == Len(list) - i + 1
             b == Len(list) - j + 1
  <2>1. a \in DOMAIN list /\ b \in DOMAIN list /\ back[i] = list[a] /\ back[j] = list[b]
    BY <1>1, <1>2
  <2>2. a = b => i = j
    BY <1>1, <1>2
  <2> HIDE DEF a, b
  <2> QED
    BY <1>4, <2>1, <2>2 DEF Listed
<1>5. ASSUME NEW i \in 1 .. Len(list)
      PROVE  \E k \in 1 .. Len(list) : list[i] = back[k] /\ back[i] = list[k]
  <2>1. Len(list) - i + 1 \in 1 .. Len(list) /\ Len(list) - (Len(list) - i + 1) + 1 = i
    BY <1>1
  <2>2. list[i] = back[Len(list) - i + 1] /\ back[i] = list[Len(list) - i + 1]
    BY <1>2, <2>1
  <2> QED
    BY <2>1, <2>2
<1>6. Relaunch!WorkIn(back) = Relaunch!WorkIn(list)
  <2>1. ASSUME NEW m \in Relaunch!WorkIn(back) PROVE m \in Relaunch!WorkIn(list)
    <3>1. PICK i \in 1 .. Len(list) : Relaunch!Outstanding(back[i]) /\ m = back[i].number
      BY <1>2 DEF Relaunch!WorkIn
    <3> QED
      BY <1>1, <1>5, <3>1 DEF Relaunch!WorkIn
  <2>2. ASSUME NEW m \in Relaunch!WorkIn(list) PROVE m \in Relaunch!WorkIn(back)
    <3>1. PICK i \in 1 .. Len(list) : Relaunch!Outstanding(list[i]) /\ m = list[i].number
      BY <1>1 DEF Relaunch!WorkIn
    <3> QED
      BY <1>2, <1>5, <3>1 DEF Relaunch!WorkIn
  <2> QED
    BY <2>1, <2>2
<1> QED
  BY <1>3, <1>4, <1>6 DEF Listed, back

\* What the sidecar keeps of a list: the finished jobs are bounded, nothing else.
LEMMA SetJobsKeep ==
  ASSUME RestartInv
  PROVE  Listed(Relaunch!SetJobs, made) /\ Relaunch!WorkIn(Relaunch!SetJobs) = Relaunch!WorkIn(jobList)
<1> DEFINE list == Relaunch!Reverse(jobList)
<1>1. made \in Nat /\ Listed(jobList, made)
  BY DEF RestartInv
<1>2. Listed(list, made) /\ Relaunch!WorkIn(list) = Relaunch!WorkIn(jobList)
  BY <1>1, ListedReverse
<1>3. Relaunch!SetJobs = Relaunch!TrimJobs(list)
  BY DEF Relaunch!SetJobs
<1> HIDE DEF list
<1>4. PICK I \in SUBSET DOMAIN list :
        /\ Relaunch!TrimJobs(list) = Relaunch!Picked(list, I)
        /\ \A i \in DOMAIN list : Relaunch!Outstanding(list[i]) => i \in I
  <2> DEFINE done(i) == Relaunch!Cardinality({k \in 1 .. i : ~Relaunch!Outstanding(list[k])})
             I == {i \in DOMAIN list : Relaunch!Outstanding(list[i]) \/ done(i) <= MaxHistory}
  <2>1. Relaunch!TrimJobs(list) = Relaunch!Picked(list, I)
    BY Zenon DEF Relaunch!TrimJobs
  <2> QED
    BY <2>1
<1>5. {list[i].number : i \in {i \in I : Relaunch!Outstanding(list[i])}} = Relaunch!WorkIn(list)
  BY <1>4 DEF Relaunch!WorkIn
<1> QED
  BY <1>1, <1>2, <1>3, <1>4, <1>5, ListedPicked

LEMMA InitRestart == Init /\ part = "restart" => RestartInv
<1> SUFFICES ASSUME Relaunch!RestartInit PROVE RestartInv
  BY DEF Init
<1>1. \A n : Listed(<<>>, n)
  BY DEF Listed
<1> QED
  BY <1>1 DEF Relaunch!RestartInit, RestartInv

\* A click, on a board or on a row.
LEMMA AskRestart ==
  ASSUME RestartInv, NEW class \in Relaunch!Classes, Relaunch!Ask(class)
  PROVE  RestartInv'
<1> DEFINE x == [number |-> made + 1, class |-> class, status |-> "queued",
                 held |-> FALSE, paused |-> FALSE]
<1>1. /\ made \in Nat /\ Listed(jobList, made) /\ Listed(sidecar, made) /\ Listed(savedJobs, made)
      /\ unasked = {}
  BY DEF RestartInv
<1>2. /\ made' = made + 1 /\ jobList' = Append(jobList, x)
      /\ consent' = consent \cup {n \in {made + 1} : class = "billed"}
      /\ UNCHANGED <<sidecar, savedJobs, unasked>>
  BY DEF Relaunch!Ask
<1>3. x \in JobEntry(made + 1) /\ x.number = made + 1 /\ x.class = class
  BY <1>1 DEF JobEntry, Statuses
<1>4. /\ Listed(jobList, made + 1) /\ Listed(sidecar, made + 1) /\ Listed(savedJobs, made + 1)
  BY <1>1, ListedMore
<1> DEFINE L == Len(jobList)
<1>5. L \in Nat /\ DOMAIN jobList = 1 .. L
  BY <1>1 DEF Listed
<1>6. \A i \in 1 .. L : jobList[i].number # made + 1
  <2>1. \A i \in 1 .. L : jobList[i] \in JobEntry(made)
    BY <1>1, <1>5 DEF Listed
  <2> QED
    BY <1>1, <2>1 DEF JobEntry
<1> HIDE DEF x
<1>7. /\ jobList' \in Seq(JobEntry(made + 1)) /\ DOMAIN jobList' = 1 .. L + 1
      /\ \A i \in 1 .. L : jobList'[i] = jobList[i]
      /\ jobList'[L + 1] = x
  BY <1>2, <1>3, <1>4, <1>5 DEF Listed
<1> HIDE DEF L
<1>8. Listed(jobList', made + 1)
  <2>1. ASSUME NEW i \in 1 .. L + 1, NEW j \in 1 .. L + 1, jobList'[i].number = jobList'[j].number
        PROVE  i = j
    <3>1. CASE i \in 1 .. L /\ j \in 1 .. L
      BY <1>1, <1>5, <1>7, <2>1, <3>1 DEF Listed
    <3>2. CASE i = L + 1 /\ j \in 1 .. L
      BY <1>3, <1>6, <1>7, <2>1, <3>2
    <3>3. CASE i \in 1 .. L /\ j = L + 1
      BY <1>3, <1>6, <1>7, <2>1, <3>3
    <3> QED
      BY <1>5, <3>1, <3>2, <3>3
  <2> QED
    BY <1>7, <2>1 DEF Listed
<1>9. ASSUME NEW j \in DOMAIN jobList', jobList'[j].class = "billed",
             jobList'[j].status = "queued", ~jobList'[j].held
      PROVE  jobList'[j].number \in consent'
  <2>1. CASE j \in 1 .. L
    <3>1. jobList'[j] = jobList[j] /\ j \in DOMAIN jobList
      BY <1>5, <1>7, <2>1
    <3> QED
      BY <1>2, <1>9, <3>1 DEF RestartInv
  <2>2. CASE j = L + 1
    BY <1>2, <1>3, <1>7, <1>9, <2>2
  <2> QED
    BY <1>5, <1>7, <2>1, <2>2
<1> QED
  BY <1>1, <1>2, <1>4, <1>8, <1>9 DEF RestartInv

\* What a job becomes that the board and the runner move.
LEMMA MoveRestart ==
  ASSUME RestartInv, NEW j \in DOMAIN jobList, UNCHANGED <<sidecar, savedJobs, made>>,
         NEW x \in JobEntry(made), jobList' = [jobList EXCEPT ![j] = x],
         x.number = jobList[j].number, unasked' = {},
         consent' = consent \/ (consent' = consent \ {x.number} /\ x.status # "queued"),
         x.class = "billed" /\ x.status = "queued" /\ ~x.held => x.number \in consent
  PROVE  RestartInv'
<1>1. /\ made \in Nat /\ Listed(jobList, made)
      /\ \A i, k \in DOMAIN jobList : jobList[i].number = jobList[k].number => i = k
      /\ \A i \in DOMAIN jobList : jobList[i] \in JobEntry(made)
  BY DEF RestartInv, Listed
<1>2. /\ jobList' \in [DOMAIN jobList -> JobEntry(made)]
      /\ \A i \in DOMAIN jobList : jobList'[i] = IF i = j THEN x ELSE jobList[i]
  <2>1. jobList \in [DOMAIN jobList -> JobEntry(made)]
    BY <1>1 DEF Listed
  <2> QED
    BY <2>1
<1>3. Listed(jobList', made)
  BY <1>1, <1>2, ListedSame
<1>4. ASSUME NEW i \in DOMAIN jobList, jobList'[i].class = "billed",
             jobList'[i].status = "queued", ~jobList'[i].held
      PROVE  jobList'[i].number \in consent'
  <2>1. CASE i = j
    BY <1>2, <1>4, <2>1
  <2>2. CASE i # j
    <3>1. jobList'[i] = jobList[i] /\ jobList[i].number # x.number
      BY <1>1, <1>2, <2>2
    <3>2. jobList[i].number \in consent
      BY <1>4, <3>1 DEF RestartInv
    <3> QED
      BY <3>1, <3>2
  <2> QED
    BY <2>1, <2>2
<1> QED
  BY <1>2, <1>3, <1>4 DEF RestartInv

LEMMA JobRestart ==
  ASSUME RestartInv, NEW j \in DOMAIN jobList,
         \/ Relaunch!TogglePause(j) \/ Relaunch!CancelJob(j)
         \/ Relaunch!StartJob(j) \/ Relaunch!EndJob(j)
  PROVE  RestartInv'
<1> DEFINE e == jobList[j]
<1>1. /\ e \in JobEntry(made) /\ made \in Nat /\ unasked = {}
      /\ e.class = "billed" /\ e.status = "queued" /\ ~e.held => e.number \in consent
  BY DEF RestartInv, Listed
<1>2. ASSUME NEW s \in Relaunch!Finished, Relaunch!EndsAs(j, s) PROVE RestartInv'
  <2> DEFINE x == [e EXCEPT !.status = s, !.paused = FALSE, !.held = FALSE]
  <2>1. x \in JobEntry(made) /\ x.number = e.number /\ x.status # "queued"
    BY <1>1 DEF JobEntry, Statuses, Relaunch!Finished
  <2>2. /\ jobList' = [jobList EXCEPT ![j] = x]
        /\ UNCHANGED <<sidecar, savedJobs, made, consent, unasked>>
    BY <1>2 DEF Relaunch!EndsAs, Relaunch!billVars
  <2> HIDE DEF x
  <2> QED
    BY <1>1, <2>1, <2>2, MoveRestart
<1>3. CASE Relaunch!TogglePause(j)
  <2> DEFINE x == [e EXCEPT !.paused = ~@]
  <2>1. x \in JobEntry(made) /\ x.number = e.number /\ x.status = e.status
    BY <1>1 DEF JobEntry
  <2>2. /\ jobList' = [jobList EXCEPT ![j] = x] /\ e.status = "running"
        /\ UNCHANGED <<sidecar, savedJobs, made, consent, unasked>>
    BY <1>3 DEF Relaunch!TogglePause, Relaunch!billVars
  <2> HIDE DEF x
  <2> QED
    BY <1>1, <2>1, <2>2, MoveRestart
<1>4. CASE Relaunch!StartJob(j)
  <2> DEFINE x == [e EXCEPT !.status = "running"]
  <2>1. x \in JobEntry(made) /\ x.number = e.number /\ x.status = "running"
    BY <1>1 DEF JobEntry, Statuses
  <2>2. /\ jobList' = [jobList EXCEPT ![j] = x] /\ consent' = consent \ {e.number}
        /\ unasked' = unasked \cup {n \in {e.number} \ consent : e.class = "billed"}
        /\ e.status = "queued" /\ ~e.held
        /\ UNCHANGED <<sidecar, savedJobs, made>>
    BY <1>4 DEF Relaunch!StartJob, Relaunch!userVars
  <2>3. unasked' = {}
    BY <1>1, <2>2
  <2> HIDE DEF x
  <2> QED
    BY <1>1, <2>1, <2>2, <2>3, MoveRestart
<1> QED
  BY <1>2, <1>3, <1>4 DEF Relaunch!CancelJob, Relaunch!EndJob, Relaunch!Finished

\* The start of held jobs is their consent.
LEMMA ReleaseRestart ==
  ASSUME RestartInv, NEW js \in SUBSET DOMAIN jobList, Relaunch!Released(js)
  PROVE  RestartInv'
<1>1. /\ made \in Nat /\ Listed(jobList, made)
      /\ \A i \in DOMAIN jobList : jobList[i] \in JobEntry(made)
  BY DEF RestartInv, Listed
<1>2. /\ jobList' = [j \in DOMAIN jobList |-> IF j \in js THEN [jobList[j] EXCEPT !.held = FALSE]
                                              ELSE jobList[j]]
      /\ consent' = consent \cup {jobList[j].number : j \in {j \in js : jobList[j].class = "billed"}}
      /\ UNCHANGED <<sidecar, savedJobs, made, unasked>>
  BY DEF Relaunch!Released, Relaunch!Jobs
<1>3. ASSUME NEW j \in DOMAIN jobList
      PROVE  /\ jobList'[j] \in JobEntry(made) /\ jobList'[j].number = jobList[j].number
             /\ jobList'[j].class = jobList[j].class /\ jobList'[j].status = jobList[j].status
             /\ j \notin js => jobList'[j] = jobList[j]
  <2> DEFINE x == [jobList[j] EXCEPT !.held = FALSE]
  <2>1. /\ x \in JobEntry(made) /\ x.number = jobList[j].number
        /\ x.class = jobList[j].class /\ x.status = jobList[j].status
    BY <1>1 DEF JobEntry
  <2>2. jobList'[j] = IF j \in js THEN x ELSE jobList[j]
    BY <1>2
  <2> HIDE DEF x
  <2> QED
    BY <1>1, <2>1, <2>2
<1>4. jobList' \in [DOMAIN jobList -> JobEntry(made)] /\ DOMAIN jobList' = DOMAIN jobList
  BY <1>2, <1>3
<1>5. Listed(jobList', made)
  BY <1>1, <1>3, <1>4, ListedSame
<1>6. ASSUME NEW j \in DOMAIN jobList, jobList'[j].class = "billed",
             jobList'[j].status = "queued", ~jobList'[j].held
      PROVE  jobList'[j].number \in consent'
  <2>1. CASE j \in js
    <3>1. jobList[j].number \in {jobList[i].number : i \in {i \in js : jobList[i].class = "billed"}}
      BY <1>3, <1>6, <2>1
    <3> QED
      BY <1>2, <1>3, <3>1
  <2>2. CASE j \notin js
    BY <1>2, <1>3, <1>6, <2>2 DEF RestartInv
  <2> QED
    BY <2>1, <2>2
<1> QED
  BY <1>2, <1>4, <1>5, <1>6 DEF RestartInv

\* The next session: what bills comes back held, what was outstanding comes back.
LEMMA LaunchRestart ==
  ASSUME RestartInv, Relaunch!LaunchBoard
  PROVE  RestartInv' /\ Relaunch!WorkIn(savedJobs) \ missing \subseteq Relaunch!WorkIn(jobList')
<1> DEFINE past == Relaunch!Reverse(savedJobs)
           I == {i \in DOMAIN past : \/ ~Relaunch!Outstanding(past[i])
                                     \/ past[i].number \notin missing}
           kept == Relaunch!Picked(past, I)
<1>1. made \in Nat /\ Listed(savedJobs, made) /\ unasked = {}
  BY DEF RestartInv
<1>2. Listed(past, made) /\ Relaunch!WorkIn(past) = Relaunch!WorkIn(savedJobs)
  BY <1>1, ListedReverse
<1>3. PICK server \in BOOLEAN :
        jobList' = [i \in DOMAIN kept |-> Relaunch!RestoredJob(kept[i], server)]
  BY DEF Relaunch!LaunchBoard
<1>4. sidecar' = savedJobs /\ UNCHANGED <<savedJobs, made, consent, unasked>>
  BY DEF Relaunch!LaunchBoard, Relaunch!userVars, Relaunch!billVars
<1> HIDE DEF past
<1>5. /\ Listed(kept, made)
      /\ Relaunch!WorkIn(kept) = {past[i].number : i \in {i \in I : Relaunch!Outstanding(past[i])}}
  BY <1>1, <1>2, ListedPicked
<1>6. Relaunch!WorkIn(past) \ missing \subseteq Relaunch!WorkIn(kept)
  BY <1>5 DEF Relaunch!WorkIn
<1> HIDE DEF kept, I
<1>7. ASSUME NEW i \in DOMAIN kept
      PROVE  /\ jobList'[i] \in JobEntry(made) /\ jobList'[i].number = kept[i].number
             /\ Relaunch!Outstanding(kept[i]) => Relaunch!Outstanding(jobList'[i])
             /\ jobList'[i].class = "billed" /\ jobList'[i].status = "queued" => jobList'[i].held
  <2> DEFINE e == kept[i]
             x == [e EXCEPT !.status = "queued", !.paused = FALSE,
                            !.held = IF e.status = "running" THEN Relaunch!ResumedHeld(e, server)
                                     ELSE e.held \/ e.class \in {"billed", "local"}]
  <2>1. e \in JobEntry(made)
    BY <1>5 DEF Listed
  <2>2. jobList'[i] = IF Relaunch!Outstanding(e) THEN x ELSE e
    BY <1>3, Zenon DEF Relaunch!RestoredJob
  <2>3. ~Relaunch!Outstanding(e) => e.status # "queued"
    BY DEF Relaunch!Outstanding, Relaunch!Finished
  <2>4. /\ x \in JobEntry(made) /\ x.number = e.number /\ x.class = e.class /\ x.status = "queued"
        /\ x.held = IF e.status = "running" THEN Relaunch!ResumedHeld(e, server)
                    ELSE e.held \/ e.class \in {"billed", "local"}
    <3>1. Relaunch!ResumedHeld(e, server) \in BOOLEAN
      BY <2>1 DEF Relaunch!ResumedHeld, JobEntry
    <3> QED
      BY <2>1, <3>1 DEF JobEntry, Statuses
  <2> HIDE DEF x
  <2>5. x.class = "billed" => x.held
    BY <2>4 DEF Relaunch!ResumedHeld
  <2> QED
    BY <2>1, <2>2, <2>3, <2>4, <2>5 DEF Relaunch!Outstanding, Relaunch!Finished
<1>8. jobList' \in [DOMAIN kept -> JobEntry(made)] /\ DOMAIN jobList' = DOMAIN kept
  BY <1>3, <1>7
<1>9. Listed(jobList', made)
  BY <1>1, <1>5, <1>7, <1>8, ListedSame
<1>10. RestartInv'
  BY <1>1, <1>4, <1>7, <1>8, <1>9 DEF RestartInv
<1>11. Relaunch!WorkIn(kept) \subseteq Relaunch!WorkIn(jobList')
  BY <1>7, <1>8 DEF Relaunch!WorkIn
<1> QED
  BY <1>2, <1>6, <1>10, <1>11

LEMMA StepRestart ==
  ASSUME RestartInv, Relaunch!RestartNext \/ UNCHANGED relaunchVars
  PROVE  RestartInv' /\ Relaunch!QueueKept
<1>0. \A n : Listed(<<>>, n)
  BY DEF Listed
<1>1. ASSUME life' = life PROVE Relaunch!QueueKept
  BY <1>1 DEF Relaunch!QueueKept
<1>2. ASSUME NEW class \in Relaunch!Classes, Relaunch!Ask(class) PROVE RestartInv' /\ life' = life
  BY <1>2, AskRestart DEF Relaunch!Ask
<1>3. ASSUME NEW j \in DOMAIN jobList,
             \/ Relaunch!RetryJob(j) \/ Relaunch!StartHeld(j) \/ Relaunch!TogglePause(j)
             \/ Relaunch!CancelJob(j) \/ Relaunch!StartJob(j) \/ Relaunch!EndJob(j)
      PROVE  RestartInv' /\ life' = life
  <2>1. CASE Relaunch!RetryJob(j)
    <3>1. jobList[j] \in JobEntry(made)
      BY DEF RestartInv, Listed
    <3> QED
      BY <1>2, <2>1, <3>1 DEF Relaunch!RetryJob, JobEntry
  <2>2. CASE Relaunch!StartHeld(j)
    BY <2>2, ReleaseRestart DEF Relaunch!StartHeld, Relaunch!Released
  <2>3. CASE \/ Relaunch!TogglePause(j) \/ Relaunch!CancelJob(j)
             \/ Relaunch!StartJob(j) \/ Relaunch!EndJob(j)
    <3>1. life' = life
      BY <2>3 DEF Relaunch!TogglePause, Relaunch!CancelJob, Relaunch!StartJob, Relaunch!EndJob,
                  Relaunch!EndsAs
    <3> QED
      BY <2>3, <3>1, JobRestart
  <2> QED
    BY <1>3, <2>1, <2>2, <2>3
<1>4. CASE Relaunch!StartAllHeld
  <2>1. Relaunch!HeldJobs \in SUBSET DOMAIN jobList
    BY DEF Relaunch!HeldJobs, Relaunch!Jobs
  <2>2. Relaunch!Released(Relaunch!HeldJobs) /\ life' = life
    BY <1>4 DEF Relaunch!StartAllHeld, Relaunch!Released
  <2> QED
    BY <1>1, <2>1, <2>2, ReleaseRestart
<1>5. CASE Relaunch!PersistJobs
  BY <1>1, <1>5, SetJobsKeep
     DEF Relaunch!PersistJobs, RestartInv, Relaunch!userVars, Relaunch!billVars
<1>6. CASE Relaunch!SaveJobs \/ (\E n \in Relaunch!Number : Relaunch!DirectoryGoes(n))
           \/ UNCHANGED relaunchVars
  BY <1>1, <1>6 DEF Relaunch!SaveJobs, Relaunch!DirectoryGoes, relaunchVars, RestartInv,
                    Relaunch!userVars, Relaunch!billVars
<1>7. CASE Relaunch!QuitBoard
  <2>1. /\ life = "up" /\ life' = "quit" /\ savedJobs' = Relaunch!SetJobs
        /\ jobList' = <<>> /\ sidecar' = <<>> /\ UNCHANGED <<made, consent, unasked>>
    BY <1>7 DEF Relaunch!QuitBoard, Relaunch!userVars, Relaunch!billVars
  <2>2. RestartInv'
    BY <1>0, <2>1, SetJobsKeep DEF RestartInv
  <2> QED
    BY <2>1, <2>2, SetJobsKeep DEF Relaunch!QueueKept
<1>8. CASE Relaunch!CrashBoard
  BY <1>0, <1>8 DEF Relaunch!CrashBoard, RestartInv, Relaunch!userVars, Relaunch!billVars,
                    Relaunch!QueueKept
<1>9. CASE Relaunch!LaunchBoard
  <2>1. life # "up" /\ life' = "up" /\ missing' = missing
    BY <1>9 DEF Relaunch!LaunchBoard, Relaunch!userVars
  <2> QED
    BY <1>9, <2>1, LaunchRestart DEF Relaunch!QueueKept
<1> QED
  BY <1>1, <1>2, <1>3, <1>4, <1>5, <1>6, <1>7, <1>8, <1>9
     DEF Relaunch!RestartNext, Relaunch!RunAction, Relaunch!Jobs

\* Through any clicks, crashes and restarts, no billed job starts without a click
\* since it was made, held, or started before.
THEOREM UnaskedCorrect == Spec => []NeverBilledUnasked
<1>1. (part = "restart" => RestartInv) /\ [Next]_partsVars => (part = "restart" => RestartInv)'
  BY PartSteps, StepRestart
<1>2. (part = "restart" => RestartInv) => NeverBilledUnasked
  BY DEF RestartInv, NeverBilledUnasked, Relaunch!NeverBilledUnasked
<1> QED
  BY InitRestart, <1>1, <1>2, PTL DEF Spec

\* A quit writes down all the outstanding work, however long the history that is
\* trimmed with it, and the next session lists it again.
THEOREM QueueCorrect == Spec => QueueSurvives
<1>1. (part = "restart" => RestartInv) /\ [Next]_partsVars => (part = "restart" => RestartInv)'
  BY PartSteps, StepRestart
<1>2. (part = "restart" => RestartInv) /\ [Next]_partsVars
        => [part = "restart" => Relaunch!QueueKept]_partsVars
  BY PartSteps, StepRestart
<1> QED
  BY InitRestart, <1>1, <1>2, PTL DEF Spec, QueueSurvives

-----------------------------------------------------------------------------
(***************************************************************************)
(* The routing of billed work.                                             *)
(***************************************************************************)
IsList(list) == Len(list) \in Nat /\ list = [i \in 1 .. Len(list) |-> list[i]]

JobFields == {"kind", "repo", "backend", "model", "sized", "target", "cost", "local", "var", "key",
              "status", "held", "asked", "shown"}

\* What no retry or restart may start again without asking is what bills; what
\* claude runs names its model, or leaves it to an overlay of the user's.
Routed(j) ==
  /\ DOMAIN j = JobFields
  /\ j.repo \in Repos /\ j.local \in BOOLEAN /\ j.held \in BOOLEAN /\ j.asked \in BOOLEAN
  /\ Route!Bills(j.target) => j.cost = "metered" /\ ~j.local
  /\ Route!Waiting(j) /\ Route!Bills(j.target) => j.asked
  /\ j.target = "claude-cli" =>
       /\ j.kind # "graft-deep" /\ j.backend = "claude-cli"
       /\ j.model # "" => j.var \in {j.model} \cup (Overlays \ {""})

\* What a submit under asked may be of: a sweep of graft's deep pass nobody was
\* asked about is on the local server.
Told(kind, backend, asked) ==
  /\ asked \in BOOLEAN
  /\ \/ kind = "extract" /\ asked
     \/ kind = "graft-deep" /\ (backend = "ollama" \/ (backend = "opencode" /\ asked))

RoutingInv ==
  /\ overlay \in [Repos -> Overlays \cup {""}]
  /\ IsList(submitted) /\ \A i \in DOMAIN submitted : Routed(submitted[i])
  /\ confirm.what = "run" =>
       /\ confirm.rows \in Seq(Repos)
       /\ Told(confirm.kind, confirm.mutate.backend, confirm.asked)
  /\ confirm.what = "retry" => Routed(confirm.job) /\ confirm.job.asked

LEMMA SequenceIsList ==
  ASSUME NEW S, NEW s \in Seq(S)
  PROVE  IsList(s) /\ DOMAIN s = 1 .. Len(s)
  BY DEF IsList

LEMMA SequenceOf ==
  ASSUME NEW S, NEW s, Len(s) \in Nat, s = [i \in 1 .. Len(s) |-> s[i]],
         \A i \in 1 .. Len(s) : s[i] \in S
  PROVE  s \in Seq(S)
<1>1. PICK m \in Nat : m = Len(s)
  OBVIOUS
<1>2. s \in [1 .. m -> S]
  BY <1>1
<1> QED
  BY <1>2

LEMMA RoutePicked ==
  ASSUME NEW s, NEW I
  PROVE  Route!Picked(s, I) = Picked(s, I)
<1>1. \A T : Route!Cardinality(T) = Cardinality(T)
  BY Zenon DEF Route!Cardinality, Cardinality
<1>2. ASSUME NEW k PROVE Route!Nth(I, k) = Nth(I, k)
  <2> DEFINE any(S) == CHOOSE i \in S : TRUE
             there == {i \in I : Route!Cardinality({j \in I : j <= i}) = k}
             here  == {i \in I : Cardinality({j \in I : j <= i}) = k}
  <2>1. there = here
    BY <1>1
  <2>2. Route!Nth(I, k) = any(there) /\ Nth(I, k) = any(here)
    BY DEF Route!Nth, Nth
  <2> HIDE DEF any, there, here
  <2> QED
    BY <2>1, <2>2
<1> QED
  BY <1>1, <1>2 DEF Route!Picked, Picked

LEMMA SubmitRouted ==
  ASSUME RoutingInv, NEW kind, NEW r \in Repos, NEW p, NEW asked, NEW shown,
         Told(kind, p.backend, asked)
  PROVE  Routed(Route!SubmitCmd(kind, r, p, asked, shown))
<1> DEFINE j == Route!SubmitCmd(kind, r, p, asked, shown)
<1>1. /\ DOMAIN j = JobFields
      /\ j.kind = kind /\ j.repo = r /\ j.backend = p.backend /\ j.model = p.model
      /\ j.target = Route!Target(kind, p.backend) /\ j.cost = Route!CostFor(kind, p.backend)
      /\ j.local = (p.backend = "ollama") /\ j.var = Route!ModelVar(r, p.backend, p.model)
      /\ j.status = "queued" /\ j.held = FALSE /\ j.asked = asked
  BY DEF Route!SubmitCmd, Route!IsLocalBackend, JobFields
<1> SUFFICES Routed(j)
  OBVIOUS
<1> HIDE DEF j
<1>2. overlay[r] \in Overlays \cup {""}
  BY Zenon DEF RoutingInv
<1>3. CASE kind = "extract" /\ asked
  <2>1. j.target = IF p.backend # "" THEN p.backend
                   ELSE IF env.vendor THEN "vendor" ELSE IF env.ollamaVar THEN "ollama" ELSE "none"
    BY <1>1, <1>3, Zenon DEF Route!Target
  <2>2. j.cost = "metered"
    BY <1>1, <1>3 DEF Route!CostFor
  <2>3. j.target = "claude-cli" /\ j.model # "" => j.var \in {j.model} \cup (Overlays \ {""})
    BY <1>1, <1>2, <2>1, Zenon DEF Route!ModelVar
  <2>4. Route!Bills(j.target) => ~j.local
    BY <1>1, <2>1, Zenon DEF Route!Bills
  <2>5. j.target = "claude-cli" => j.kind # "graft-deep" /\ j.backend = "claude-cli"
    BY <1>1, <1>3, <2>1, Zenon
  <2>6. j.repo \in Repos /\ j.held \in BOOLEAN /\ DOMAIN j = JobFields
    BY <1>1
  <2>7. j.local \in BOOLEAN
    BY <1>1
  <2>8. j.asked \in BOOLEAN /\ j.asked
    BY <1>1, <1>3 DEF Told
  <2> QED
    BY <2>2, <2>3, <2>4, <2>5, <2>6, <2>7, <2>8, Zenon DEF Routed
<1>4. CASE kind = "graft-deep" /\ p.backend = "ollama"
  <2>1. j.target = "ollama"
    BY <1>1, <1>4 DEF Route!Target, Route!GraftTargetFor, Route!EffectiveBackend
  <2>2. ~Route!Bills(j.target) /\ j.target # "claude-cli"
    BY <2>1 DEF Route!Bills
  <2> QED
    BY <1>1, <2>2, Zenon DEF Routed, Told
<1>5. CASE kind = "graft-deep" /\ p.backend = "opencode" /\ asked
  <2>1. j.target \in {"opencode", ""}
    BY <1>1, <1>5, Zenon DEF Route!Target, Route!GraftTargetFor, Route!EffectiveBackend
  <2>2. j.cost = "metered"
    BY <1>1, <1>5 DEF Route!CostFor, Route!IsLocalBackend, Route!EffectiveBackend
  <2>3. ~j.local /\ j.target # "claude-cli"
    BY <1>1, <1>5, <2>1, Zenon
  <2> QED
    BY <1>1, <1>5, <2>2, <2>3 DEF Routed
<1> QED
  BY <1>3, <1>4, <1>5 DEF Told

LEMMA SubmitRouting ==
  ASSUME RoutingInv, NEW kind, NEW batch \in Seq(Repos), NEW mutate, NEW asked, NEW shown,
         Told(kind, mutate.backend, asked), Route!Submit(kind, batch, mutate, asked, shown)
  PROVE  IsList(submitted') /\ \A i \in DOMAIN submitted' : Routed(submitted'[i])
<1> DEFINE all == [i \in DOMAIN batch |->
                     Route!SubmitCmd(kind, batch[i],
                       Route!Mutate(mutate, Route!ParamsFor(kind, batch[i])), asked, shown)]
           I == {i \in DOMAIN all : all[i].target # "" /\ Route!Passes(all[i])}
           S == {all[i] : i \in DOMAIN batch}
           new == Picked(all, I)
<1>1. submitted' = submitted \o new
  <2>1. submitted' = submitted \o Route!Picked(all, I)
    BY Zenon DEF Route!Submit
  <2> HIDE DEF all, I
  <2> QED
    BY <2>1, RoutePicked
<1>2. \A i \in DOMAIN batch : Routed(all[i])
  <2>1. ASSUME NEW i \in DOMAIN batch
        PROVE  Told(kind, Route!Mutate(mutate, Route!ParamsFor(kind, batch[i])).backend, asked)
    <3>1. CASE kind = "extract"
      BY <3>1 DEF Told
    <3>2. CASE mutate.backend # ""
      <4> DEFINE p == Route!ParamsFor(kind, batch[i])
      <4>1. "backend" \in DOMAIN p
        BY DEF Route!ParamsFor
      <4> HIDE DEF p
      <4>2. mutate # Route!NoPin
        <5>1. Route!NoPin.backend = ""
          BY DEF Route!NoPin
        <5> QED
          BY <3>2, <5>1, Zenon
      <4>3. Route!Mutate(mutate, p).backend = mutate.backend
        BY <4>1, <4>2 DEF Route!Mutate
      <4> QED
        BY <4>3 DEF p
    <3> QED
      BY <3>1, <3>2, Zenon DEF Told
  <2>2. \A i \in DOMAIN batch : batch[i] \in Repos
    OBVIOUS
  <2> QED
    BY <2>1, <2>2, SubmitRouted
<1>3. all \in Seq(S)
  <2>1. Len(batch) \in Nat /\ DOMAIN batch = 1 .. Len(batch)
    OBVIOUS
  <2>2. all \in [1 .. Len(batch) -> S]
    BY <2>1
  <2> QED
    BY <2>1, <2>2
<1>4. I \in SUBSET DOMAIN all
  BY Zenon
<1>5. new \in Seq(S)
  BY <1>3, <1>4, PickedOf, Zenon
<1>6. \A x \in S : Routed(x)
  BY <1>2
<1> HIDE DEF all, I, S, new
<1>7. IsList(new) /\ \A i \in DOMAIN new : Routed(new[i])
  BY <1>5, <1>6 DEF IsList
<1>8. PICK s, st : s = submitted /\ st = submitted'
  OBVIOUS
<1> DEFINE T == {s[i] : i \in DOMAIN s} \cup {new[i] : i \in DOMAIN new}
<1>9. s = [i \in 1 .. Len(s) |-> s[i]] /\ DOMAIN s = 1 .. Len(s) /\ Len(s) \in Nat
  BY <1>8, Zenon DEF RoutingInv, IsList
<1>10. \A i \in 1 .. Len(s) : s[i] \in T
  BY <1>9
<1>11. \A x \in T : Routed(x)
  BY <1>7, <1>8, Zenon DEF RoutingInv
<1>12. new \in Seq(T)
  <2>1. Len(new) \in Nat /\ new = [i \in 1 .. Len(new) |-> new[i]] /\ DOMAIN new = 1 .. Len(new)
    BY <1>7 DEF IsList
  <2>2. \A i \in 1 .. Len(new) : new[i] \in T
    BY <2>1
  <2> HIDE DEF T
  <2> QED
    BY <2>1, <2>2, SequenceOf
<1> HIDE DEF T
<1>13. s \in Seq(T)
  BY <1>9, <1>10, SequenceOf
<1>14. st \in Seq(T)
  BY <1>1, <1>8, <1>12, <1>13
<1>15. IsList(st) /\ \A i \in DOMAIN st : st[i] \in T
  BY <1>14, SequenceIsList
<1> QED
  BY <1>8, <1>11, <1>15

\* What graft's deep pass is pointed at, when it is ready.
LEMMA DeepTold ==
  ASSUME Route!GraftDeepReady(Route!BackendForKind("graft-deep"))
  PROVE  /\ Route!DeepPin.backend \in {"ollama", "opencode"}
         /\ Route!CostFor("graft-deep", Route!BackendForKind("graft-deep")) # "metered"
              => Route!DeepPin.backend = "ollama"
         /\ Route!DeepPin.backend = "opencode" => Route!CostFor("graft-deep", Route!DeepPin.backend) = "metered"
<1> DEFINE P == Route!BackendForKind("graft-deep")
           T == Route!GraftTargetFor(P)
<1>1. Route!DeepPin.backend = T
  BY DEF Route!DeepPin
<1>2. T # ""
  BY Zenon DEF Route!GraftDeepReady
<1> HIDE DEF P
<1>3. T \in {"ollama", "opencode"}
  BY <1>2, Zenon DEF Route!GraftTargetFor
<1>4. Route!CostFor("graft-deep", P) # "metered" => T = "ollama"
  BY Zenon DEF Route!CostFor, Route!GraftTargetFor, Route!IsLocalBackend
<1> HIDE DEF T
<1>5. T = "opencode" => Route!CostFor("graft-deep", T) = "metered"
  BY DEF Route!CostFor, Route!IsLocalBackend, Route!EffectiveBackend
<1> QED
  BY <1>1, <1>3, <1>4, <1>5 DEF P

LEMMA RunRouting ==
  ASSUME RoutingInv, NEW kind, NEW batch \in Seq(Repos), NEW mutate,
         Route!RunAction(kind, batch, mutate),
         \/ kind = "extract"
         \/ /\ kind = "graft-deep" /\ mutate = Route!DeepPin
            /\ Route!GraftDeepReady(Route!BackendForKind("graft-deep"))
  PROVE  RoutingInv'
<1>0. UNCHANGED overlay
  BY DEF Route!RunAction
<1> DEFINE p == Route!ParamsFor(kind, batch[1])
           sample == Route!Mutate(mutate, p)
           asked == Route!CostFor(kind, sample.backend) = "metered"
<1>1. CASE confirm' = confirm /\ Route!Submit(kind, batch, mutate, FALSE, "none")
           /\ Route!CostOf(kind, batch) # "metered"
  <2>1. kind = "extract" => Route!CostOf(kind, batch) = "metered"
    BY DEF Route!CostOf, Route!CostFor
  <2>2. kind = "graft-deep" => Route!CostFor(kind, Route!BackendForKind(kind)) # "metered"
    BY <1>1 DEF Route!CostOf
  <2>3. Told(kind, mutate.backend, FALSE)
    <3>1. /\ kind = "graft-deep" /\ mutate = Route!DeepPin
          /\ Route!GraftDeepReady(Route!BackendForKind("graft-deep"))
      BY <1>1, <2>1
    <3>2. Route!DeepPin.backend = "ollama"
      BY <2>2, <3>1, DeepTold
    <3> QED
      BY <3>1, <3>2 DEF Told
  <2>4. IsList(submitted') /\ \A i \in DOMAIN submitted' : Routed(submitted'[i])
    BY <1>1, <2>3, SubmitRouting
  <2> QED
    BY <1>0, <1>1, <2>4, Zenon DEF RoutingInv
<1>2. CASE /\ confirm' = [what |-> "run", kind |-> kind, rows |-> batch, mutate |-> mutate,
                          asked |-> asked, shown |-> Route!Target(kind, sample.backend)]
           /\ submitted' = submitted
  <2>1. kind = "extract" => asked
    BY DEF Route!CostFor
  <2>2. ASSUME kind = "graft-deep" PROVE mutate.backend = "ollama" \/ (mutate.backend = "opencode" /\ asked)
    <3>1. /\ mutate.backend \in {"ollama", "opencode"}
          /\ mutate.backend = "opencode" => Route!CostFor(kind, mutate.backend) = "metered"
      BY <2>2, DeepTold
    <3>2. "backend" \in DOMAIN p
      BY DEF Route!ParamsFor
    <3>3. mutate # Route!NoPin
      <4>1. Route!NoPin.backend = ""
        BY DEF Route!NoPin
      <4> QED
        BY <3>1, <4>1, Zenon
    <3> HIDE DEF p
    <3>4. sample.backend = mutate.backend
      BY <3>2, <3>3 DEF Route!Mutate
    <3> HIDE DEF sample
    <3> QED
      BY <3>1, <3>4
  <2>3. /\ confirm'.what = "run" /\ confirm'.rows = batch /\ confirm'.kind = kind
        /\ confirm'.mutate = mutate /\ confirm'.asked = asked
    BY <1>2
  <2>4. asked \in BOOLEAN
    OBVIOUS
  <2> HIDE DEF asked
  <2>5. Told(kind, mutate.backend, asked)
    <3>1. CASE kind = "extract"
      BY <2>1, <2>4, <3>1 DEF Told
    <3>2. CASE kind = "graft-deep"
      BY <2>2, <2>4, <3>2 DEF Told
    <3> QED
      BY <3>1, <3>2
  <2>6. Told(confirm'.kind, confirm'.mutate.backend, confirm'.asked)
    BY <2>3, <2>5
  <2> QED
    BY <1>0, <1>2, <2>3, <2>6, Zenon DEF RoutingInv
<1> QED
  BY <1>1, <1>2 DEF Route!RunAction

\* What a retry or a restart makes of a job.
LEMMA AgainRouted ==
  ASSUME NEW j, Routed(j), overlay \in [Repos -> Overlays \cup {""}]
  PROVE  /\ Routed(Route!RestoredJob(j))
         /\ (j.cost # "metered" \/ j.local) => Routed(Route!RetryJobFrom(j))
         /\ LET k == Route!RetryJobFrom(j)
                told == [k EXCEPT !.asked = TRUE, !.shown = k.target]
            IN  Routed(told) /\ told.asked
<1> DEFINE v == Route!ModelVar(j.repo, Route!ArgvBackend(j), j.model)
<1>1. j.target = "claude-cli" /\ j.model # "" => v \in {j.model} \cup (Overlays \ {""})
  <2>1. overlay[j.repo] \in Overlays \cup {""}
    BY Zenon DEF Routed
  <2> QED
    BY <2>1, Zenon DEF Route!ModelVar, Route!ArgvBackend, Routed
<1> HIDE DEF v
<1>2. Routed(Route!RestoredJob(j))
  <2> DEFINE held == IF j.status = "running" THEN j.cost = "metered" /\ ~j.local
                     ELSE j.held \/ j.cost = "metered" \/ j.local
             k == [j EXCEPT !.var = v, !.key = FALSE, !.status = "queued", !.held = held]
  <2>1. Route!RestoredJob(j) = IF j.status = "done" THEN j ELSE k
    BY Zenon DEF Route!RestoredJob, v
  <2>2. held \in BOOLEAN
    BY Zenon DEF Routed
  <2>3. Route!Bills(j.target) => held
    BY Zenon DEF Routed
  <2> HIDE DEF held
  <2>4. /\ DOMAIN k = JobFields /\ k.var = v /\ k.held = held
        /\ k.kind = j.kind /\ k.repo = j.repo /\ k.backend = j.backend /\ k.model = j.model
        /\ k.target = j.target /\ k.cost = j.cost /\ k.local = j.local /\ k.asked = j.asked
    BY Zenon DEF Routed, JobFields
  <2> HIDE DEF k
  <2>5. Routed(k)
    BY <1>1, <2>2, <2>3, <2>4, Zenon DEF Routed, Route!Waiting
  <2> QED
    BY <2>1, <2>5, Zenon
<1>3. PICK k : k = Route!RetryJobFrom(j)
  BY Zenon
<1>4. /\ DOMAIN k = JobFields /\ k.var = v /\ k.held = FALSE
      /\ k.kind = j.kind /\ k.repo = j.repo /\ k.backend = j.backend /\ k.model = j.model
      /\ k.target = j.target /\ k.cost = j.cost /\ k.local = j.local /\ k.asked = j.asked
  BY <1>3, Zenon DEF Routed, JobFields, Route!RetryJobFrom, v
<1>5. ASSUME j.cost # "metered" \/ j.local PROVE Routed(k)
  BY <1>1, <1>4, <1>5, Zenon DEF Routed
<1>6. LET told == [k EXCEPT !.asked = TRUE, !.shown = k.target] IN Routed(told) /\ told.asked
  <2> DEFINE told == [k EXCEPT !.asked = TRUE, !.shown = k.target]
  <2>1. /\ DOMAIN told = JobFields /\ told.var = v /\ told.held = FALSE /\ told.asked = TRUE
        /\ told.kind = j.kind /\ told.repo = j.repo /\ told.backend = j.backend /\ told.model = j.model
        /\ told.target = j.target /\ told.cost = j.cost /\ told.local = j.local
    BY <1>4, Zenon DEF JobFields
  <2> HIDE DEF told
  <2>2. Routed(told)
    BY <1>1, <2>1, Zenon DEF Routed
  <2> QED
    BY <2>1, <2>2, Zenon DEF told
<1> QED
  BY <1>2, <1>3, <1>5, <1>6, Zenon

LEMMA AppendRouting ==
  ASSUME RoutingInv, NEW x, Routed(x), submitted' = Append(submitted, x)
  PROVE  IsList(submitted') /\ \A i \in DOMAIN submitted' : Routed(submitted'[i])
<1>1. PICK s, st : s = submitted /\ st = submitted'
  OBVIOUS
<1> DEFINE S == {s[i] : i \in DOMAIN s} \cup {x}
<1>2. PICK m \in Nat : m = Len(s) /\ s = [i \in 1 .. m |-> s[i]]
  BY <1>1, Zenon DEF RoutingInv, IsList
<1>3. DOMAIN s = 1 .. m
  BY <1>2
<1>4. (\A i \in 1 .. m : s[i] \in S) /\ x \in S
  BY <1>3
<1>5. \A y \in S : Routed(y)
  BY <1>1, Zenon DEF RoutingInv
<1> HIDE DEF S
<1>6. s \in [1 .. m -> S]
  BY <1>2, <1>4
<1>7. s \in Seq(S)
  BY <1>6
<1>8. st \in Seq(S)
  BY <1>1, <1>4, <1>7
<1>9. IsList(st) /\ \A i \in DOMAIN st : st[i] \in S
  BY <1>8, SequenceIsList
<1> QED
  BY <1>1, <1>5, <1>9

\* Jobs that move, each for itself.
LEMMA MapRouting ==
  ASSUME RoutingInv, DOMAIN submitted' = DOMAIN submitted,
         submitted' = [i \in DOMAIN submitted |-> submitted'[i]],
         \A i \in DOMAIN submitted : Routed(submitted'[i])
  PROVE  IsList(submitted') /\ \A i \in DOMAIN submitted' : Routed(submitted'[i])
<1>1. PICK m \in Nat : m = Len(submitted) /\ DOMAIN submitted = 1 .. m
  BY Zenon DEF RoutingInv, IsList
<1>2. PICK st : st = submitted'
  OBVIOUS
<1>3. st = [i \in 1 .. m |-> st[i]]
  BY <1>1, <1>2
<1>4. st \in Seq({st[i] : i \in 1 .. m})
  BY <1>3
<1>5. IsList(st)
  BY <1>4, SequenceIsList
<1> QED
  BY <1>2, <1>5

LEMMA ClickRouting ==
  ASSUME RoutingInv,
         \/ \E batch \in Route!Batches :
              Route!Extract(batch) \/ Route!ExtractLocalAll(batch) \/ Route!GraftDeep(batch)
         \/ \E i \in DOMAIN submitted : Route!Retry(i)
         \/ Route!Answered
  PROVE  RoutingInv'
<1>1. ASSUME NEW batch \in Route!Batches,
             Route!Extract(batch) \/ Route!ExtractLocalAll(batch) \/ Route!GraftDeep(batch)
      PROVE  RoutingInv'
  <2>1. batch \in Seq(Repos)
    <3>1. PICK rs \in SUBSET Repos : batch \in Route!SetToSeqs(rs)
      BY <1>1 DEF Route!Batches
    <3>2. IsFiniteSet(rs)
      <4>1. IsFiniteSet(Repos)
        BY RouteConstants DEF Route!RoutingAssumptions, Route!IsFiniteSet, IsFiniteSet
      <4> QED
        BY <4>1, FS_Subset
    <3>3. Cardinality(rs) \in Nat
      BY <3>2, FS_CardinalityType
    <3>4. Route!Cardinality(rs) = Cardinality(rs)
      BY Zenon DEF Route!Cardinality, Cardinality
    <3>5. batch \in [1 .. Cardinality(rs) -> rs]
      BY <3>1, <3>4 DEF Route!SetToSeqs
    <3> QED
      BY <3>3, <3>5
  <2> QED
    BY <1>1, <2>1, RunRouting DEF Route!Extract, Route!ExtractLocalAll, Route!GraftDeep
<1>2. ASSUME NEW i \in DOMAIN submitted, Route!Retry(i) PROVE RoutingInv'
  <2> DEFINE e == submitted[i]
  <2>1. Routed(e) /\ overlay \in [Repos -> Overlays \cup {""}]
    BY Zenon DEF RoutingInv
  <2>2. CASE e.kind = "graft-deep"
    <3>1. <<e.repo>> \in Seq(Repos)
      <4>1. e.repo \in Repos
        BY <2>1, Zenon DEF Routed
      <4> QED
        BY <4>1
    <3> QED
      BY <1>2, <2>2, <3>1, RunRouting, Zenon DEF Route!Retry
  <2>3. CASE e.kind # "graft-deep"
    <3> DEFINE k == Route!RetryJobFrom(e)
               told == [k EXCEPT !.asked = TRUE, !.shown = k.target]
    <3>1. /\ Routed(told) /\ told.asked
          /\ (e.cost # "metered" \/ e.local) => Routed(k)
      BY <2>1, AgainRouted, Zenon
    <3>2. k.cost = e.cost /\ k.local = e.local
      BY <2>1, Zenon DEF Route!RetryJobFrom, Routed, JobFields
    <3>3. UNCHANGED overlay
      BY <1>2, <2>3, Zenon DEF Route!Retry
    <3>4. \/ confirm' = [what |-> "retry", job |-> told] /\ submitted' = submitted
          \/ (k.cost # "metered" \/ k.local) /\ submitted' = Append(submitted, k) /\ confirm' = confirm
      BY <1>2, <2>3, Zenon DEF Route!Retry
    <3> HIDE DEF told, k
    <3>5. CASE confirm' = [what |-> "retry", job |-> told] /\ submitted' = submitted
      <4>1. confirm'.what = "retry" /\ confirm'.job = told
        BY <3>5
      <4> QED
        BY <3>1, <3>3, <3>5, <4>1, Zenon DEF RoutingInv
    <3>6. CASE (k.cost # "metered" \/ k.local) /\ submitted' = Append(submitted, k) /\ confirm' = confirm
      <4>1. Routed(k)
        BY <3>1, <3>2, <3>6
      <4>2. IsList(submitted') /\ \A n \in DOMAIN submitted' : Routed(submitted'[n])
        BY <3>6, <4>1, AppendRouting
      <4> QED
        BY <3>3, <3>6, <4>2, Zenon DEF RoutingInv
    <3> QED
      BY <3>4, <3>5, <3>6
  <2> QED
    BY <2>2, <2>3
<1>3. CASE Route!Answered
  <2>1. UNCHANGED overlay /\ confirm' = Route!NoDialog
    BY <1>3 DEF Route!Answered
  <2>2. confirm'.what = "none"
    BY <2>1 DEF Route!NoDialog
  <2>3. IsList(submitted') /\ \A n \in DOMAIN submitted' : Routed(submitted'[n])
    <3>1. CASE submitted' = submitted
      BY <3>1, Zenon DEF RoutingInv
    <3>2. CASE /\ confirm.what = "run"
               /\ Route!Submit(confirm.kind, confirm.rows, confirm.mutate, confirm.asked, confirm.shown)
      <4>1. confirm.rows \in Seq(Repos) /\ Told(confirm.kind, confirm.mutate.backend, confirm.asked)
        BY <3>2, Zenon DEF RoutingInv
      <4> QED
        BY <3>2, <4>1, SubmitRouting
    <3>3. CASE confirm.what = "retry" /\ submitted' = Append(submitted, confirm.job)
      <4>1. Routed(confirm.job)
        BY <3>3, Zenon DEF RoutingInv
      <4> QED
        BY <3>3, <4>1, AppendRouting
    <3> QED
      BY <1>3, <3>1, <3>2, <3>3 DEF Route!Answered
  <2> QED
    BY <2>1, <2>2, <2>3, Zenon DEF RoutingInv
<1> QED
  BY <1>1, <1>2, <1>3

LEMMA MovesRouting ==
  ASSUME RoutingInv,
         \/ \E i \in DOMAIN submitted : Route!StartHeld(i) \/ Route!JobMoves(i)
         \/ Route!Relaunch \/ Route!Changed \/ UNCHANGED routeVars
  PROVE  RoutingInv'
<1>0. /\ IsList(submitted) /\ \A i \in DOMAIN submitted : Routed(submitted[i])
      /\ overlay \in [Repos -> Overlays \cup {""}]
  BY Zenon DEF RoutingInv
<1>1. ASSUME NEW i \in DOMAIN submitted, NEW k, Routed(k), submitted' = [submitted EXCEPT ![i] = k],
             UNCHANGED <<overlay, confirm>>
      PROVE  RoutingInv'
  <2>1. /\ DOMAIN submitted' = DOMAIN submitted
        /\ \A n \in DOMAIN submitted : submitted'[n] = IF n = i THEN k ELSE submitted[n]
        /\ submitted' = [n \in DOMAIN submitted |-> submitted'[n]]
    BY <1>1
  <2>2. IsList(submitted') /\ \A n \in DOMAIN submitted' : Routed(submitted'[n])
    BY <1>0, <1>1, <2>1, MapRouting, Zenon
  <2> QED
    BY <1>1, <2>2, Zenon DEF RoutingInv
<1>2. ASSUME NEW i \in DOMAIN submitted, Route!StartHeld(i) PROVE RoutingInv'
  <2> DEFINE e == submitted[i]
             k == [e EXCEPT !.held = FALSE, !.asked = TRUE, !.shown = e.target]
  <2>1. submitted' = [submitted EXCEPT ![i] = k] /\ UNCHANGED <<overlay, confirm>>
    BY <1>2, Zenon DEF Route!StartHeld
  <2>2. Routed(e)
    BY <1>0, Zenon
  <2> HIDE DEF e
  <2>3. /\ DOMAIN k = JobFields /\ k.held = FALSE /\ k.asked = TRUE
        /\ k.kind = e.kind /\ k.repo = e.repo /\ k.backend = e.backend /\ k.model = e.model
        /\ k.target = e.target /\ k.cost = e.cost /\ k.local = e.local /\ k.var = e.var
    BY <2>2, Zenon DEF Routed, JobFields
  <2> HIDE DEF k
  <2>4. Routed(k)
    BY <2>2, <2>3, Zenon DEF Routed
  <2> QED
    BY <1>1, <2>1, <2>4
<1>3. ASSUME NEW i \in DOMAIN submitted, Route!JobMoves(i) PROVE RoutingInv'
  <2> DEFINE e == submitted[i]
             k(s) == [e EXCEPT !.status = s]
  <2>1. PICK s \in {"running", "done"} : submitted' = [submitted EXCEPT ![i] = k(s)]
    BY <1>3 DEF Route!JobMoves
  <2>2. Routed(e) /\ UNCHANGED <<overlay, confirm>>
    BY <1>0, <1>3, Zenon DEF Route!JobMoves
  <2> HIDE DEF e
  <2>3. /\ DOMAIN k(s) = JobFields /\ k(s).held = e.held /\ k(s).asked = e.asked /\ k(s).status = s
        /\ k(s).kind = e.kind /\ k(s).repo = e.repo /\ k(s).backend = e.backend
        /\ k(s).model = e.model /\ k(s).target = e.target /\ k(s).cost = e.cost
        /\ k(s).local = e.local /\ k(s).var = e.var
    BY <2>2, Zenon DEF Routed, JobFields
  <2> HIDE DEF k
  <2>4. Routed(k(s))
    BY <2>2, <2>3, Zenon DEF Routed, Route!Waiting
  <2> QED
    BY <1>1, <2>1, <2>2, <2>4
<1>4. CASE Route!Relaunch
  <2> DEFINE k(i) == Route!RestoredJob(submitted[i])
             h(i) == k(i).held \/ (k(i).status = "queued" /\ ~Route!Passes(k(i)))
  <2>1. /\ submitted' = [i \in DOMAIN submitted |-> [k(i) EXCEPT !.held = h(i)]]
        /\ overlay' = overlay /\ confirm' = Route!NoDialog
    BY <1>4 DEF Route!Relaunch
  <2>2. ASSUME NEW i \in DOMAIN submitted PROVE Routed(submitted'[i])
    <3> DEFINE e == k(i)
               x == [e EXCEPT !.held = h(i)]
    <3>1. Routed(e)
      BY <1>0, AgainRouted, Zenon
    <3>2. submitted'[i] = x
      BY <2>1
    <3>3. h(i) \in BOOLEAN /\ (e.held => h(i))
      OBVIOUS
    <3> HIDE DEF e, h, k
    <3>4. /\ DOMAIN x = JobFields /\ x.held = h(i) /\ x.asked = e.asked /\ x.status = e.status
          /\ x.kind = e.kind /\ x.repo = e.repo /\ x.backend = e.backend /\ x.model = e.model
          /\ x.target = e.target /\ x.cost = e.cost /\ x.local = e.local /\ x.var = e.var
      BY <3>1, Zenon DEF Routed, JobFields
    <3> HIDE DEF x
    <3>5. Routed(x)
      BY <3>1, <3>3, <3>4, Zenon DEF Routed, Route!Waiting
    <3> QED
      BY <3>2, <3>5
  <2>3. DOMAIN submitted' = DOMAIN submitted /\ submitted' = [i \in DOMAIN submitted |-> submitted'[i]]
    BY <2>1
  <2>4. IsList(submitted') /\ \A n \in DOMAIN submitted' : Routed(submitted'[n])
    BY <2>2, <2>3, MapRouting
  <2>5. confirm'.what = "none"
    BY <2>1 DEF Route!NoDialog
  <2> QED
    BY <1>0, <2>1, <2>4, <2>5, Zenon DEF RoutingInv
<1>5. CASE Route!Changed
  <2>1. UNCHANGED <<submitted, confirm>>
    BY <1>5 DEF Route!Changed
  <2>2. overlay' \in [Repos -> Overlays \cup {""}]
    BY <1>0, <1>5, Zenon DEF Route!Changed
  <2> QED
    BY <1>0, <2>1, <2>2, Zenon DEF RoutingInv
<1>6. CASE UNCHANGED routeVars
  BY <1>6, Zenon DEF routeVars, RoutingInv
<1> QED
  BY <1>2, <1>3, <1>4, <1>5, <1>6

LEMMA InitRouting == Init /\ part = "routing" => RoutingInv
<1> SUFFICES ASSUME Route!RoutingInit PROVE RoutingInv
  BY DEF Init
<1>1. IsList(<<>>) /\ DOMAIN <<>> = {}
  BY DEF IsList
<1>2. confirm.what = "none"
  BY Zenon DEF Route!RoutingInit, Route!NoDialog
<1> QED
  BY <1>1, <1>2, Zenon DEF Route!RoutingInit, RoutingInv

LEMMA StepRouting ==
  ASSUME RoutingInv, Route!RoutingNext \/ UNCHANGED routeVars
  PROVE  RoutingInv'
  BY ClickRouting, MovesRouting DEF Route!RoutingNext

\* Whatever pins, overrides and servers were when it was clicked, confirmed, retried
\* or restored: nothing billed waits for a lane that nobody was told about, and a
\* model that was chosen for claude is the one that runs.
THEOREM RoutingCorrect == Spec => []RoutingTells
<1>1. (part = "routing" => RoutingInv) /\ [Next]_partsVars => (part = "routing" => RoutingInv)'
  BY PartSteps, StepRouting
<1>2. RoutingInv => Route!BillsOnlyAsked /\ Route!ModelSurvives
  BY Zenon DEF RoutingInv, Routed, Route!BillsOnlyAsked, Route!ModelSurvives
<1>3. (part = "routing" => RoutingInv) => RoutingTells
  BY <1>2 DEF RoutingTells
<1> QED
  BY InitRouting, <1>1, <1>3, PTL DEF Spec

-----------------------------------------------------------------------------
(***************************************************************************)
(* The dock: the rows a tick leaves standing say what a rebuild would.     *)
(***************************************************************************)
IsEntry(e) ==
  \/ Panel!IsHeader(e)
  \/ e = [job |-> e.job, text |-> e.text] /\ ~Panel!IsHeader(e.job)

Entries(s) ==
  /\ IsList(s)
  /\ \A n \in 1 .. Len(s) : IsEntry(s[n])

\* The key is the one of what is drawn.
IsDock(d) ==
  /\ Entries(d.drawn) /\ d.showDone \in BOOLEAN
  /\ d = [key |-> Panel!DockKey(d.drawn), drawn |-> d.drawn, showDone |-> d.showDone]

DockInv == IsList(jobs) /\ IsDock(dock)

LEMMA AppendOf ==
  ASSUME NEW s, NEW x, IsList(s)
  PROVE  IsList(Append(s, x))
<1> DEFINE S == {s[n] : n \in 1 .. Len(s)} \cup {x}
<1>1. s \in Seq(S)
  <2>1. \A n \in 1 .. Len(s) : s[n] \in S
    OBVIOUS
  <2> HIDE DEF S
  <2> QED
    BY <2>1, SequenceOf DEF IsList
<1>2. x \in S
  OBVIOUS
<1> HIDE DEF S
<1>3. Append(s, x) \in Seq(S) /\ Len(Append(s, x)) = Len(s) + 1
  BY <1>1, <1>2
<1> QED
  BY <1>3, SequenceIsList DEF IsList

\* What two lists one after the other hold.
LEMMA ConcatOf ==
  ASSUME NEW s, NEW t, IsList(s), IsList(t)
  PROVE  /\ IsList(s \o t)
         /\ Len(s \o t) = Len(s) + Len(t)
         /\ \A n \in 1 .. Len(s \o t) :
              \/ \E k \in 1 .. Len(s) : (s \o t)[n] = s[k]
              \/ \E k \in 1 .. Len(t) : (s \o t)[n] = t[k]
<1> DEFINE S == {s[n] : n \in 1 .. Len(s)} \cup {t[n] : n \in 1 .. Len(t)}
<1>1. s \in Seq(S) /\ t \in Seq(S)
  <2>1. (\A n \in 1 .. Len(s) : s[n] \in S) /\ (\A n \in 1 .. Len(t) : t[n] \in S)
    OBVIOUS
  <2> HIDE DEF S
  <2> QED
    BY <2>1, SequenceOf DEF IsList
<1> HIDE DEF S
<1>0. Len(s) \in Nat /\ Len(t) \in Nat
  BY DEF IsList
<1>2. /\ Len(s \o t) = Len(s) + Len(t) /\ s \o t \in Seq(S)
      /\ \A n \in 1 .. Len(s) + Len(t) :
           (s \o t)[n] = IF n <= Len(s) THEN s[n] ELSE t[n - Len(s)]
  BY <1>1
<1>3. IsList(s \o t)
  BY <1>2, SequenceIsList
<1>4. ASSUME NEW n \in 1 .. Len(s \o t)
      PROVE  \/ \E k \in 1 .. Len(s) : (s \o t)[n] = s[k]
             \/ \E k \in 1 .. Len(t) : (s \o t)[n] = t[k]
  <2>1. n <= Len(s) \/ n - Len(s) \in 1 .. Len(t)
    BY <1>0, <1>2
  <2>2. n \in 1 .. Len(s) + Len(t)
    BY <1>2
  <2> QED
    BY <1>2, <2>1, <2>2
<1> QED
  BY <1>2, <1>3, <1>4 DEF IsList

LEMMA PanelNth ==
  ASSUME NEW I, NEW k
  PROVE  Panel!Cardinality(I) = Cardinality(I) /\ Panel!Nth(I, k) = Nth(I, k)
<1>1. \A T : Panel!Cardinality(T) = Cardinality(T)
  BY Zenon DEF Panel!Cardinality, Cardinality
<1> DEFINE any(S) == CHOOSE i \in S : TRUE
           there == {i \in I : Panel!Cardinality({j \in I : j <= i}) = k}
           here  == {i \in I : Cardinality({j \in I : j <= i}) = k}
<1>2. there = here
  BY <1>1
<1>3. Panel!Nth(I, k) = any(there) /\ Nth(I, k) = any(here)
  BY DEF Panel!Nth, Nth
<1> HIDE DEF any, there, here
<1> QED
  BY <1>1, <1>2, <1>3

\* The row of a job of S.
IsRow(e, S) ==
  /\ e = [job |-> e.job, text |-> e.text]
  /\ \E i \in S : e.job = Panel!Snapshot(jobs, i)

LEMMA RowIs ==
  ASSUME NEW e, NEW S, IsRow(e, S)
  PROVE  ~Panel!IsHeader(e) /\ e.job.id \in S /\ IsEntry(e)
<1>1. PICK i \in S : e.job = Panel!Snapshot(jobs, i)
  BY DEF IsRow
<1>2. e.job.id = i /\ ~Panel!IsHeader(e.job)
  BY <1>1 DEF Panel!Snapshot, Panel!IsHeader
<1>3. DOMAIN e = {"job", "text"}
  BY DEF IsRow
<1> QED
  BY <1>2, <1>3 DEF IsRow, IsEntry, Panel!IsHeader

\* Rows of the jobs S, no two rows of the same job.
RowsOf(s, S) ==
  /\ IsList(s)
  /\ \A n \in 1 .. Len(s) : IsRow(s[n], S)
  /\ \A m, n \in 1 .. Len(s) : s[m].job.id = s[n].job.id => m = n

LEMMA OldestRows ==
  ASSUME NEW S \in SUBSET Panel!Ids, DockInv
  PROVE  /\ RowsOf(Panel!JobRows(Panel!Oldest(S)), S)
         /\ RowsOf(Panel!JobRows(Panel!Reverse(Panel!Oldest(S))), S)
<1> DEFINE c == Cardinality(S)
           asc == [k \in 1 .. c |-> Nth(S, k)]
           desc == [k \in 1 .. c |-> Nth(S, c - k + 1)]
<1>1. /\ c \in Nat
      /\ \A k \in 1 .. c : Nth(S, k) \in S
      /\ \A k, l \in 1 .. c : Nth(S, k) = Nth(S, l) => k = l
  <2>1. PICK n \in Nat : n = Len(jobs)
    BY DEF DockInv, IsDock, IsList
  <2>2. S \in SUBSET (1 .. n)
    BY <2>1 DEF DockInv, Panel!Ids, IsList
  <2> QED
    BY <2>2, NthOf
<1>2. Panel!Oldest(S) = asc
  BY PanelNth DEF Panel!Oldest
<1>3. Panel!Reverse(asc) = desc
  <2> HIDE DEF c
  <2>1. Len(asc) = c
    BY <1>1
  <2>2. \A k \in 1 .. c : asc[c - k + 1] = Nth(S, c - k + 1)
    BY <1>1
  <2> HIDE DEF asc
  <2>3. Panel!Reverse(asc) = [k \in 1 .. c |-> asc[c - k + 1]]
    BY <2>1 DEF Panel!Reverse
  <2> QED
    BY <2>2, <2>3
<1> HIDE DEF c
<1>4. ASSUME NEW p \in [1 .. c -> S],
             \A k, l \in 1 .. c : p[k] = p[l] => k = l
      PROVE  RowsOf(Panel!JobRows(p), S)
  <2> DEFINE s == Panel!JobRows(p)
  <2>1. s = [n \in 1 .. c |-> [job |-> Panel!Snapshot(jobs, p[n]), text |-> Panel!DockStatus(p[n], n)]]
    BY DEF Panel!JobRows
  <2> HIDE DEF s
  <2>2. Len(s) = c /\ IsList(s)
    BY <1>1, <2>1 DEF IsList
  <2>3. ASSUME NEW n \in 1 .. c
        PROVE  /\ s[n] = [job |-> Panel!Snapshot(jobs, p[n]), text |-> Panel!DockStatus(p[n], n)]
               /\ s[n].job.id = p[n] /\ p[n] \in S
    BY <2>1 DEF Panel!Snapshot
  <2>4. \A n \in 1 .. Len(s) : IsRow(s[n], S)
    BY <2>2, <2>3 DEF IsRow
  <2>5. \A m, n \in 1 .. Len(s) : s[m].job.id = s[n].job.id => m = n
    BY <1>4, <2>2, <2>3
  <2> QED
    BY <2>2, <2>4, <2>5 DEF RowsOf, s
<1>5. /\ asc \in [1 .. c -> S] /\ \A k, l \in 1 .. c : asc[k] = asc[l] => k = l
  BY <1>1
<1>6. /\ desc \in [1 .. c -> S] /\ \A k, l \in 1 .. c : desc[k] = desc[l] => k = l
  <2>1. \A k \in 1 .. c : c - k + 1 \in 1 .. c
    BY <1>1
  <2>2. desc \in [1 .. c -> S]
    BY <1>1, <2>1
  <2>3. ASSUME NEW k \in 1 .. c, NEW l \in 1 .. c, desc[k] = desc[l] PROVE k = l
    <3>1. c - k + 1 = c - l + 1
      BY <1>1, <2>1, <2>3
    <3> QED
      BY <1>1, <3>1
  <2> QED
    BY <2>2, <2>3
<1> QED
  BY <1>2, <1>3, <1>4, <1>5, <1>6

\* What a rebuild lists: headers, and rows no two of which say different things of
\* one job.
Listing(e) ==
  /\ Entries(e) /\ Len(e) > 0
  /\ \A m, n \in 1 .. Len(e) :
       ~Panel!IsHeader(e[m]) /\ ~Panel!IsHeader(e[n]) /\ e[m].job.id = e[n].job.id => e[m] = e[n]

LEMMA HeaderOf ==
  ASSUME NEW title, NEW S, NEW note
  PROVE  /\ IsList(Panel!Header(title, S, note)) /\ Len(Panel!Header(title, S, note)) = 1
         /\ Panel!IsHeader(Panel!Header(title, S, note)[1])
<1> DEFINE h == [title |-> title, count |-> Panel!Cardinality(S), note |-> note]
<1>1. Panel!Header(title, S, note) = <<h>>
  BY DEF Panel!Header
<1>2. Panel!IsHeader(h)
  BY DEF Panel!IsHeader
<1> HIDE DEF h
<1>3. IsList(<<h>>) /\ Len(<<h>>) = 1 /\ <<h>>[1] = h
  BY DEF IsList
<1> QED
  BY <1>1, <1>2, <1>3

\* A header with the rows of S under it.
Section(s, S) ==
  /\ IsList(s) /\ Len(s) > 0
  /\ \A n \in 1 .. Len(s) : Panel!IsHeader(s[n]) \/ IsRow(s[n], S)
  /\ \A m, n \in 1 .. Len(s) :
       ~Panel!IsHeader(s[m]) /\ ~Panel!IsHeader(s[n]) /\ s[m].job.id = s[n].job.id => s[m] = s[n]

LEMMA SectionOf ==
  ASSUME NEW h, IsList(h), Len(h) = 1, Panel!IsHeader(h[1]), NEW s, NEW S, RowsOf(s, S)
  PROVE  Section(h \o s, S)
<1>1. /\ IsList(h \o s) /\ Len(h \o s) = 1 + Len(s)
      /\ \A n \in 1 .. Len(h \o s) :
           \/ Panel!IsHeader((h \o s)[n])
           \/ \E k \in 1 .. Len(s) : (h \o s)[n] = s[k]
  <2>1. \A k \in 1 .. Len(h) : h[k] = h[1]
    OBVIOUS
  <2>2. IsList(s)
    BY DEF RowsOf
  <2>0. IsList(h)
    OBVIOUS
  <2>3. /\ IsList(h \o s) /\ Len(h \o s) = Len(h) + Len(s)
        /\ \A n \in 1 .. Len(h \o s) :
             \/ \E k \in 1 .. Len(h) : (h \o s)[n] = h[k]
             \/ \E k \in 1 .. Len(s) : (h \o s)[n] = s[k]
    BY ONLY <2>0, <2>2, ConcatOf
  <2> QED
    BY <2>1, <2>3
<1> DEFINE e == h \o s
<1> HIDE DEF e
<1>2. Len(e) > 0
  BY <1>1 DEF RowsOf, IsList, e
<1>3. ASSUME NEW m \in 1 .. Len(e), NEW n \in 1 .. Len(e),
             ~Panel!IsHeader(e[m]), ~Panel!IsHeader(e[n]), e[m].job.id = e[n].job.id
      PROVE  e[m] = e[n]
  <2>1. PICK k \in 1 .. Len(s) : e[m] = s[k]
    BY <1>1, <1>3 DEF e
  <2>2. PICK l \in 1 .. Len(s) : e[n] = s[l]
    BY <1>1, <1>3 DEF e
  <2>3. k = l
    BY <1>3, <2>1, <2>2 DEF RowsOf
  <2> QED
    BY <2>1, <2>2, <2>3
<1>4. ASSUME NEW n \in 1 .. Len(e)
      PROVE  Panel!IsHeader(e[n]) \/ IsRow(e[n], S)
  BY <1>1 DEF RowsOf, e
<1> QED
  BY <1>1, <1>2, <1>3, <1>4 DEF Section, e

\* Two sections over different jobs.
LEMMA SectionsOf ==
  ASSUME NEW s, NEW S, Section(s, S), NEW t, NEW T, Section(t, T), S \cap T = {}
  PROVE  Section(s \o t, S \cup T)
<1> DEFINE e == s \o t
<1>1. /\ IsList(e) /\ Len(e) = Len(s) + Len(t)
      /\ \A n \in 1 .. Len(e) :
           \/ \E k \in 1 .. Len(s) : e[n] = s[k]
           \/ \E k \in 1 .. Len(t) : e[n] = t[k]
  BY ConcatOf DEF Section
<1> HIDE DEF e
<1>2. Len(e) > 0
  BY <1>1 DEF Section, IsList
<1>3. ASSUME NEW n \in 1 .. Len(e)
      PROVE  Panel!IsHeader(e[n]) \/ IsRow(e[n], S \cup T)
  <2>1. \A x : IsRow(x, S) \/ IsRow(x, T) => IsRow(x, S \cup T)
    BY DEF IsRow
  <2> QED
    BY <1>1, <2>1 DEF Section
<1>4. ASSUME NEW k \in 1 .. Len(s), ~Panel!IsHeader(s[k]) PROVE s[k].job.id \in S
  BY <1>4, RowIs DEF Section
<1>5. ASSUME NEW k \in 1 .. Len(t), ~Panel!IsHeader(t[k]) PROVE t[k].job.id \in T
  BY <1>5, RowIs DEF Section
<1>6. ASSUME NEW m \in 1 .. Len(e), NEW n \in 1 .. Len(e),
             ~Panel!IsHeader(e[m]), ~Panel!IsHeader(e[n]), e[m].job.id = e[n].job.id
      PROVE  e[m] = e[n]
  <2>1. CASE \E k \in 1 .. Len(s) : e[m] = s[k]
    <3>1. e[n].job.id \in S
      BY <1>4, <1>6, <2>1
    <3>2. \E k \in 1 .. Len(s) : e[n] = s[k]
      BY <1>1, <1>5, <1>6, <3>1
    <3> QED
      BY <1>6, <2>1, <3>2 DEF Section
  <2>2. CASE \E k \in 1 .. Len(t) : e[m] = t[k]
    <3>1. e[n].job.id \in T
      BY <1>5, <1>6, <2>2
    <3>2. \E k \in 1 .. Len(t) : e[n] = t[k]
      BY <1>1, <1>4, <1>6, <3>1
    <3> QED
      BY <1>6, <2>2, <3>2 DEF Section
  <2> QED
    BY <1>1, <2>1, <2>2
<1> QED
  BY <1>1, <1>2, <1>3, <1>6 DEF Section, e

LEMMA EntriesOf ==
  ASSUME DockInv, NEW showDone \in BOOLEAN
  PROVE  Listing(Panel!DockEntries(showDone))
<1> DEFINE running == Panel!In("running")
           queued == Panel!In("queued")
           last == Panel!LastOver
           a == Panel!Header("Running", running, <<Panel!LaneUse>>) \o Panel!JobRows(Panel!Oldest(running))
           b == Panel!Header("Queued", queued, <<>>) \o Panel!JobRows(Panel!Oldest(queued))
           told == Panel!Header("Finished", Panel!Over, <<Panel!OutcomeNote>>)
           hidden == Panel!Header("Finished", Panel!Over, <<>>)
           c == IF showDone THEN told \o Panel!JobRows(Panel!Reverse(Panel!Oldest(last))) ELSE hidden
<1>1. running \subseteq Panel!Ids /\ queued \subseteq Panel!Ids /\ last \subseteq Panel!Ids
  BY DEF Panel!In, Panel!LastOver, Panel!Over
<1>2. running \cap queued = {} /\ (running \cup queued) \cap last = {}
  BY DEF Panel!In, Panel!LastOver, Panel!Over, Panel!Done
<1>3. Panel!DockEntries(showDone) = a \o b \o c
  BY DEF Panel!DockEntries
<1> HIDE DEF running, queued, last
<1>4. Section(a, running)
  BY <1>1, OldestRows, HeaderOf, SectionOf
<1>5. Section(b, queued)
  BY <1>1, OldestRows, HeaderOf, SectionOf
<1>6. Section(told \o Panel!JobRows(Panel!Reverse(Panel!Oldest(last))), last)
  BY <1>1, OldestRows, HeaderOf, SectionOf
<1>7. Section(hidden, last)
  BY HeaderOf DEF Section
<1>8. Section(c, last)
  BY <1>6, <1>7
<1> HIDE DEF a, b, c
<1>9. Section(a \o b, running \cup queued)
  BY <1>2, <1>4, <1>5, SectionsOf
<1> DEFINE e == a \o b \o c
<1>10. Section(e, running \cup queued \cup last)
  BY <1>2, <1>8, <1>9, SectionsOf
<1> HIDE DEF e
<1>11. \A n \in 1 .. Len(e) : IsEntry(e[n])
  BY <1>10, RowIs DEF Section, IsEntry
<1> QED
  BY <1>3, <1>10, <1>11 DEF Section, Listing, Entries, e

LEMMA KeyOf ==
  ASSUME NEW e, Entries(e)
  PROVE  /\ Panel!DockKey(e) = [n \in 1 .. Len(e) |-> Panel!DockKey(e)[n]]
         /\ \A n \in 1 .. Len(e) : Panel!IsHeader(e[n]) =>
              Panel!DockKey(e)[n] = e[n]
         /\ \A n \in 1 .. Len(e) : ~Panel!IsHeader(e[n]) =>
              /\ Panel!DockKey(e)[n] = e[n].job /\ ~Panel!IsHeader(e[n].job)
              /\ e[n] = [job |-> e[n].job, text |-> e[n].text]
<1>1. DOMAIN e = 1 .. Len(e)
  BY DEF Entries, IsList
<1>2. \A n \in 1 .. Len(e) : ~Panel!IsHeader(e[n]) =>
         ~Panel!IsHeader(e[n].job) /\ e[n] = [job |-> e[n].job, text |-> e[n].text]
  BY DEF Entries, IsEntry
<1> QED
  BY <1>1, <1>2 DEF Panel!DockKey

LEMMA DockFields ==
  ASSUME NEW k, NEW a, NEW s, NEW x, NEW y, NEW w, NEW d, d = [key |-> k, drawn |-> a, showDone |-> s]
  PROVE  /\ d.key = k /\ d.drawn = a /\ d.showDone = s
         /\ [d EXCEPT !.key = x, !.drawn = y] = [key |-> x, drawn |-> y, showDone |-> s]
         /\ [d EXCEPT !.drawn = y] = [key |-> k, drawn |-> y, showDone |-> s]
         /\ [d EXCEPT !.showDone = w, !.key = x] = [key |-> x, drawn |-> a, showDone |-> w]
<1> DEFINE m == [d EXCEPT !.key = x]
           n == [d EXCEPT !.showDone = w]
           o == [d EXCEPT !.drawn = y]
<1>1. m = [key |-> x, drawn |-> a, showDone |-> s]
  OBVIOUS
<1>2. n = [key |-> k, drawn |-> a, showDone |-> w]
  OBVIOUS
<1>3. o = [key |-> k, drawn |-> y, showDone |-> s]
  OBVIOUS
<1>4. [d EXCEPT !.key = x, !.drawn = y] = [m EXCEPT !.drawn = y]
  OBVIOUS
<1>5. [d EXCEPT !.showDone = w, !.key = x] = [n EXCEPT !.key = x]
  OBVIOUS
<1> HIDE DEF m, n
<1>6. [m EXCEPT !.drawn = y] = [key |-> x, drawn |-> y, showDone |-> s]
  BY <1>1
<1>7. [n EXCEPT !.key = x] = [key |-> x, drawn |-> a, showDone |-> w]
  BY <1>2
<1>8. d.key = k /\ d.drawn = a /\ d.showDone = s
  OBVIOUS
<1> QED
  BY <1>3, <1>4, <1>5, <1>6, <1>7, <1>8, Zenon

LEMMA ReloadKeeps ==
  ASSUME Entries(dock.drawn), NEW d, NEW k, NEW s, s \in BOOLEAN, DockInv,
         d = [key |-> k, drawn |-> dock.drawn, showDone |-> s],
         k = Panel!DockKey(dock.drawn) \/ k = <<>>
  PROVE  LET new == Panel!ReloadDock(d)
             e == Panel!DockEntries(s)
         IN  /\ new = [key |-> Panel!DockKey(new.drawn), drawn |-> new.drawn, showDone |-> s]
             /\ Entries(new.drawn) /\ Panel!DockKey(new.drawn) = Panel!DockKey(e)
<1> DEFINE e == Panel!DockEntries(s)
           new == Panel!ReloadDock(d)
<1>1. Listing(e)
  BY EntriesOf
<1>2. Panel!DockKey(e) # <<>>
  <2> HIDE DEF e
  <2>1. DOMAIN Panel!DockKey(e) = 1 .. Len(e) /\ 1 \in 1 .. Len(e)
    BY <1>1, KeyOf DEF Listing, Entries, IsList
  <2>2. DOMAIN <<>> = {}
    OBVIOUS
  <2> QED
    BY <2>1, <2>2
<1>3. new = IF Panel!DockKey(e) = k THEN d
            ELSE [key |-> Panel!DockKey(e), drawn |-> e, showDone |-> s]
  <2>1. d.key = k /\ d.showDone = s
    OBVIOUS
  <2>2. new = IF Panel!DockKey(e) = k THEN d ELSE [d EXCEPT !.key = Panel!DockKey(e), !.drawn = e]
    BY <2>1 DEF Panel!ReloadDock
  <2> HIDE DEF e, new
  <2> DEFINE x == Panel!DockKey(e)
             a == dock.drawn
             w == [d EXCEPT !.key = x, !.drawn = e]
  <2>3. d = [key |-> k, drawn |-> a, showDone |-> s] /\ w = [d EXCEPT !.key = x, !.drawn = e]
    OBVIOUS
  <2> HIDE DEF x, a, w
  <2>4. w = [key |-> x, drawn |-> e, showDone |-> s]
    BY ONLY <2>3, DockFields, Zenon
  <2> QED
    BY <2>2, <2>4 DEF x, w
<1> HIDE DEF e, new
<1>4. CASE Panel!DockKey(e) = k
  <2>1. k = Panel!DockKey(dock.drawn)
    BY <1>2, <1>4
  <2>2. new = d /\ new.drawn = dock.drawn
    BY <1>3, <1>4
  <2> QED
    BY <1>4, <2>1, <2>2 DEF e, new
<1>5. CASE Panel!DockKey(e) # k
  <2>1. new = [key |-> Panel!DockKey(e), drawn |-> e, showDone |-> s] /\ new.drawn = e
    BY <1>3, <1>5
  <2> QED
    BY <1>1, <2>1 DEF Listing, e, new
<1> QED
  BY <1>4, <1>5

\* Entries of one key are the same but for the text of their rows.
LEMMA SameKey ==
  ASSUME NEW a, NEW e, Entries(a), Entries(e), Panel!DockKey(a) = Panel!DockKey(e)
  PROVE  /\ Len(a) = Len(e)
         /\ \A n \in 1 .. Len(e) :
              \/ Panel!IsHeader(e[n]) /\ a[n] = e[n]
              \/ /\ ~Panel!IsHeader(a[n]) /\ ~Panel!IsHeader(e[n])
                 /\ e[n] = [job |-> a[n].job, text |-> e[n].text]
                 /\ a[n] = [job |-> a[n].job, text |-> a[n].text]
<1>1. Len(a) = Len(e)
  <2>1. Len(a) \in Nat /\ Len(e) \in Nat
    BY DEF Entries, IsList
  <2>2. 1 .. Len(a) = 1 .. Len(e)
    <3>1. DOMAIN Panel!DockKey(a) = 1 .. Len(a) /\ DOMAIN Panel!DockKey(e) = 1 .. Len(e)
      BY KeyOf
    <3> QED
      BY <3>1
  <2> QED
    BY <2>1, <2>2
<1>2. ASSUME NEW n \in 1 .. Len(e)
      PROVE \/ Panel!IsHeader(e[n]) /\ a[n] = e[n]
            \/ /\ ~Panel!IsHeader(a[n]) /\ ~Panel!IsHeader(e[n])
               /\ e[n] = [job |-> a[n].job, text |-> e[n].text]
               /\ a[n] = [job |-> a[n].job, text |-> a[n].text]
  <2> DEFINE k == Panel!DockKey(e)[n]
  <2>1. Panel!DockKey(a)[n] = k
    OBVIOUS
  <2>2. IF Panel!IsHeader(e[n]) THEN k = e[n]
        ELSE /\ k = e[n].job /\ ~Panel!IsHeader(k)
             /\ e[n] = [job |-> e[n].job, text |-> e[n].text]
    BY KeyOf
  <2>3. IF Panel!IsHeader(a[n]) THEN k = a[n]
        ELSE /\ k = a[n].job /\ ~Panel!IsHeader(k)
             /\ a[n] = [job |-> a[n].job, text |-> a[n].text]
    BY <1>1, <2>1, KeyOf
  <2> HIDE DEF k
  <2> QED
    BY <2>2, <2>3
<1> QED
  BY <1>1, <1>2

\* A tick draws what a rebuild would, and its key stands.
LEMMA TickDraws ==
  ASSUME DockInv
  PROVE  LET new == Panel!TickDock(dock)
             e == Panel!DockEntries(dock.showDone)
         IN  new = [key |-> Panel!DockKey(e), drawn |-> e, showDone |-> dock.showDone]
<1> DEFINE e == Panel!DockEntries(dock.showDone)
           there(r) == {n \in DOMAIN e : ~Panel!IsHeader(e[n]) /\ e[n].job.id = r.job.id}
           renewed(r) == IF Panel!IsHeader(r) \/ there(r) = {} THEN r
                         ELSE [r EXCEPT !.text = e[CHOOSE n \in there(r) : TRUE].text]
           mid == Panel!ReloadDock(dock)
           a == mid.drawn
<1>1. Listing(e)
  BY EntriesOf DEF DockInv, IsDock
<1>2. /\ mid = [key |-> Panel!DockKey(a), drawn |-> a, showDone |-> dock.showDone]
      /\ Entries(a) /\ Panel!DockKey(a) = Panel!DockKey(e)
  <2>1. dock = [key |-> Panel!DockKey(dock.drawn), drawn |-> dock.drawn, showDone |-> dock.showDone]
    BY DEF DockInv, IsDock
  <2>2. Entries(dock.drawn)
    BY DEF DockInv, IsDock
  <2>3. dock.showDone \in BOOLEAN
    BY DEF DockInv, IsDock
  <2> QED
    BY <2>1, <2>2, <2>3, ReloadKeeps
<1>3. Panel!TickDock(dock) = [mid EXCEPT !.drawn = [n \in DOMAIN a |-> renewed(a[n])]]
  BY DEF Panel!TickDock
<1> HIDE DEF e, mid
<1>4. /\ Len(a) = Len(e)
      /\ \A n \in 1 .. Len(e) :
              \/ Panel!IsHeader(e[n]) /\ a[n] = e[n]
              \/ /\ ~Panel!IsHeader(a[n]) /\ ~Panel!IsHeader(e[n])
                 /\ e[n] = [job |-> a[n].job, text |-> e[n].text]
                 /\ a[n] = [job |-> a[n].job, text |-> a[n].text]
  BY <1>1, <1>2, SameKey DEF Listing
<1> HIDE DEF a
<1>5. DOMAIN a = 1 .. Len(e) /\ e = [n \in 1 .. Len(e) |-> e[n]] /\ DOMAIN e = 1 .. Len(e)
  BY <1>1, <1>2, <1>4 DEF Listing, Entries, IsList
<1>6. ASSUME NEW n \in 1 .. Len(e) PROVE renewed(a[n]) = e[n]
  <2>1. CASE Panel!IsHeader(e[n])
    BY <1>4, <2>1
  <2>2. CASE ~Panel!IsHeader(e[n])
    <3>1. /\ ~Panel!IsHeader(a[n])
          /\ e[n] = [job |-> a[n].job, text |-> e[n].text]
          /\ a[n] = [job |-> a[n].job, text |-> a[n].text]
      BY <1>4, <2>2
    <3>2. e[n].job = a[n].job
      BY <3>1
    <3>3. n \in there(a[n])
      BY <1>5, <2>2, <3>2
    <3> DEFINE m == CHOOSE x \in there(a[n]) : TRUE
    <3>4. m \in there(a[n])
      BY <3>3
    <3>5. renewed(a[n]) = [a[n] EXCEPT !.text = e[m].text]
      BY <3>1, <3>3
    <3> HIDE DEF m
    <3>6. m \in 1 .. Len(e) /\ ~Panel!IsHeader(e[m]) /\ e[m].job.id = a[n].job.id
      BY <1>5, <3>4
    <3>7. e[m] = e[n]
      BY <1>1, <2>2, <3>2, <3>6 DEF Listing
    <3> HIDE DEF renewed
    <3> DEFINE j == a[n].job
               t == e[n].text
               u == a[n].text
    <3>8. a[n] = [job |-> j, text |-> u] /\ e[n] = [job |-> j, text |-> t]
      BY <3>1
    <3>9. renewed(a[n]) = [a[n] EXCEPT !.text = t]
      BY <3>5, <3>7
    <3> HIDE DEF j, t, u
    <3> QED
      BY <3>8, <3>9
  <2> QED
    BY <2>1, <2>2
<1> HIDE DEF renewed
<1>7. [n \in DOMAIN a |-> renewed(a[n])] = e
  BY <1>5, <1>6
<1>8. Panel!TickDock(dock) = [mid EXCEPT !.drawn = e]
  BY <1>3, <1>7
<1> QED
  BY <1>2, <1>8 DEF e


LEMMA JobsStayList ==
  ASSUME IsList(jobs), Panel!Changes \/ Panel!Output
  PROVE  IsList(jobs')
<1>1. ASSUME NEW x, jobs' = Append(jobs, x) PROVE IsList(jobs')
  BY <1>1, AppendOf
<1>2. ASSUME NEW i, NEW x, jobs' = [jobs EXCEPT ![i] = x] PROVE IsList(jobs')
  <2>1. PICK m \in Nat : m = Len(jobs)
    BY DEF IsList
  <2>2. jobs = [n \in 1 .. m |-> jobs[n]]
    BY <2>1 DEF IsList
  <2>3. DOMAIN jobs' = 1 .. m /\ jobs' = [n \in DOMAIN jobs' |-> jobs'[n]]
    BY <1>2, <2>2
  <2>4. jobs' = [n \in 1 .. m |-> jobs'[n]]
    BY <2>3
  <2>5. Len(jobs') = m
    BY <2>4
  <2> QED
    BY <2>4, <2>5 DEF IsList
<1> QED
  BY <1>1, <1>2
     DEF Panel!Changes, Panel!Start, Panel!Pause, Panel!End,
         Panel!Cancel, Panel!Submit, Panel!Output, Panel!SubmitJob, Panel!Becomes

LEMMA DockStays ==
  ASSUME DockInv, UNCHANGED dock, UNCHANGED jobs \/ IsList(jobs')
  PROVE  DockInv'
<1>1. IsDock(dock)'
  BY DEF DockInv, IsDock, Entries, IsEntry, IsList, Panel!DockKey, Panel!IsHeader
<1>2. IsList(jobs)'
  BY DEF DockInv, IsList
<1> QED
  BY <1>1, <1>2 DEF DockInv

LEMMA StepDock ==
  ASSUME DockInv, Panel!DockNext \/ UNCHANGED panelVars
  PROVE  DockInv' /\ Panel!TickTells
<1> DEFINE s == dock.showDone
           k == Panel!DockKey(dock.drawn)
<1>0. /\ dock = [key |-> k, drawn |-> dock.drawn, showDone |-> s] /\ s \in BOOLEAN
      /\ Entries(dock.drawn) /\ IsList(jobs)
  BY DEF DockInv, IsDock
<1>1. ASSUME Panel!RunnerMoves PROVE DockInv'
  <2>1. IsList(jobs') /\ UNCHANGED dock
    BY <1>0, <1>1, JobsStayList DEF Panel!RunnerMoves
  <2> QED
    BY <2>1, DockStays
<1>2. ASSUME NEW d, NEW w, w \in BOOLEAN, NEW y, d = [key |-> y, drawn |-> dock.drawn, showDone |-> w],
             y = k \/ y = <<>>, dock' = Panel!ReloadDock(d), UNCHANGED jobs
      PROVE  DockInv'
  BY <1>0, <1>2, ReloadKeeps DEF DockInv, IsDock
<1>3. ASSUME Panel!Reload PROVE DockInv'
  <2>1. dock' = Panel!ReloadDock(dock) /\ UNCHANGED jobs
    BY <1>3 DEF Panel!Reload
  <2> HIDE DEF s, k
  <2> QED
    BY <1>0, <1>2, <2>1
<1>4. ASSUME Panel!ToggleDone PROVE DockInv'
  <2> DEFINE d == [dock EXCEPT !.showDone = ~@, !.key = <<>>]
  <2>1. d = [key |-> <<>>, drawn |-> dock.drawn, showDone |-> ~s] /\ (~s) \in BOOLEAN
    <3> DEFINE a == dock.drawn
               w == ~s
               x == <<>>
    <3>1. dock = [key |-> k, drawn |-> a, showDone |-> s]
      BY <1>0
    <3>2. d = [dock EXCEPT !.showDone = w, !.key = x]
      OBVIOUS
    <3> HIDE DEF a, w, x, s, k, d
    <3>3. d = [key |-> x, drawn |-> a, showDone |-> w]
      BY ONLY <3>1, <3>2, DockFields, Zenon
    <3>4. w \in BOOLEAN
      BY <1>0 DEF w
    <3> QED
      BY <3>3, <3>4 DEF a, w, x
  <2>2. dock' = Panel!ReloadDock(d) /\ UNCHANGED jobs
    BY <1>4 DEF Panel!ToggleDone
  <2> HIDE DEF d
  <2> QED
    BY <1>0, <1>2, <2>1, <2>2
<1>5. ASSUME Panel!Tick PROVE DockInv' /\ dock'.drawn = Panel!DockEntries(dock.showDone)
  <2> DEFINE e == Panel!DockEntries(s)
  <2>1. dock' = [key |-> Panel!DockKey(e), drawn |-> e, showDone |-> s]
    BY <1>0, <1>5, TickDraws DEF Panel!Tick
  <2>2. Entries(e)
    BY <1>0, EntriesOf DEF Listing
  <2> HIDE DEF e, s
  <2>3. DockInv'
    BY <1>0, <1>5, <2>1, <2>2 DEF Panel!Tick, DockInv, IsDock
  <2> QED
    BY <2>1, <2>3 DEF e, s
<1>6. ASSUME UNCHANGED panelVars PROVE DockInv'
  <2>1. UNCHANGED dock /\ UNCHANGED jobs
    BY <1>6 DEF panelVars
  <2> QED
    BY <2>1, DockStays
<1>7. DockInv'
  BY <1>1, <1>3, <1>4, <1>5, <1>6 DEF Panel!DockNext
<1> QED
  BY <1>5, <1>7 DEF Panel!TickTells

LEMMA InitDock == Init /\ part = "dock" => DockInv
<1> SUFFICES ASSUME Panel!DockInit PROVE DockInv
  BY DEF Init
<1>1. IsList(<<>>) /\ Entries(<<>>)
  BY DEF IsList, Entries
<1>2. Panel!DockKey(<<>>) = <<>>
  BY DEF Panel!DockKey
<1> QED
  BY <1>1, <1>2 DEF Panel!DockInit, DockInv, IsDock

\* Whatever jobs started, stopped, paused or ended since the strip was last rebuilt,
\* after a tick each of its lines is what a rebuild from the runner would draw.
THEOREM DockCorrect == Spec => DockTells
<1>1. (part = "dock" => DockInv) /\ [Next]_partsVars => (part = "dock" => DockInv)'
  BY PartSteps, StepDock
<1>2. (part = "dock" => DockInv) /\ [Next]_partsVars => [part = "dock" => Panel!TickTells]_partsVars
  BY PartSteps, StepDock
<1> QED
  BY InitDock, <1>1, <1>2, PTL DEF Spec, DockTells

-----------------------------------------------------------------------------
(***************************************************************************)
(* The usage rollup.                                                       *)
(***************************************************************************)
LineSet == [n : Nat \ {0}, what : {"call", "ok", "fail"}, of : Nat \ {0}]
LinesOf(s) == {s[i] : i \in 1 .. Len(s)}
IsResult(l) == l.what # "call"

\* A transcript: its lines in the order of their times, a result after its call and
\* one to a call.
IsTranscript(t, time_) ==
  /\ t \in [lines : Seq(LineSet), half : BOOLEAN, at : Nat, torn : BOOLEAN] /\ t.at <= time_
  /\ \A i, j \in 1 .. Len(t.lines) : i < j => t.lines[i].n < t.lines[j].n
  /\ \A l \in LinesOf(t.lines) :
       /\ l.n <= t.at
       /\ IF IsResult(l) THEN l.of < l.n ELSE l.of = l.n
  /\ \A l, m \in LinesOf(t.lines) : l.of = m.of /\ IsResult(l) /\ IsResult(m) => l = m

Subjects(L) == {l.of : l \in L}

AreTranscripts(tr, t) ==
  /\ tr = [f \in Transcripts |-> tr[f]]
  /\ \A f \in Transcripts : IsTranscript(tr[f], t)
  /\ \A f, h \in Transcripts :
       f # h => Subjects(LinesOf(tr[f].lines)) \cap Subjects(LinesOf(tr[h].lines)) = {}

\* What a rollup that has read the lines up to r says of them, in the window from w
\* on: each call once, each failure of a counted call once unless the call was given
\* up, and of the counted calls without a result that each waits or was given up; and
\* nothing of what is beyond r.
Mirrors(counts, fails, waiting, late, L, r, through, w) ==
  /\ \A l \in L : ~IsResult(l) /\ l.n >= w =>
       IF l.n <= r THEN counts[l.n] = 1 /\ l.n <= through
       ELSE counts[l.n] = 0 /\ fails[l.n] = 0 /\ l.n \notin waiting /\ l.n \notin late
  /\ \A l \in L : IsResult(l) /\ l.of >= w /\ l.n <= r =>
       /\ l.of \notin waiting
       /\ l.what = "fail" => fails[l.of] = IF l.of \in late THEN 0 ELSE counts[l.of]
  /\ \A c \in Subjects(L) :
       c >= w /\ (\A l \in L : l.of = c /\ IsResult(l) => l.n > r) =>
       fails[c] = 0 /\ counts[c] = IF c \in waiting \/ c \in late THEN 1 ELSE 0
  /\ \A c \in Subjects(L) : c >= w => c \notin waiting \/ c \notin late

\* The transcript read to its end.
LinesWell(L) ==
  /\ \A l \in L : l \in LineSet
  /\ \A l \in L : IF IsResult(l) THEN l.of < l.n ELSE l.of = l.n
  /\ \A l, m \in L : l.of = m.of /\ IsResult(l) /\ IsResult(m) => l = m

Reading(L, R, r, th, w, calls, failed, K, F, P, G, K2, F2, P2, G2, last, th2) ==
  /\ LinesWell(L)
  /\ {r, th, last, th2} \subseteq Nat /\ w \in Int
  /\ R \in SUBSET L
  /\ \A l \in L : l.n > r /\ l.n >= w => l \in R
  /\ \A l \in R : ~IsResult(l) /\ l.n >= w => l.n > r
  /\ calls = {l.n : l \in {m \in R : ~IsResult(m)}}
  /\ failed = {l.of : l \in {m \in R : m.what = "fail"}} \cap (P \cup calls)
  /\ P2 = (P \cup calls) \ {l.of : l \in {m \in R : IsResult(m)}}
  /\ G2 = G \ calls
  /\ \A c \in Subjects(L) : IF c \in calls THEN K[c] = 0 => K2[c] = 1 ELSE K2[c] = K[c]
  /\ \A c \in Subjects(L) : IF c \in failed THEN F[c] = 0 => F2[c] = 1 ELSE F2[c] = F[c]
  /\ \A l \in L : l.n <= last
  /\ th <= th2 /\ \A c \in calls : c <= th2

LEMMA ReadMirrors ==
  ASSUME NEW L, NEW R, NEW r, NEW th, NEW w, NEW calls, NEW failed,
         NEW K, NEW F, NEW P, NEW G, NEW K2, NEW F2, NEW P2, NEW G2, NEW last, NEW th2,
         Reading(L, R, r, th, w, calls, failed, K, F, P, G, K2, F2, P2, G2, last, th2),
         Mirrors(K, F, P, G, L, r, th, w)
  PROVE  Mirrors(K2, F2, P2, G2, L, last, th2, w)
<1> USE DEF Reading, LinesWell
<1> USE DEF LineSet
<1>1. \A l \in L : l.of \in Subjects(L)
  BY DEF Subjects
<1>2. ASSUME NEW l \in L, ~IsResult(l), l.n >= w
      PROVE  /\ l.n \in calls <=> l.n > r
             /\ K2[l.n] = 1 /\ l.n <= th2
  <2>1. l.n \in calls <=> l \in R
    <3>1. ASSUME l.n \in calls PROVE l \in R
      <4>1. PICK m \in R : ~IsResult(m) /\ m.n = l.n
        BY <3>1
      <4>2. m.of = l.of /\ m.what = l.what
        BY <1>2, <4>1 DEF IsResult
      <4> QED
        BY <4>1, <4>2
    <3> QED
      BY <1>2, <3>1
  <2>2. l.n \in calls <=> l.n > r
    BY <1>2, <2>1
  <2>3. l.of = l.n /\ l.n \in Subjects(L)
    BY <1>1, <1>2
  <2>4. CASE l.n > r
    <3>1. K[l.n] = 0
      BY <1>2, <2>4 DEF Mirrors
    <3> QED
      BY <2>2, <2>3, <2>4, <3>1
  <2>5. CASE l.n <= r
    <3>1. K[l.n] = 1 /\ l.n <= th
      BY <1>2, <2>5 DEF Mirrors
    <3> QED
      BY <2>2, <2>3, <2>5, <3>1
  <2> QED
    BY <2>2, <2>4, <2>5
<1>3. ASSUME NEW c, c \in calls, c >= w
      PROVE  (\E l \in L : ~IsResult(l) /\ l.n = c /\ l.of = c /\ l.n > r) /\ c \notin P /\ c \notin G
  <2>1. PICK l \in L : ~IsResult(l) /\ l.n = c /\ l.of = c /\ l.n > r
    BY <1>3
  <2>2. c \notin P /\ c \notin G
    BY <1>3, <2>1 DEF Mirrors
  <2> QED
    BY <2>1, <2>2
<1>4. ASSUME NEW l \in L, IsResult(l), l.of >= w
      PROVE  /\ l.of \notin P2
             /\ l.what = "fail" => F2[l.of] = IF l.of \in G2 THEN 0 ELSE K2[l.of]
  <2> DEFINE c == l.of
  <2>1. c \in Subjects(L) /\ c < l.n /\ c \in Nat /\ l.n >= w
    BY <1>1, <1>4
  <2>2. \A m \in L : m.of = c /\ IsResult(m) => m = l
    BY <1>4
  <2>a. c \in G2 <=> c \in G
    BY <1>3, <1>4
  <2>3. CASE l.n > r
    <3>1. l \in R
      BY <2>1, <2>3
    <3>2. /\ F[c] = 0 /\ K[c] = IF c \in P \/ c \in G THEN 1 ELSE 0
          /\ c \notin P \/ c \notin G
      BY <1>4, <2>1, <2>2, <2>3 DEF Mirrors
    <3>3. c \in calls => K[c] = 0 /\ c \notin P /\ c \notin G
      <4> SUFFICES ASSUME c \in calls PROVE K[c] = 0 /\ c \notin P /\ c \notin G
        OBVIOUS
      <4> QED
        BY <1>3, <1>4 DEF Mirrors
    <3>4. c \notin P2
      BY <1>4, <3>1
    <3>5. ASSUME l.what = "fail" PROVE F2[c] = IF c \in G2 THEN 0 ELSE K2[c]
      <4>1. c \in failed <=> c \in P \/ c \in calls
        BY <3>1, <3>5
      <4> HIDE DEF c
      <4>2. CASE c \in calls
        BY <2>1, <2>a, <3>2, <3>3, <4>1, <4>2
      <4>3. CASE c \notin calls
        BY <2>1, <2>a, <3>2, <4>1, <4>3
      <4> QED
        BY <4>2, <4>3
    <3> QED
      BY <3>4, <3>5
  <2>4. CASE l.n <= r
    <3>1. c \notin P /\ (l.what = "fail" => F[c] = IF c \in G THEN 0 ELSE K[c])
      BY <1>4, <2>4 DEF Mirrors
    <3>2. c \notin calls
      <4> SUFFICES ASSUME c \in calls PROVE FALSE
        OBVIOUS
      <4> QED
        BY <1>3, <1>4, <2>1, <2>4
    <3>3. c \notin failed /\ c \notin P2
      BY <3>1, <3>2
    <3> HIDE DEF c
    <3> QED
      BY <2>1, <2>a, <3>1, <3>2, <3>3 DEF c
  <2> QED
    BY <2>1, <2>3, <2>4
<1>5. ASSUME NEW c \in Subjects(L), c >= w, \A l \in L : l.of = c /\ IsResult(l) => l.n > last
      PROVE  F2[c] = 0 /\ K2[c] = IF c \in P2 \/ c \in G2 THEN 1 ELSE 0
  <2>1. \A l \in L : l.of = c => ~IsResult(l)
    BY <1>5
  <2>2. PICK l \in L : l.of = c /\ l.n = c /\ ~IsResult(l)
    BY <2>1 DEF Subjects
  <2>3. c \notin failed
    BY <2>1 DEF IsResult
  <2>4. c \in P2 <=> c \in P \/ c \in calls
    BY <2>1
  <2>5. K2[c] = 1
    BY <1>2, <1>5, <2>2
  <2>6. F[c] = 0 /\ (c <= r => K[c] = IF c \in P \/ c \in G THEN 1 ELSE 0)
    BY <1>5, <2>1, <2>2 DEF Mirrors
  <2>7. c <= r => c \in P \/ c \in G
    BY <1>5, <2>2, <2>6 DEF Mirrors
  <2>8. c > r <=> c \in calls
    BY <1>2, <1>5, <2>2
  <2>9. c \in Nat /\ r \in Nat
    BY <2>2
  <2>10. c \in P2 \/ c \in G2
    BY <2>4, <2>7, <2>8, <2>9
  <2> QED
    BY <2>3, <2>5, <2>6, <2>10
<1>6. ASSUME NEW c \in Subjects(L), c >= w PROVE c \notin P2 \/ c \notin G2
  <2>1. c \notin P \/ c \notin G
    BY <1>6 DEF Mirrors
  <2> QED
    BY <1>3, <1>6, <2>1
<1> QED
  BY <1>2, <1>4, <1>5, <1>6 DEF Mirrors

\* What is said of the window only matters there.
LEMMA SameMirrors ==
  ASSUME NEW L, \A l \in L : l \in LineSet,
         \A l \in L : IF IsResult(l) THEN l.of < l.n ELSE l.of = l.n,
         NEW K, NEW F, NEW P, NEW G, NEW r, NEW th, NEW w \in Int, Mirrors(K, F, P, G, L, r, th, w),
         NEW w2 \in Int, w <= w2,
         NEW K2, NEW F2, NEW P2, NEW G2,
         \A c \in Subjects(L) : c >= w2 =>
           K2[c] = K[c] /\ F2[c] = F[c] /\ (c \in P2 <=> c \in P) /\ (c \in G2 <=> c \in G)
  PROVE  Mirrors(K2, F2, P2, G2, L, r, th, w2)
<1>1. \A l \in L : l.of \in Subjects(L) /\ l.of \in Int /\ l.n \in Int /\ (~IsResult(l) => l.of = l.n)
  BY DEF Subjects, LineSet
<1>2. \A c \in Subjects(L) : c \in Int
  BY <1>1 DEF Subjects
<1> QED
  BY <1>1, <1>2 DEF Mirrors

\* A transcript all of which is out of the window.
LEMMA OldMirrors ==
  ASSUME NEW L, \A l \in L : l \in LineSet,
         \A l \in L : IF IsResult(l) THEN l.of < l.n ELSE l.of = l.n,
         NEW K, NEW F, NEW P, NEW G, NEW r, NEW th, NEW w \in Int, \A l \in L : l.n < w
  PROVE  Mirrors(K, F, P, G, L, r, th, w)
  BY DEF Mirrors, Subjects, LineSet

\* A line more.
LEMMA MoreMirrors ==
  ASSUME NEW L, \A l \in L : l \in LineSet,
         NEW K, NEW F, NEW P, NEW G, NEW r \in Nat, NEW th, NEW w, Mirrors(K, F, P, G, L, r, th, w),
         NEW l2 \in LineSet, \A l \in L : l.n < l2.n, r < l2.n,
         IF IsResult(l2) THEN \E l \in L : l.of = l2.of /\ \A m \in L : m.of = l2.of => ~IsResult(m)
         ELSE l2.of = l2.n /\ K[l2.n] = 0 /\ F[l2.n] = 0 /\ l2.n \notin P /\ l2.n \notin G
  PROVE  Mirrors(K, F, P, G, L \cup {l2}, r, th, w)
<1> DEFINE N == L \cup {l2}
<1>1. l2.n > r /\ ~(l2.n <= r)
  BY DEF LineSet
<1>2. \A c \in Subjects(N) : c \in Subjects(L) \/ (~IsResult(l2) /\ c = l2.n)
  BY DEF Subjects
<1>3. ASSUME NEW c \in Subjects(N), c >= w, \A l \in N : l.of = c /\ IsResult(l) => l.n > r
      PROVE  F[c] = 0 /\ K[c] = IF c \in P \/ c \in G THEN 1 ELSE 0
  BY <1>2, <1>3 DEF Mirrors
<1>4. ASSUME NEW l \in N, ~IsResult(l), l.n >= w
      PROVE  IF l.n <= r THEN K[l.n] = 1 /\ l.n <= th
             ELSE K[l.n] = 0 /\ F[l.n] = 0 /\ l.n \notin P /\ l.n \notin G
  BY <1>1, <1>4 DEF Mirrors
<1>5. ASSUME NEW l \in N, IsResult(l), l.of >= w, l.n <= r
      PROVE  l.of \notin P /\ (l.what = "fail" => F[l.of] = IF l.of \in G THEN 0 ELSE K[l.of])
  BY <1>1, <1>5 DEF Mirrors
<1>6. ASSUME NEW c \in Subjects(N), c >= w PROVE c \notin P \/ c \notin G
  BY <1>2, <1>6 DEF Mirrors
<1> QED
  BY <1>3, <1>4, <1>5, <1>6 DEF Mirrors

\* Calls given up.
LEMMA LateMirrors ==
  ASSUME NEW L, NEW K, NEW F, NEW P, NEW G, NEW r, NEW th, NEW w, Mirrors(K, F, P, G, L, r, th, w),
         NEW E, E \subseteq P
  PROVE  Mirrors(K, F, P \ E, G \cup E, L, r, th, w)
<1>1. \A l \in L : IsResult(l) => l.of \in Subjects(L)
  BY DEF Subjects
<1> QED
  BY <1>1 DEF Mirrors

\* The oldest lines gone.
LEMMA FewerMirrors ==
  ASSUME NEW L, \A l \in L : l \in LineSet,
         \A l \in L : IF IsResult(l) THEN l.of < l.n ELSE l.of = l.n,
         \A l, m \in L : l.of = m.of /\ IsResult(l) /\ IsResult(m) => l = m,
         NEW K, NEW F, NEW P, NEW G, NEW r \in Nat, NEW th, NEW w, Mirrors(K, F, P, G, L, r, th, w),
         NEW N \in SUBSET L, \A l \in N : \A m \in L \ N : m.n < l.n
  PROVE  Mirrors(K, F, P, G, N, r, th, w)
<1>1. ASSUME NEW c \in Subjects(N), \A l \in N : l.of = c /\ IsResult(l) => l.n > r
      PROVE  c \in Subjects(L) /\ \A l \in L : l.of = c /\ IsResult(l) => l.n > r
  <2>1. PICK m \in N : m.of = c
    BY DEF Subjects
  <2>2. ASSUME NEW l \in L, l.of = c, IsResult(l) PROVE l \in N
    BY <2>1, <2>2 DEF LineSet
  <2> QED
    BY <1>1, <2>1, <2>2 DEF Subjects
<1>2. Subjects(N) \subseteq Subjects(L)
  BY DEF Subjects
<1> QED
  BY <1>1, <1>2 DEF Mirrors

-----------------------------------------------------------------------------
LastRead(st) == IF st = Usage!NoState THEN 0 ELSE st.tail
Through(st) == IF st = Usage!NoState THEN 0 ELSE st.through

\* What is remembered of a transcript was true of it at some time.
StateOf(st, t) ==
  st # Usage!NoState =>
    /\ {st.at, st.offset, st.tail, st.through} \subseteq Nat
    /\ st.at # 0 /\ st.at <= t.at
    /\ st.at = t.at => st.offset = Len(t.lines) /\ st.tail = Usage!TailPrint(t, st.offset)
    /\ st.tail = 0 <=> st.offset = 0
    /\ st.through <= st.tail
    /\ st.tail # 0 => Len(t.lines) # 0 /\ st.tail <= t.lines[Len(t.lines)].n

\* What a rollup holds at all, and when it may give a call up.
Sane(x, t) ==
  /\ \A c \in Usage!Times : /\ x.counts[c] \in Nat /\ x.fails[c] \in Nat /\ x.readAt[c] \in Int
                            /\ c > t => x.counts[c] = 0 /\ x.fails[c] = 0
  /\ x.pending \cup x.late \subseteq Usage!Times \cap (1 .. t)
  /\ \A c \in x.late : x.readAt[c] + PendingTTL < t
  /\ \A f \in Transcripts :
       x.files[f] # Usage!NoState => x.files[f].offset \in Nat /\ \A p \in Programs : f \in Lists[p]

\* The transcripts never rewritten under a pass.
Whole(tr) == {f \in Transcripts : ~tr[f].torn}

Faithful(x, w, tr, t) ==
  /\ Sane(x, t)
  /\ \A f \in Whole(tr) :
       /\ StateOf(x.files[f], tr[f])
       /\ Mirrors(x.counts, x.fails, x.pending, x.late, LinesOf(tr[f].lines),
                  LastRead(x.files[f]), Through(x.files[f]), w)

\* Two rollups that say the same of a call.
Agree(x, y, c) ==
  /\ x.counts[c] = y.counts[c] /\ x.fails[c] = y.fails[c]
  /\ (c \in x.pending <=> c \in y.pending) /\ (c \in x.late <=> c \in y.late)

LEMMA LinesFacts ==
  ASSUME NEW t, NEW k, IsTranscript(t, k)
  PROVE  /\ \A l \in LinesOf(t.lines) :
              /\ l \in LineSet /\ l.n <= t.at
              /\ IF IsResult(l) THEN l.of < l.n ELSE l.of = l.n
         /\ \A l, m \in LinesOf(t.lines) : l.of = m.of /\ IsResult(l) /\ IsResult(m) => l = m
         /\ \A i \in 1 .. Len(t.lines) : t.lines[i] \in LinesOf(t.lines)
         /\ Len(t.lines) \in Nat /\ t.at \in Nat
         /\ Usage!ToSet(t.lines) = LinesOf(t.lines)
<1>1. t.lines \in Seq(LineSet) /\ t.at \in Nat
  BY DEF IsTranscript
<1>2. DOMAIN t.lines = 1 .. Len(t.lines) /\ Len(t.lines) \in Nat
  BY <1>1
<1>3. \A i \in 1 .. Len(t.lines) : t.lines[i] \in LineSet /\ t.lines[i] \in LinesOf(t.lines)
  BY <1>1 DEF LinesOf
<1>4. Usage!ToSet(t.lines) = LinesOf(t.lines)
  BY <1>2 DEF Usage!ToSet, LinesOf
<1>5. \A l \in LinesOf(t.lines) : l \in LineSet
  BY <1>3 DEF LinesOf
<1> QED
  BY <1>1, <1>2, <1>3, <1>4, <1>5 DEF IsTranscript

\* A rollup is as sound as another that says the same in the window.
LEMMA SameSound ==
  ASSUME NEW tr, NEW t, AreTranscripts(tr, t),
         NEW x, NEW w \in Int, Faithful(x, w, tr, t), NEW w2 \in Int, w <= w2,
         NEW x2, Sane(x2, t),
         \A f \in Whole(tr) : \A c \in Subjects(LinesOf(tr[f].lines)) : c >= w2 => Agree(x2, x, c),
         \A f \in Whole(tr) : x2.files[f] = x.files[f]
  PROVE  Faithful(x2, w2, tr, t)
<1>1. ASSUME NEW f \in Whole(tr)
      PROVE  Mirrors(x2.counts, x2.fails, x2.pending, x2.late, LinesOf(tr[f].lines), LastRead(x2.files[f]),
                     Through(x2.files[f]), w2)
  <2> DEFINE L == LinesOf(tr[f].lines)
             K == x.counts
             F == x.fails
             P == x.pending
             G == x.late
             K2 == x2.counts
             F2 == x2.fails
             P2 == x2.pending
             G2 == x2.late
             read == LastRead(x2.files[f])
             th == Through(x2.files[f])
  <2>1. IsTranscript(tr[f], t)
    BY DEF AreTranscripts, Whole
  <2>2. Mirrors(K, F, P, G, L, read, th, w)
    BY DEF Faithful
  <2>3. /\ \A l \in L : l \in LineSet
        /\ \A l \in L : IF IsResult(l) THEN l.of < l.n ELSE l.of = l.n
    BY <2>1, LinesFacts
  <2>4. \A c \in Subjects(L) : c >= w2 =>
          K2[c] = K[c] /\ F2[c] = F[c] /\ (c \in P2 <=> c \in P) /\ (c \in G2 <=> c \in G)
    BY DEF Agree
  <2> HIDE DEF L, K, F, P, G, K2, F2, P2, G2, read, th
  <2>5. Mirrors(K2, F2, P2, G2, L, read, th, w2)
    BY <2>2, <2>3, <2>4, SameMirrors
  <2> QED
    BY <2>5 DEF L, K2, F2, P2, G2, read, th
<1> QED
  BY <1>1 DEF Faithful

\* So is one that gave calls up.
LEMMA LateSound ==
  ASSUME NEW tr, NEW t, AreTranscripts(tr, t),
         NEW x, NEW w \in Int, Faithful(x, w, tr, t), NEW x2, Sane(x2, t), NEW E, E \subseteq x.pending,
         \A f \in Whole(tr) : \A c \in Subjects(LinesOf(tr[f].lines)) :
           /\ x2.counts[c] = x.counts[c] /\ x2.fails[c] = x.fails[c]
           /\ c \in x2.pending <=> c \in x.pending \ E
           /\ c \in x2.late <=> c \in x.late \cup E,
         \A f \in Whole(tr) : x2.files[f] = x.files[f]
  PROVE  Faithful(x2, w, tr, t)
<1>1. ASSUME NEW f \in Whole(tr)
      PROVE  Mirrors(x2.counts, x2.fails, x2.pending, x2.late, LinesOf(tr[f].lines), LastRead(x2.files[f]),
                     Through(x2.files[f]), w)
  <2> DEFINE L == LinesOf(tr[f].lines)
             K == x.counts
             F == x.fails
             P == x.pending
             G == x.late
             P1 == P \ E
             G1 == G \cup E
             K2 == x2.counts
             F2 == x2.fails
             P2 == x2.pending
             G2 == x2.late
             read == LastRead(x2.files[f])
             th == Through(x2.files[f])
  <2>1. IsTranscript(tr[f], t)
    BY DEF AreTranscripts, Whole
  <2>2. Mirrors(K, F, P, G, L, read, th, w) /\ E \subseteq P
    BY DEF Faithful
  <2>3. /\ \A l \in L : l \in LineSet
        /\ \A l \in L : IF IsResult(l) THEN l.of < l.n ELSE l.of = l.n
    BY <2>1, LinesFacts
  <2>4. \A c \in Subjects(L) : c >= w =>
          K2[c] = K[c] /\ F2[c] = F[c] /\ (c \in P2 <=> c \in P1) /\ (c \in G2 <=> c \in G1)
    OBVIOUS
  <2>5. w \in Int /\ w <= w
    OBVIOUS
  <2> HIDE DEF L, K, F, P, G, K2, F2, P2, G2, read, th
  <2>6. Mirrors(K, F, P1, G1, L, read, th, w)
    BY <2>2, LateMirrors
  <2> HIDE DEF P1, G1
  <2>7. Mirrors(K2, F2, P2, G2, L, read, th, w)
    BY ONLY <2>3, <2>4, <2>5, <2>6, SameMirrors
  <2> QED
    BY <2>7 DEF L, K2, F2, P2, G2, read, th
<1> QED
  BY <1>1 DEF Faithful
-----------------------------------------------------------------------------
\* A line more at k, or an unfinished one, or the oldest lines gone.
Written(u, u2, k) ==
  /\ u2 \in [lines : Seq(LineSet), half : BOOLEAN, at : Nat, torn : BOOLEAN] /\ u2.at = k
  /\ u.torn => u2.torn
  /\ \/ \E l \in LineSet :
          /\ u2.lines = Append(u.lines, l) /\ l.n = k
          /\ IF IsResult(l)
             THEN /\ \E m \in LinesOf(u.lines) : m.of = l.of
                  /\ \A m \in LinesOf(u.lines) : m.of = l.of => ~IsResult(m)
             ELSE l.of = k
     \/ u2.lines = u.lines
     \/ \E i \in 1 .. Len(u.lines) : u2.lines = SubSeq(u.lines, i, Len(u.lines))

\* The lines after it.
LinesWritten(L, N, k) ==
  \/ N = L
  \/ \E l \in LineSet :
       /\ N = L \cup {l} /\ l.n = k
       /\ IF IsResult(l)
          THEN \E m \in L : m.of = l.of /\ \A o \in L : o.of = l.of => ~IsResult(o)
          ELSE l.of = k
  \/ N \subseteq L /\ \A l \in N : \A m \in L \ N : m.n < l.n

LEMMA WrittenFacts ==
  ASSUME NEW u, NEW k \in Nat, IsTranscript(u, k), NEW u2, Written(u, u2, k + 1)
  PROVE  /\ IsTranscript(u2, k + 1)
         /\ Subjects(LinesOf(u2.lines)) \subseteq Subjects(LinesOf(u.lines)) \cup {k + 1}
         /\ Len(u.lines) # 0 => /\ Len(u2.lines) # 0
                                /\ u.lines[Len(u.lines)].n <= u2.lines[Len(u2.lines)].n
         /\ LinesWritten(LinesOf(u.lines), LinesOf(u2.lines), k + 1)
<1>0. /\ u.lines \in Seq(LineSet) /\ u.at \in Nat /\ u.at <= k
      /\ \A i, j \in 1 .. Len(u.lines) : i < j => u.lines[i].n < u.lines[j].n
      /\ Len(u.lines) \in Nat
      /\ \A i \in 1 .. Len(u.lines) : u.lines[i] \in LineSet /\ u.lines[i] \in LinesOf(u.lines)
  BY LinesFacts DEF IsTranscript
<1>a. /\ \A l \in LinesOf(u.lines) : /\ l \in LineSet /\ l.n <= u.at
                                     /\ IF IsResult(l) THEN l.of < l.n ELSE l.of = l.n
      /\ \A l, m \in LinesOf(u.lines) : l.of = m.of /\ IsResult(l) /\ IsResult(m) => l = m
  BY LinesFacts
<1>b. u2 \in [lines : Seq(LineSet), half : BOOLEAN, at : Nat, torn : BOOLEAN] /\ u2.at = k + 1
  BY DEF Written
<1>c. \A i \in 1 .. Len(u.lines) : u.lines[i].n \in Nat /\ u.lines[i].n <= k
  <2> SUFFICES ASSUME NEW i \in 1 .. Len(u.lines) PROVE u.lines[i].n \in Nat /\ u.lines[i].n <= k
    OBVIOUS
  <2> DEFINE l == u.lines[i]
  <2>1. l \in LineSet /\ l.n <= u.at
    BY <1>0, <1>a
  <2>2. l.n \in Nat
    BY <2>1 DEF LineSet
  <2> HIDE DEF l
  <2> QED
    BY <1>0, <2>1, <2>2 DEF l
<1>d. Len(u.lines) # 0 => Len(u.lines) \in 1 .. Len(u.lines)
  BY <1>0
<1>1. ASSUME u2.lines = u.lines
      PROVE  /\ IsTranscript(u2, k + 1)
             /\ LinesOf(u2.lines) = LinesOf(u.lines)
             /\ Len(u.lines) # 0 => /\ Len(u2.lines) # 0
                                    /\ u.lines[Len(u.lines)].n <= u2.lines[Len(u2.lines)].n
  <2>1. \A l \in LinesOf(u.lines) : l.n <= k + 1
    BY <1>0, <1>a DEF LineSet
  <2> QED
    BY <1>0, <1>a, <1>b, <1>c, <1>d, <1>1, <2>1 DEF IsTranscript
<1>2. ASSUME NEW l \in LineSet, u2.lines = Append(u.lines, l), l.n = k + 1,
             IF IsResult(l)
             THEN /\ \E m \in LinesOf(u.lines) : m.of = l.of
                  /\ \A m \in LinesOf(u.lines) : m.of = l.of => ~IsResult(m)
             ELSE l.of = k + 1
      PROVE  /\ IsTranscript(u2, k + 1)
             /\ Subjects(LinesOf(u2.lines)) \subseteq Subjects(LinesOf(u.lines)) \cup {k + 1}
             /\ Len(u.lines) # 0 => /\ Len(u2.lines) # 0
                                    /\ u.lines[Len(u.lines)].n <= u2.lines[Len(u2.lines)].n
             /\ LinesOf(u2.lines) = LinesOf(u.lines) \cup {l}
  <2>1. /\ Len(u2.lines) = Len(u.lines) + 1 /\ u2.lines[Len(u2.lines)] = l
        /\ \A i \in 1 .. Len(u.lines) : u2.lines[i] = u.lines[i]
    BY <1>0, <1>2
  <2>2. LinesOf(u2.lines) = LinesOf(u.lines) \cup {l}
    <3>1. ASSUME NEW i \in 1 .. Len(u2.lines) PROVE u2.lines[i] \in LinesOf(u.lines) \cup {l}
      BY <1>0, <2>1
    <3>2. \A m \in LinesOf(u.lines) : \E i \in 1 .. Len(u2.lines) : u2.lines[i] = m
      BY <1>0, <2>1, SMTT(30) DEF LinesOf
    <3>3. \E i \in 1 .. Len(u2.lines) : u2.lines[i] = l
      BY <1>0, <2>1
    <3> QED
      BY <3>1, <3>2, <3>3 DEF LinesOf
  <2>3. \A i, j \in 1 .. Len(u2.lines) : i < j => u2.lines[i].n < u2.lines[j].n
    <3>1. \A i \in 1 .. Len(u.lines) : u.lines[i].n < k + 1 /\ u.lines[i].n \in Nat
      BY <1>0, <1>a, SMTT(30) DEF LineSet
    <3>2. \A i \in 1 .. Len(u2.lines) : i \in 1 .. Len(u.lines) \/ i = Len(u2.lines)
      BY <1>0, <2>1
    <3> QED
      BY <1>0, <1>2, <2>1, <3>1, <3>2
  <2>4. \A m \in LinesOf(u2.lines) : /\ m.n <= k + 1
                                     /\ IF IsResult(m) THEN m.of < m.n ELSE m.of = m.n
    BY <1>0, <1>2, <1>a, <2>2 DEF LineSet
  <2>5. \A m, o \in LinesOf(u2.lines) : m.of = o.of /\ IsResult(m) /\ IsResult(o) => m = o
    BY <1>2, <1>a, <2>2
  <2>6. Subjects(LinesOf(u2.lines)) \subseteq Subjects(LinesOf(u.lines)) \cup {k + 1}
    BY <1>2, <2>2 DEF Subjects
  <2>7. Len(u.lines) # 0 => u.lines[Len(u.lines)].n <= k
    BY <1>c, <1>d
  <2>8. Len(u.lines) # 0 => /\ Len(u2.lines) # 0
                            /\ u.lines[Len(u.lines)].n <= u2.lines[Len(u2.lines)].n
    BY <1>0, <1>2, <1>c, <1>d, <2>1, <2>7
  <2>9. IsTranscript(u2, k + 1)
    BY <1>b, <2>3, <2>4, <2>5 DEF IsTranscript
  <2> QED
    BY <2>2, <2>6, <2>8, <2>9
<1>3. ASSUME NEW i \in 1 .. Len(u.lines), u2.lines = SubSeq(u.lines, i, Len(u.lines))
      PROVE  /\ IsTranscript(u2, k + 1)
             /\ Subjects(LinesOf(u2.lines)) \subseteq Subjects(LinesOf(u.lines)) \cup {k + 1}
             /\ Len(u2.lines) # 0 /\ u.lines[Len(u.lines)].n <= u2.lines[Len(u2.lines)].n
             /\ LinesOf(u2.lines) \subseteq LinesOf(u.lines)
             /\ \A l \in LinesOf(u2.lines) : \A m \in LinesOf(u.lines) \ LinesOf(u2.lines) : m.n < l.n
  <2>1. /\ Len(u2.lines) = Len(u.lines) - i + 1 /\ Len(u2.lines) \in Nat
        /\ \A j \in 1 .. Len(u2.lines) : u2.lines[j] = u.lines[i + j - 1] /\ i + j - 1 \in 1 .. Len(u.lines)
    BY <1>0, <1>3, SMTT(30)
  <2>2. LinesOf(u2.lines) = {u.lines[j] : j \in i .. Len(u.lines)}
    <3>1. \A j \in i .. Len(u.lines) : j - i + 1 \in 1 .. Len(u2.lines) /\ u2.lines[j - i + 1] = u.lines[j]
      BY <1>0, <2>1
    <3>2. \A j \in 1 .. Len(u2.lines) : i + j - 1 \in i .. Len(u.lines)
      BY <1>0, <2>1
    <3>3. LinesOf(u2.lines) \subseteq {u.lines[j] : j \in i .. Len(u.lines)}
      BY <2>1, <3>2 DEF LinesOf
    <3>4. {u.lines[j] : j \in i .. Len(u.lines)} \subseteq LinesOf(u2.lines)
      <4> SUFFICES ASSUME NEW j \in i .. Len(u.lines) PROVE u.lines[j] \in LinesOf(u2.lines)
        OBVIOUS
      <4> QED
        BY <3>1 DEF LinesOf
    <3> QED
      BY <3>3, <3>4
  <2>3. LinesOf(u2.lines) \subseteq LinesOf(u.lines)
    <3>1. \A j \in i .. Len(u.lines) : j \in 1 .. Len(u.lines)
      BY <1>0
    <3> QED
      BY <2>2, <3>1 DEF LinesOf
  <2>4. \A l \in LinesOf(u2.lines) : \A m \in LinesOf(u.lines) \ LinesOf(u2.lines) : m.n < l.n
    <3> SUFFICES ASSUME NEW l \in LinesOf(u2.lines), NEW m \in LinesOf(u.lines) \ LinesOf(u2.lines)
                 PROVE  m.n < l.n
      OBVIOUS
    <3>1. PICK j \in i .. Len(u.lines) : l = u.lines[j]
      BY <2>2
    <3>2. PICK h \in 1 .. Len(u.lines) : m = u.lines[h]
      BY DEF LinesOf
    <3>3. h \notin i .. Len(u.lines)
      BY <2>2, <3>2
    <3> QED
      BY <1>0, <3>1, <3>2, <3>3
  <2>5. ASSUME NEW j \in 1 .. Len(u2.lines), NEW h \in 1 .. Len(u2.lines), j < h
        PROVE  u2.lines[j].n < u2.lines[h].n
    <3>1. i + j - 1 \in 1 .. Len(u.lines) /\ i + h - 1 \in 1 .. Len(u.lines) /\ i + j - 1 < i + h - 1
      BY <1>0, <2>1, <2>5
    <3>2. u.lines[i + j - 1].n < u.lines[i + h - 1].n
      BY <1>0, <3>1
    <3>3. u2.lines[j] = u.lines[i + j - 1] /\ u2.lines[h] = u.lines[i + h - 1]
      BY <2>1
    <3> QED
      BY <3>2, <3>3
  <2>6. \A l \in LinesOf(u2.lines) : l.n <= k + 1
    BY <1>0, <1>a, <2>3 DEF LineSet
  <2>7. Subjects(LinesOf(u2.lines)) \subseteq Subjects(LinesOf(u.lines))
    BY <2>3 DEF Subjects
  <2>8. u2.lines[Len(u2.lines)] = u.lines[Len(u.lines)] /\ Len(u2.lines) # 0
    <3>1. Len(u2.lines) \in 1 .. Len(u2.lines) /\ i + Len(u2.lines) - 1 = Len(u.lines)
      BY <1>0, <2>1
    <3>2. u2.lines[Len(u2.lines)] = u.lines[i + Len(u2.lines) - 1]
      BY <2>1, <3>1
    <3> QED
      BY <3>1, <3>2
  <2>9. Len(u.lines) \in 1 .. Len(u.lines) /\ u.lines[Len(u.lines)].n \in Nat
    BY <1>0, <1>c
  <2> QED
    BY <1>0, <1>a, <1>b, <2>3, <2>4, <2>5, <2>6, <2>7, <2>8, <2>9 DEF IsTranscript
<1> QED
  BY <1>1, <1>2, <1>3 DEF Written, LinesWritten

LEMMA TranscriptsWritten ==
  ASSUME NEW tr, NEW t \in Nat, AreTranscripts(tr, t), NEW f \in Transcripts, NEW u2,
         Written(tr[f], u2, t + 1)
  PROVE  AreTranscripts([tr EXCEPT ![f] = u2], t + 1)
<1> DEFINE tr2 == [tr EXCEPT ![f] = u2]
<1>1. tr = [h \in Transcripts |-> tr[h]]
  BY DEF AreTranscripts
<1>2. tr2[f] = u2 /\ \A h \in Transcripts : h # f => tr2[h] = tr[h]
  BY <1>1
<1>3. tr2 = [h \in Transcripts |-> tr2[h]]
  BY <1>1
<1>4. \A h \in Transcripts : IsTranscript(tr[h], t) /\ IsTranscript(tr[h], t + 1)
  BY DEF AreTranscripts, IsTranscript
<1>5. IsTranscript(u2, t + 1)
      /\ Subjects(LinesOf(u2.lines)) \subseteq Subjects(LinesOf(tr[f].lines)) \cup {t + 1}
  BY <1>4, WrittenFacts
<1>6. \A h \in Transcripts : \A c \in Subjects(LinesOf(tr[h].lines)) : c # t + 1
  <2> SUFFICES ASSUME NEW h \in Transcripts, NEW l \in LinesOf(tr[h].lines) PROVE l.of # t + 1
    BY DEF Subjects
  <2>1. l \in LineSet /\ l.n <= tr[h].at /\ l.of <= l.n /\ tr[h].at \in Nat
    BY <1>4, LinesFacts DEF LineSet
  <2>2. tr[h].at <= t
    BY <1>4 DEF IsTranscript
  <2>3. l.n \in Nat /\ l.of \in Nat
    BY <2>1 DEF LineSet
  <2> QED
    BY <2>1, <2>2, <2>3
<1>7. \A g, h \in Transcripts :
        g # h => Subjects(LinesOf(tr2[g].lines)) \cap Subjects(LinesOf(tr2[h].lines)) = {}
  <2>1. \A g, h \in Transcripts :
          g # h => Subjects(LinesOf(tr[g].lines)) \cap Subjects(LinesOf(tr[h].lines)) = {}
    BY DEF AreTranscripts
  <2> HIDE DEF tr2
  <2> QED
    BY <1>2, <1>5, <1>6, <2>1
<1> HIDE DEF tr2
<1>8. \A h \in Transcripts : IsTranscript(tr2[h], t + 1)
  BY <1>2, <1>4, <1>5
<1> QED
  BY <1>3, <1>7, <1>8 DEF AreTranscripts, tr2

LEMMA SaneLater ==
  ASSUME NEW x, NEW t \in Nat, Sane(x, t)
  PROVE  Sane(x, t + 1)
<1>1. PendingTTL \in Nat /\ MaxTime \in Nat
  BY UsageConstants DEF Usage!UsageAssumptions
<1>2. \A c \in Usage!Times : c \in Int /\ (c > t + 1 => c > t)
  BY <1>1 DEF Usage!Times
<1>3. \A c \in x.late : x.readAt[c] \in Int /\ x.readAt[c] + PendingTTL < t
  BY DEF Sane
<1>4. \A c \in x.late : x.readAt[c] + PendingTTL < t + 1
  BY <1>1, <1>3
<1>5. 1 .. t \subseteq 1 .. t + 1
  OBVIOUS
<1> QED
  BY <1>2, <1>4, <1>5 DEF Sane

\* Whatever is written to a transcript, what is said of it is as true as it was.
LEMMA FileWritten ==
  ASSUME NEW tr, NEW t \in Nat, t + 1 \in Usage!Times, AreTranscripts(tr, t),
         NEW f \in Whole(tr), NEW u2, Written(tr[f], u2, t + 1),
         NEW x, NEW w \in Int, Faithful(x, w, tr, t)
  PROVE  /\ StateOf(x.files[f], u2)
         /\ Mirrors(x.counts, x.fails, x.pending, x.late, LinesOf(u2.lines),
                    LastRead(x.files[f]), Through(x.files[f]), w)
<1> DEFINE u == tr[f]
           L == LinesOf(u.lines)
           L2 == LinesOf(u2.lines)
           K == x.counts
           F == x.fails
           P == x.pending
           G == x.late
           read == LastRead(x.files[f])
           th == Through(x.files[f])
           st == x.files[f]
<1>2. Sane(x, t) /\ f \in Transcripts
  BY DEF Faithful, Whole
<1>3. IsTranscript(u, t)
  BY <1>2 DEF AreTranscripts
<1>4. IsTranscript(u2, t + 1)
  BY <1>3, WrittenFacts
<1>5. StateOf(st, u) /\ Mirrors(K, F, P, G, L, read, th, w)
  BY DEF Faithful
<1>6. u.at \in Nat /\ u.at <= t /\ u2.at = t + 1 /\ Len(u.lines) \in Nat
      /\ (Len(u.lines) # 0 => Len(u.lines) \in 1 .. Len(u.lines))
      /\ \A i \in 1 .. Len(u.lines) : u.lines[i] \in L
  BY <1>3, LinesFacts, SMTT(30) DEF IsTranscript, Written
<1>7. Len(u.lines) # 0 => /\ Len(u2.lines) # 0
                          /\ u.lines[Len(u.lines)].n <= u2.lines[Len(u2.lines)].n
                          /\ u.lines[Len(u.lines)].n \in Nat /\ u.lines[Len(u.lines)].n <= t
                          /\ u2.lines[Len(u2.lines)].n \in Nat
  <2> SUFFICES ASSUME Len(u.lines) # 0
               PROVE  /\ Len(u2.lines) # 0
                      /\ u.lines[Len(u.lines)].n <= u2.lines[Len(u2.lines)].n
                      /\ u.lines[Len(u.lines)].n \in Nat /\ u.lines[Len(u.lines)].n <= t
                      /\ u2.lines[Len(u2.lines)].n \in Nat
    OBVIOUS
  <2>1. /\ Len(u2.lines) # 0
        /\ u.lines[Len(u.lines)].n <= u2.lines[Len(u2.lines)].n
    BY <1>3, WrittenFacts
  <2>2. u.lines[Len(u.lines)] \in L
    BY <1>6
  <2>3. u.lines[Len(u.lines)] \in LineSet /\ u.lines[Len(u.lines)].n <= u.at
    BY <1>3, <2>2, LinesFacts
  <2>4. u2.lines[Len(u2.lines)] \in LineSet
    BY <1>4, <2>1 DEF IsTranscript
  <2> QED
    BY <1>6, <2>1, <2>3, <2>4, SMTT(30) DEF LineSet
<1>8. StateOf(st, u2)
  <2> SUFFICES ASSUME st # Usage!NoState
               PROVE  /\ {st.at, st.offset, st.tail, st.through} \subseteq Nat
                      /\ st.at # 0 /\ st.at <= u2.at
                      /\ st.at = u2.at => st.offset = Len(u2.lines) /\ st.tail = Usage!TailPrint(u2, st.offset)
                      /\ st.tail = 0 <=> st.offset = 0
                      /\ st.through <= st.tail
                      /\ st.tail # 0 => Len(u2.lines) # 0 /\ st.tail <= u2.lines[Len(u2.lines)].n
    BY DEF StateOf
  <2>1. /\ {st.at, st.offset, st.tail, st.through} \subseteq Nat
        /\ st.at # 0 /\ st.at <= u.at
        /\ st.tail = 0 <=> st.offset = 0
        /\ st.through <= st.tail
        /\ st.tail # 0 => Len(u.lines) # 0 /\ st.tail <= u.lines[Len(u.lines)].n
    BY <1>5 DEF StateOf
  <2> HIDE DEF st, u
  <2> QED
    BY <1>6, <1>7, <2>1
<1>9. read \in Nat /\ read <= t
  <2>1. CASE st = Usage!NoState
    BY <2>1 DEF LastRead
  <2>2. CASE st # Usage!NoState
    <3>1. st.tail \in Nat /\ (st.tail # 0 => Len(u.lines) # 0 /\ st.tail <= u.lines[Len(u.lines)].n)
      BY <1>5, <2>2 DEF StateOf
    <3>2. read = st.tail
      BY <2>2 DEF LastRead
    <3> HIDE DEF st, u, read
    <3> QED
      BY <1>7, <3>1, <3>2
  <2> QED
    BY <2>1, <2>2
<1>a. /\ \A l \in L : /\ l \in LineSet /\ l.n <= u.at
                      /\ IF IsResult(l) THEN l.of < l.n ELSE l.of = l.n
      /\ \A l, m \in L : l.of = m.of /\ IsResult(l) /\ IsResult(m) => l = m
  BY <1>3, LinesFacts
<1>b. K[t + 1] = 0 /\ F[t + 1] = 0 /\ t + 1 \notin P /\ t + 1 \notin G
  BY <1>2 DEF Sane
<1>c. LinesWritten(L, L2, t + 1)
  BY <1>3, WrittenFacts
<1>d. Mirrors(K, F, P, G, L2, read, th, w)
  <2>1. \A l \in L : l.n < t + 1
    <3> SUFFICES ASSUME NEW l \in L PROVE l.n < t + 1
      OBVIOUS
    <3>1. l \in LineSet /\ l.n <= u.at
      BY <1>a
    <3>2. l.n \in Nat
      BY <3>1 DEF LineSet
    <3> HIDE DEF L, u
    <3> QED
      BY <1>6, <3>1, <3>2
  <2> HIDE DEF K, F, P, G, L, L2, u, st, read, th
  <2>2. ASSUME NEW l \in LineSet, L2 = L \cup {l}, l.n = t + 1,
               IF IsResult(l)
               THEN \E m \in L : m.of = l.of /\ \A o \in L : o.of = l.of => ~IsResult(o)
               ELSE l.of = t + 1
        PROVE  Mirrors(K, F, P, G, L2, read, th, w)
    <3>1. Mirrors(K, F, P, G, L \cup {l}, read, th, w)
      <4>1. \A m \in L : m \in LineSet /\ m.n < l.n
        BY <1>a, <2>1, <2>2
      <4>2. read < l.n
        BY <1>9, <2>2
      <4>3. IF IsResult(l)
            THEN \E m \in L : l.of = m.of /\ \A o \in L : o.of = l.of => ~IsResult(o)
            ELSE l.of = l.n /\ K[l.n] = 0 /\ F[l.n] = 0 /\ l.n \notin P /\ l.n \notin G
        BY <1>b, <2>2
      <4> QED
        BY <1>5, <1>9, <4>1, <4>2, <4>3, MoreMirrors
    <3> QED
      BY <2>2, <3>1
  <2>3. CASE L2 \subseteq L /\ \A l \in L2 : \A m \in L \ L2 : m.n < l.n
    BY <1>5, <1>9, <1>a, <2>3, FewerMirrors
  <2> QED
    BY <1>5, <1>c, <2>2, <2>3 DEF LinesWritten
<1> QED
  BY <1>8, <1>d

\* So a rollup is as sound as it was.
LEMMA SoundWritten ==
  ASSUME NEW tr, NEW t \in Nat, t + 1 \in Usage!Times, AreTranscripts(tr, t),
         NEW f \in Transcripts, NEW u2, Written(tr[f], u2, t + 1),
         NEW x, NEW w \in Int, Faithful(x, w, tr, t)
  PROVE  /\ Whole([tr EXCEPT ![f] = u2]) \subseteq Whole(tr)
         /\ Faithful(x, w, [tr EXCEPT ![f] = u2], t + 1)
<1> DEFINE tr2 == [tr EXCEPT ![f] = u2]
<1>1. /\ tr2[f] = u2 /\ \A h \in Transcripts : h # f => tr2[h] = tr[h]
      /\ Whole(tr2) \subseteq Whole(tr)
  BY DEF AreTranscripts, Whole, Written
<1>2. ASSUME NEW h \in Whole(tr2)
      PROVE  /\ StateOf(x.files[h], tr2[h])
             /\ Mirrors(x.counts, x.fails, x.pending, x.late, LinesOf(tr2[h].lines),
                        LastRead(x.files[h]), Through(x.files[h]), w)
  <2>1. h \in Whole(tr) /\ h \in Transcripts
    BY <1>1 DEF Whole
  <2>2. CASE h = f
    BY <1>1, <2>1, <2>2, FileWritten
  <2>3. CASE h # f
    BY <1>1, <2>1, <2>3 DEF Faithful
  <2> QED
    BY <2>2, <2>3
<1>3. Sane(x, t + 1)
  BY SaneLater DEF Faithful
<1> HIDE DEF tr2
<1>4. Faithful(x, w, tr2, t + 1)
  BY <1>2, <1>3 DEF Faithful
<1> QED
  BY <1>1, <1>4 DEF tr2

-----------------------------------------------------------------------------
\* What the program will hold of the transcripts once the pass is folded in, if it
\* reads nothing more.
Held(q, x) ==
  [counts |-> Usage!Bump(x.counts, q.calls), fails |-> Usage!Bump(x.fails, q.fails), pending |-> q.pending,
   readAt |-> [n \in Usage!Times |-> IF n \in q.calls THEN q.since + Retain ELSE x.readAt[n]],
   late |-> (x.late \cup Usage!Expired(x, q.since + Retain)) \ q.calls,
   files |-> [f \in Transcripts |-> IF f \in q.left THEN x.files[f] ELSE q.files[f]]]

\* A look at u, of which st was remembered: it reads on where st ended, or from the
\* start and what came after the last call of st.
LookAt(k, f, u, st, since) ==
  /\ k.file = <<f>> /\ k.at \in Nat /\ k.at # 0 /\ k.at >= since /\ k.at <= u.at
  /\ k.through = Through(st)
  /\ k.resume.since \in Int /\ k.resume.since >= since
  /\ \/ /\ k.resume.off = 0 /\ LastRead(st) = 0 /\ k.resume.since = since
     \/ /\ k.resume.off \in 1 .. Len(u.lines) /\ u.lines[k.resume.off].n = LastRead(st)
        /\ k.resume.since = since
     \/ /\ k.resume.off = 0 /\ k.resume.since \in {since, Through(st) + 1}
        /\ k.resume.since > Through(st) \/ Through(st) = 0

\* A pass by its fields.
PassOf(l, b, k, s, fs, c, a, w) ==
  [left |-> l, busy |-> b, look |-> k, since |-> s, files |-> fs,
   calls |-> c, fails |-> a, pending |-> w]

PassShape(q) ==
  /\ q = PassOf(q.left, q.busy, q.look, q.since, q.files, q.calls, q.fails, q.pending)
  /\ q.files = [f \in Transcripts |-> q.files[f]]

\* The calls it waits for: what it read, and what was carried over to it.
Carries(q, x) == q.pending \subseteq q.calls \cup (x.pending \ Usage!Expired(x, q.since + Retain))

Countable(x) ==
  \A c \in Usage!Times : x.counts[c] \in Nat /\ x.fails[c] \in Nat /\ x.readAt[c] \in Int

Passing(q, x, tr, t) ==
  /\ PassShape(q)
  /\ q.since \in Int /\ q.since <= t - Retain
  /\ \A f \in q.left : f \in Transcripts /\ tr[f].at # 0 /\ \A p \in Programs : f \in Lists[p]
  /\ \A f \in Transcripts : q.files[f] # Usage!NoState =>
       (f \in Whole(tr) => q.files[f].at >= q.since) /\ f \notin q.left
  /\ q.look = Usage!NoLook \/
       \E f \in q.left : /\ q.look.file = <<f>> /\ q.look.resume.off \in Nat
                         /\ f \in Whole(tr) => LookAt(q.look, f, tr[f], x.files[f], q.since)
  /\ Countable(x) /\ Carries(q, x)
  /\ Faithful(Held(q, x), q.since, tr, t)

LEMMA PassFields ==
  ASSUME NEW l, NEW b, NEW k, NEW s, NEW fs, NEW c, NEW a, NEW w, fs = [f \in Transcripts |-> fs[f]],
         NEW q, q = PassOf(l, b, k, s, fs, c, a, w)
  PROVE  /\ PassShape(q) /\ q.left = l /\ q.look = k /\ q.since = s /\ q.files = fs
         /\ q.calls = c /\ q.fails = a /\ q.pending = w
<1>1. /\ q.left = l /\ q.look = k /\ q.since = s /\ q.files = fs
      /\ q.calls = c /\ q.fails = a /\ q.pending = w
  BY DEF PassOf
<1>2. q = PassOf(q.left, q.busy, q.look, q.since, q.files, q.calls, q.fails, q.pending)
  BY DEF PassOf
<1> QED
  BY <1>1, <1>2 DEF PassShape

LEMMA PassShaped ==
  ASSUME NEW q, PassShape(q)
  PROVE  \E l, b, k, s, fs, c, a, w :
           q = PassOf(l, b, k, s, fs, c, a, w) /\ fs = [f \in Transcripts |-> fs[f]]
<1> DEFINE fs == q.files
<1>1. q = PassOf(q.left, q.busy, q.look, q.since, fs, q.calls, q.fails, q.pending)
      /\ fs = [f \in Transcripts |-> fs[f]]
  BY DEF PassShape
<1> HIDE DEF fs
<1> QED
  BY <1>1

\* A pass with another look, one with a transcript done with, and that with its state.
LEMMA PassLooks ==
  ASSUME NEW q, PassShape(q), NEW k, NEW n, n = [q EXCEPT !.look = k]
  PROVE  /\ PassShape(n) /\ n.left = q.left /\ n.look = k /\ n.since = q.since /\ n.files = q.files
         /\ n.calls = q.calls /\ n.fails = q.fails /\ n.pending = q.pending
<1>1. PICK l, b, k0, s, fs, c, a, w : q = PassOf(l, b, k0, s, fs, c, a, w)
                                    /\ fs = [h \in Transcripts |-> fs[h]]
  BY PassShaped
<1>2. n = PassOf(l, b, k, s, fs, c, a, w)
  BY <1>1 DEF PassOf
<1> QED
  BY <1>1, <1>2, PassFields

LEMMA PassDone ==
  ASSUME NEW q, PassShape(q), NEW f, NEW n, n = [q EXCEPT !.left = @ \ {f}]
  PROVE  /\ PassShape(n) /\ n.left = q.left \ {f} /\ n.look = q.look /\ n.since = q.since
         /\ n.files = q.files
         /\ n.calls = q.calls /\ n.fails = q.fails /\ n.pending = q.pending
<1>1. PICK l, b, k, s, fs, c, a, w : q = PassOf(l, b, k, s, fs, c, a, w)
                                    /\ fs = [h \in Transcripts |-> fs[h]]
  BY PassShaped
<1>2. n = PassOf(l \ {f}, b, k, s, fs, c, a, w)
  BY <1>1 DEF PassOf
<1>3. /\ q.left = l /\ q.look = k /\ q.since = s /\ q.files = fs
      /\ q.calls = c /\ q.fails = a /\ q.pending = w
  BY <1>1, PassFields
<1> DEFINE l2 == l \ {f}
<1>5. n = PassOf(l2, b, k, s, fs, c, a, w)
  BY <1>2
<1>6. fs = [h \in Transcripts |-> fs[h]]
  BY <1>1
<1> HIDE DEF l2
<1>4. /\ PassShape(n) /\ n.left = l2 /\ n.look = k /\ n.since = s /\ n.files = fs
      /\ n.calls = c /\ n.fails = a /\ n.pending = w
  BY ONLY <1>5, <1>6, PassFields
<1> QED
  BY <1>3, <1>4 DEF l2

LEMMA PassFiled ==
  ASSUME NEW q, PassShape(q), NEW f \in Transcripts, NEW st, NEW n, n = [q EXCEPT !.files[f] = st]
  PROVE  /\ PassShape(n) /\ n.left = q.left /\ n.look = q.look /\ n.since = q.since
         /\ n.files[f] = st /\ \A h \in Transcripts : h # f => n.files[h] = q.files[h]
         /\ n.calls = q.calls /\ n.fails = q.fails /\ n.pending = q.pending
<1>1. PICK l, b, k, s, fs, c, a, w : q = PassOf(l, b, k, s, fs, c, a, w)
                                    /\ fs = [h \in Transcripts |-> fs[h]]
  BY PassShaped
<1> DEFINE fs2 == [fs EXCEPT ![f] = st]
<1>2. n = [q EXCEPT !.files = fs2]
  <2>1. n = [q EXCEPT !.files = [q.files EXCEPT ![f] = st]]
    OBVIOUS
  <2> QED
    BY <1>1, <2>1, PassFields
<1>3. /\ fs2 = [h \in Transcripts |-> fs2[h]]
      /\ fs2[f] = st /\ \A h \in Transcripts : h # f => fs2[h] = fs[h]
  BY <1>1
<1> HIDE DEF fs2
<1>4. n = PassOf(l, b, k, s, fs2, c, a, w)
  BY <1>1, <1>2 DEF PassOf
<1> QED
  BY <1>1, <1>3, <1>4, PassFields

LEMMA SubjectTimes ==
  ASSUME NEW tr, NEW t \in Nat, t <= MaxTime, AreTranscripts(tr, t), NEW f \in Transcripts
  PROVE  /\ \A c \in Subjects(LinesOf(tr[f].lines)) : c \in Usage!Times /\ c <= t
         /\ \A l \in LinesOf(tr[f].lines) : l.n \in Usage!Times /\ l.n <= t
<1> SUFFICES ASSUME NEW l \in LinesOf(tr[f].lines)
             PROVE  l.of \in Usage!Times /\ l.of <= t /\ l.n \in Usage!Times /\ l.n <= t
  BY DEF Subjects
<1>1. IsTranscript(tr[f], t) /\ tr[f].at <= t
  BY DEF AreTranscripts, IsTranscript
<1>2. l \in LineSet /\ l.n <= tr[f].at /\ (IF IsResult(l) THEN l.of < l.n ELSE l.of = l.n)
      /\ tr[f].at \in Nat
  BY <1>1, LinesFacts
<1>3. l.n \in Nat \ {0} /\ l.of \in Nat \ {0} /\ l.of <= l.n
  BY <1>2 DEF LineSet
<1>4. MaxTime \in Nat
  BY UsageConstants DEF Usage!UsageAssumptions
<1> QED
  BY <1>1, <1>2, <1>3, <1>4 DEF Usage!Times

\* A pass goes on whatever is written to a transcript that it does not read.
LEMMA PassWritten ==
  ASSUME NEW tr, NEW t \in Nat, t + 1 \in Usage!Times, AreTranscripts(tr, t),
         NEW f \in Transcripts, NEW u2, Written(tr[f], u2, t + 1),
         NEW q, NEW x, Passing(q, x, tr, t),
         \/ q.look.file # <<f>>
         \/ /\ \A i \in 1 .. Len(tr[f].lines) : i \in 1 .. Len(u2.lines) /\ u2.lines[i] = tr[f].lines[i]
         \/ u2.torn
  PROVE  Passing(q, x, [tr EXCEPT ![f] = u2], t + 1)
<1> DEFINE tr2 == [tr EXCEPT ![f] = u2]
           u == tr[f]
<1>1. tr2[f] = u2 /\ \A h \in Transcripts : h # f => tr2[h] = tr[h]
  BY DEF AreTranscripts
<1>2. Faithful(Held(q, x), q.since, tr2, t + 1) /\ Whole(tr2) \subseteq Whole(tr)
  <2>1. q.since \in Int /\ Faithful(Held(q, x), q.since, tr, t)
    BY DEF Passing
  <2> QED
    BY <2>1, SoundWritten
<1>3. u.at \in Nat /\ u2.at = t + 1 /\ u.at <= t /\ u2.at \in Nat
  BY LinesFacts DEF AreTranscripts, IsTranscript, Written
<1>4. ASSUME NEW h \in q.left, q.look.file = <<h>>, h \in Whole(tr2),
             LookAt(q.look, h, tr[h], x.files[h], q.since)
      PROVE  LookAt(q.look, h, tr2[h], x.files[h], q.since)
  <2>1. h \in Transcripts
    BY DEF Passing
  <2>2. CASE h # f
    BY <1>1, <1>4, <2>1, <2>2
  <2>3. CASE h = f
    <3>1. q.look.file = <<f>> /\ q.look.at \in Nat /\ q.look.at <= u.at /\ ~u2.torn
      BY <1>1, <1>4, <2>3 DEF LookAt, Whole
    <3>2. \A i \in 1 .. Len(u.lines) : i \in 1 .. Len(u2.lines) /\ u2.lines[i] = u.lines[i]
      BY <3>1
    <3>3. q.look.at <= u2.at
      BY <1>3, <3>1
    <3>4. LookAt(q.look, f, u2, x.files[f], q.since)
      <4>1. LookAt(q.look, f, u, x.files[f], q.since)
        BY <1>4, <2>3
      <4> HIDE DEF u
      <4> QED
        BY <3>2, <3>3, <4>1 DEF LookAt
    <3> QED
      BY <1>1, <2>3, <3>4
  <2> QED
    BY <2>2, <2>3
<1>5. \A h \in q.left : h \in Transcripts /\ tr2[h].at # 0
  BY <1>1, <1>3 DEF Passing
<1>6. q.since \in Int /\ q.since <= (t + 1) - Retain
  BY UsageConstants DEF Passing, Usage!UsageAssumptions
<1>7. q.look = Usage!NoLook \/
        \E h \in q.left : /\ q.look.file = <<h>> /\ q.look.resume.off \in Nat
                          /\ h \in Whole(tr2) => LookAt(q.look, h, tr2[h], x.files[h], q.since)
  <2> HIDE DEF tr2, u
  <2> QED
    BY <1>2, <1>4 DEF Passing
<1> HIDE DEF tr2, u
<1>8. /\ PassShape(q)
      /\ \A h \in q.left : \A p \in Programs : h \in Lists[p]
      /\ \A h \in Transcripts : q.files[h] # Usage!NoState =>
           (h \in Whole(tr2) => q.files[h].at >= q.since) /\ h \notin q.left
      /\ Countable(x) /\ Carries(q, x)
  BY <1>2 DEF Passing
<1>9. Passing(q, x, tr2, t + 1)
  BY ONLY <1>2, <1>5, <1>6, <1>7, <1>8 DEF Passing
<1> QED
  BY <1>9 DEF tr2

\* A pass begins with what the program holds, less the calls it gives up.
LEMMA StartsPass ==
  ASSUME NEW tr, NEW t \in Nat, t <= MaxTime, AreTranscripts(tr, t), NEW p \in Programs,
         \A h \in Programs : Lists[h] = Lists[p],
         NEW x, Faithful(x, t - Retain, tr, t),
         NEW q,
         q = [busy |-> TRUE, left |-> {f \in Lists[p] : tr[f].at > 0}, look |-> Usage!NoLook,
              since |-> t - Retain, files |-> [f \in Transcripts |-> Usage!NoState],
              calls |-> {}, fails |-> {}, pending |-> x.pending \ Usage!Expired(x, t)]
  PROVE  Passing(q, x, tr, t)
<1> DEFINE y == Held(q, x)
           w == t - Retain
           E == Usage!Expired(x, t)
<1>0. Retain \in Nat /\ PendingTTL \in Nat /\ w \in Int /\ w + Retain = t /\ Lists[p] \subseteq Transcripts
  BY UsageConstants DEF Usage!UsageAssumptions
<1>1. /\ q.left = {f \in Lists[p] : tr[f].at > 0} /\ q.look = Usage!NoLook /\ q.since = w
      /\ q.files = [f \in Transcripts |-> Usage!NoState] /\ q.pending = x.pending \ E
      /\ q.calls = {} /\ q.fails = {}
  OBVIOUS
<1>a. PassShape(q)
  <2>1. q = PassOf(q.left, q.busy, q.look, q.since, q.files, q.calls, q.fails, q.pending)
    BY DEF PassOf
  <2>2. q.files = [f \in Transcripts |-> q.files[f]]
    BY <1>1
  <2> QED
    BY <2>1, <2>2 DEF PassShape
<1>2. /\ Sane(x, t)
      /\ \A f \in Whole(tr) : StateOf(x.files[f], tr[f])
  BY DEF Faithful
<1>3. E \subseteq x.pending /\ \A c \in E : x.readAt[c] < t - PendingTTL
  BY DEF Usage!Expired
<1>b. \A c \in E : c \in Usage!Times /\ x.readAt[c] + PendingTTL < t
  <2> SUFFICES ASSUME NEW c \in E PROVE c \in Usage!Times /\ x.readAt[c] + PendingTTL < t
    OBVIOUS
  <2>1. c \in Usage!Times /\ x.readAt[c] \in Int /\ x.readAt[c] < t - PendingTTL
    BY <1>2, <1>3 DEF Sane
  <2> HIDE DEF E
  <2> QED
    BY <1>0, <2>1
<1> HIDE DEF w, E
<1>4. /\ y.pending = x.pending \ E /\ y.late = x.late \cup E
      /\ \A c \in Usage!Times : /\ y.counts[c] = x.counts[c] /\ y.fails[c] = x.fails[c]
                                /\ y.readAt[c] = x.readAt[c]
      /\ y.files = [f \in Transcripts |-> IF f \in q.left THEN x.files[f] ELSE q.files[f]]
  BY <1>0, <1>1 DEF Held, Usage!Bump, E
<1>5. \A f \in Transcripts : tr[f].at \in Nat
  BY LinesFacts DEF AreTranscripts
<1>c. Whole(tr) \subseteq Transcripts
  BY DEF Whole
<1> HIDE DEF y
<1>d. \A f \in Transcripts : y.files[f] = x.files[f] \/ y.files[f] = Usage!NoState
  BY <1>1, <1>4
<1>6. \A f \in Whole(tr) : y.files[f] = x.files[f]
  <2> SUFFICES ASSUME NEW f \in Whole(tr), x.files[f] # Usage!NoState PROVE f \in q.left
    BY <1>1, <1>4, <1>c
  <2>1. x.files[f].at \in Nat /\ x.files[f].at # 0 /\ x.files[f].at <= tr[f].at
    BY <1>2 DEF StateOf
  <2>2. f \in Lists[p] /\ tr[f].at \in Nat
    BY <1>2, <1>5, <1>c DEF Sane
  <2> QED
    BY <1>1, <2>1, <2>2
<1>e. Sane(y, t)
  <2>1. y.pending \cup y.late = x.pending \cup x.late
    BY <1>3, <1>4
  <2>2. \A c \in y.late : c \in Usage!Times /\ x.readAt[c] + PendingTTL < t
    BY <1>2, <1>4, <1>b DEF Sane
  <2>3. \A c \in y.late : y.readAt[c] + PendingTTL < t
    BY <1>4, <2>2
  <2> QED
    BY <1>2, <1>4, <1>d, <2>1, <2>3 DEF Sane
<1>7. Faithful(y, w, tr, t)
  <2>1. \A f \in Whole(tr) : \A c \in Subjects(LinesOf(tr[f].lines)) : c \in Usage!Times
    BY <1>c, SubjectTimes
  <2>2. \A f \in Whole(tr) : \A c \in Subjects(LinesOf(tr[f].lines)) :
          /\ y.counts[c] = x.counts[c] /\ y.fails[c] = x.fails[c]
          /\ c \in y.pending <=> c \in x.pending \ E
          /\ c \in y.late <=> c \in x.late \cup E
    BY <1>4, <2>1
  <2>3. AreTranscripts(tr, t) /\ Faithful(x, w, tr, t)
    BY DEF w
  <2> QED
    BY ONLY <1>0, <1>3, <1>6, <1>e, <2>2, <2>3, LateSound
<1>8. \A f \in q.left : f \in Transcripts /\ tr[f].at # 0 /\ \A h \in Programs : f \in Lists[h]
  BY <1>0, <1>1, <1>5
<1>9. \A f \in Transcripts : q.files[f] = Usage!NoState
  BY <1>1
<1>10. q.since \in Int /\ q.since <= t - Retain
  BY <1>0, <1>1 DEF w
<1>11. Countable(x) /\ Carries(q, x)
  BY <1>0, <1>1, <1>2 DEF Countable, Carries, Sane, E
<1>12. Faithful(Held(q, x), q.since, tr, t)
  BY <1>1, <1>7 DEF y
<1> QED
  BY ONLY <1>1, <1>a, <1>8, <1>9, <1>10, <1>11, <1>12 DEF Passing

\* A pass gone on to the next transcript, f done with.
LEMMA PassOn ==
  ASSUME NEW tr, NEW t \in Nat, t <= MaxTime, AreTranscripts(tr, t),
         NEW q, NEW x, Passing(q, x, tr, t), NEW f \in q.left, NEW st,
         f \in Whole(tr) => StateOf(st, tr[f]) /\ (st # Usage!NoState => st.at >= q.since),
         NEW n, PassShape(n), n.left = q.left \ {f}, n.look = Usage!NoLook, n.since = q.since,
         n.files[f] = st, \A h \in Transcripts : h # f => n.files[h] = q.files[h],
         Carries(n, x),
         NEW y, y = Held(q, x), NEW z, z = Held(n, x), Sane(z, t),
         \A h \in Transcripts : h # f => \A c \in Subjects(LinesOf(tr[h].lines)) : Agree(z, y, c),
         f \in Whole(tr) => Mirrors(z.counts, z.fails, z.pending, z.late, LinesOf(tr[f].lines),
                                    LastRead(st), Through(st), q.since)
  PROVE  Passing(n, x, tr, t)
<1>0. /\ PassShape(q) /\ f \in Transcripts
      /\ q.since \in Int /\ q.since <= t - Retain
      /\ \A h \in q.left : h \in Transcripts /\ tr[h].at # 0 /\ \A p \in Programs : h \in Lists[p]
      /\ \A h \in Transcripts : q.files[h] # Usage!NoState =>
           (h \in Whole(tr) => q.files[h].at >= q.since) /\ h \notin q.left
      /\ Countable(x)
      /\ Faithful(y, q.since, tr, t)
  BY DEF Passing
<1>1. y.files = [h \in Transcripts |-> IF h \in q.left THEN x.files[h] ELSE q.files[h]]
  BY DEF Held
<1>2. z.files = [h \in Transcripts |-> IF h \in n.left THEN x.files[h] ELSE n.files[h]]
  BY DEF Held
<1>3. z.files[f] = st /\ \A h \in Transcripts : h # f => z.files[h] = y.files[h]
  BY <1>0, <1>1, <1>2
<1>4. \A h \in Whole(tr) :
        /\ StateOf(y.files[h], tr[h])
        /\ Mirrors(y.counts, y.fails, y.pending, y.late, LinesOf(tr[h].lines),
                   LastRead(y.files[h]), Through(y.files[h]), q.since)
  BY <1>0 DEF Faithful
<1>a. \A h \in Whole(tr) : h \in Transcripts
  BY DEF Whole
<1>5. ASSUME NEW h \in Whole(tr), h # f
      PROVE  Mirrors(z.counts, z.fails, z.pending, z.late, LinesOf(tr[h].lines),
                     LastRead(z.files[h]), Through(z.files[h]), q.since)
  <2> DEFINE L == LinesOf(tr[h].lines)
             K == y.counts
             F == y.fails
             P == y.pending
             G == y.late
             K2 == z.counts
             F2 == z.fails
             P2 == z.pending
             G2 == z.late
             read == LastRead(z.files[h])
             th == Through(z.files[h])
             w == q.since
  <2>1. Mirrors(K, F, P, G, L, read, th, w) /\ w \in Int /\ w <= w
    BY <1>0, <1>3, <1>4, <1>5, <1>a
  <2>2. /\ \A l \in L : l \in LineSet
        /\ \A l \in L : IF IsResult(l) THEN l.of < l.n ELSE l.of = l.n
    BY <1>a, LinesFacts DEF AreTranscripts
  <2>3. \A c \in Subjects(L) : /\ K2[c] = K[c] /\ F2[c] = F[c]
                               /\ (c \in P2 <=> c \in P) /\ (c \in G2 <=> c \in G)
    BY <1>5, <1>a DEF Agree
  <2> HIDE DEF L, K, F, P, G, K2, F2, P2, G2, read, th, w
  <2>4. Mirrors(K2, F2, P2, G2, L, read, th, w)
    BY ONLY <2>1, <2>2, <2>3, SameMirrors
  <2> QED
    BY <2>4 DEF L, K2, F2, P2, G2, read, th, w
<1>6. Faithful(z, q.since, tr, t)
  <2>1. ASSUME NEW h \in Whole(tr)
        PROVE  /\ StateOf(z.files[h], tr[h])
               /\ Mirrors(z.counts, z.fails, z.pending, z.late, LinesOf(tr[h].lines),
                          LastRead(z.files[h]), Through(z.files[h]), q.since)
    <3>1. CASE h = f
      BY <1>3, <3>1
    <3>2. CASE h # f
      BY <1>3, <1>4, <1>5, <1>a, <3>2
    <3> QED
      BY <3>1, <3>2
  <2> QED
    BY <2>1 DEF Faithful
<1>7. \A h \in n.left : h \in Transcripts /\ tr[h].at # 0 /\ \A p \in Programs : h \in Lists[p]
  BY <1>0
<1>8. \A h \in Transcripts : n.files[h] # Usage!NoState =>
        (h \in Whole(tr) => n.files[h].at >= n.since) /\ h \notin n.left
  BY <1>0
<1>9. /\ PassShape(n) /\ n.look = Usage!NoLook /\ n.since = q.since /\ Carries(n, x)
      /\ Faithful(Held(n, x), q.since, tr, t)
  BY <1>6
<1> QED
  BY ONLY <1>0, <1>7, <1>8, <1>9 DEF Passing

\* A rollup with the same numbers, and perhaps a transcript forgotten.
LEMMA SameSane ==
  ASSUME NEW t, NEW y, Sane(y, t), NEW z,
         z.counts = y.counts, z.fails = y.fails, z.pending = y.pending,
         z.readAt = y.readAt, z.late = y.late,
         \A h \in Transcripts : z.files[h] = y.files[h] \/ z.files[h] = Usage!NoState
  PROVE  Sane(z, t) /\ \A c : Agree(z, y, c)
  BY DEF Sane, Agree

\* A transcript out of the window is not read, and forgotten.
LEMMA LooksOld ==
  ASSUME NEW tr, NEW t \in Nat, t <= MaxTime, AreTranscripts(tr, t),
         NEW q, NEW x, Passing(q, x, tr, t), NEW f \in q.left, q.look = Usage!NoLook,
         tr[f].at < q.since
  PROVE  Passing([q EXCEPT !.left = @ \ {f}], x, tr, t)
<1> DEFINE n == [q EXCEPT !.left = @ \ {f}]
           y == Held(q, x)
           z == Held(n, x)
<1>0. /\ PassShape(q) /\ f \in Transcripts
      /\ q.since \in Int
      /\ \A h \in Transcripts : q.files[h] # Usage!NoState => h \notin q.left
      /\ Carries(q, x)
      /\ Faithful(y, q.since, tr, t)
  BY DEF Passing
<1> HIDE DEF n
<1>1. /\ n.left = q.left \ {f} /\ n.look = Usage!NoLook /\ n.since = q.since
      /\ n.calls = q.calls /\ n.fails = q.fails /\ n.pending = q.pending
      /\ n.files = q.files
  BY <1>0, PassDone DEF n
<1>2. PassShape(n)
  BY <1>0, PassDone DEF n
<1>3. q.files[f] = Usage!NoState
  BY <1>0
<1>4. /\ z.counts = y.counts /\ z.fails = y.fails /\ z.pending = y.pending
      /\ z.readAt = y.readAt /\ z.late = y.late
      /\ \A h \in Transcripts : z.files[h] = y.files[h] \/ z.files[h] = Usage!NoState
  BY <1>1, <1>3 DEF Held
<1>5. StateOf(Usage!NoState, tr[f])
  BY DEF StateOf
<1>6. Sane(y, t)
  BY <1>0 DEF Faithful
<1>a. Carries(n, x)
  BY <1>0, <1>1 DEF Carries
<1> DEFINE L == LinesOf(tr[f].lines)
           read == LastRead(Usage!NoState)
           th == Through(Usage!NoState)
           w == q.since
           K == z.counts
           F == z.fails
           P == z.pending
           G == z.late
<1>7. /\ \A l \in L : l \in LineSet /\ l.n <= tr[f].at
      /\ \A l \in L : IF IsResult(l) THEN l.of < l.n ELSE l.of = l.n
      /\ tr[f].at \in Nat
  BY <1>0, LinesFacts DEF AreTranscripts
<1>8. \A l \in L : l.n < w
  <2> SUFFICES ASSUME NEW l \in L PROVE l.n < w
    OBVIOUS
  <2>1. l.n \in Nat /\ l.n <= tr[f].at
    BY <1>7 DEF LineSet
  <2> HIDE DEF L
  <2> QED
    BY <1>0, <1>7, <2>1
<1>9. w \in Int
  BY <1>0
<1> HIDE DEF L, read, th, w, K, F, P, G
<1>10. Mirrors(K, F, P, G, L, read, th, w)
  BY <1>7, <1>8, <1>9, OldMirrors
<1>11. Mirrors(z.counts, z.fails, z.pending, z.late, LinesOf(tr[f].lines), LastRead(Usage!NoState),
               Through(Usage!NoState), q.since)
  BY <1>10 DEF L, read, th, w, K, F, P, G
<1> HIDE DEF y, z
<1>12. Sane(z, t) /\ \A c : Agree(z, y, c)
  BY ONLY <1>4, <1>6, SameSane
<1>13. Passing(n, x, tr, t)
  BY <1>1, <1>2, <1>3, <1>5, <1>a, <1>11, <1>12, PassOn DEF y, z
<1> QED
  BY <1>13 DEF n

\* A transcript that did not move keeps its state.
LEMMA LooksSame ==
  ASSUME NEW tr, NEW t \in Nat, t <= MaxTime, AreTranscripts(tr, t),
         NEW q, NEW x, Passing(q, x, tr, t), NEW f \in q.left, q.look = Usage!NoLook,
         NEW st, st = x.files[f], st # Usage!NoState, st.at = tr[f].at, ~(tr[f].at < q.since)
  PROVE  Passing([q EXCEPT !.left = @ \ {f}, !.files[f] = st], x, tr, t)
<1> DEFINE n == [q EXCEPT !.left = @ \ {f}, !.files[f] = st]
           y == Held(q, x)
           z == Held(n, x)
<1>0. /\ PassShape(q) /\ f \in Transcripts
      /\ q.since \in Int
      /\ Carries(q, x)
      /\ Faithful(y, q.since, tr, t)
  BY DEF Passing
<1> DEFINE m == [q EXCEPT !.left = @ \ {f}]
<1>a. n = [m EXCEPT !.files[f] = st]
  <2>1. PICK l, b, k, s, fs, c, a, w : q = PassOf(l, b, k, s, fs, c, a, w)
    BY <1>0, PassShaped
  <2> QED
    BY <2>1 DEF PassOf
<1> HIDE DEF n, m
<1>b. /\ PassShape(m) /\ m.left = q.left \ {f} /\ m.look = Usage!NoLook /\ m.since = q.since
      /\ m.files = q.files
      /\ m.calls = q.calls /\ m.fails = q.fails /\ m.pending = q.pending
  BY <1>0, PassDone DEF m
<1>1. /\ n.left = q.left \ {f} /\ n.look = Usage!NoLook /\ n.since = q.since
      /\ n.calls = q.calls /\ n.fails = q.fails /\ n.pending = q.pending
  BY <1>0, <1>a, <1>b, PassFiled
<1>d. PassShape(m) /\ f \in Transcripts
  BY <1>0, <1>b
<1>c. PassShape(n) /\ n.files[f] = st /\ \A h \in Transcripts : h # f => n.files[h] = m.files[h]
  <2>1. PassShape(n)
    BY ONLY <1>a, <1>d, PassFiled
  <2>2. n.files[f] = st
    BY ONLY <1>a, <1>d, PassFiled
  <2>3. \A h \in Transcripts : h # f => n.files[h] = m.files[h]
    BY ONLY <1>a, <1>d, PassFiled
  <2> QED
    BY <2>1, <2>2, <2>3
<1>2. PassShape(n) /\ n.files[f] = st /\ \A h \in Transcripts : h # f => n.files[h] = q.files[h]
  BY <1>b, <1>c
<1>3. \A h \in Transcripts : z.files[h] = y.files[h]
  BY <1>0, <1>1, <1>2 DEF Held
<1>4. /\ z.counts = y.counts /\ z.fails = y.fails /\ z.pending = y.pending
      /\ z.readAt = y.readAt /\ z.late = y.late
  BY <1>1 DEF Held
<1>5. y.files[f] = st
  BY <1>0 DEF Held
<1>6. /\ Sane(y, t)
      /\ f \in Whole(tr) =>
           /\ StateOf(st, tr[f])
           /\ Mirrors(y.counts, y.fails, y.pending, y.late, LinesOf(tr[f].lines), LastRead(st),
                      Through(st), q.since)
  BY <1>0, <1>5 DEF Faithful
<1>7. f \in Whole(tr) => st.at >= q.since
  BY <1>0, <1>6 DEF StateOf
<1>e. Carries(n, x)
  BY <1>0, <1>1 DEF Carries
<1> HIDE DEF y, z
<1>9. Sane(z, t) /\ \A c : Agree(z, y, c)
  BY ONLY <1>3, <1>4, <1>6, SameSane
<1>8. Passing(n, x, tr, t)
  BY <1>1, <1>2, <1>4, <1>6, <1>7, <1>e, <1>9, PassOn DEF y, z
<1> QED
  BY <1>8 DEF n

\* Any other is about to be read.
LEMMA LooksAgain ==
  ASSUME NEW tr, NEW t \in Nat, t <= MaxTime, AreTranscripts(tr, t),
         NEW q, NEW x, Passing(q, x, tr, t), NEW f \in q.left, q.look = Usage!NoLook,
         ~(tr[f].at < q.since), NEW st, st = x.files[f],
         NEW k, k = [file |-> <<f>>, at |-> tr[f].at, size |-> Usage!Size(tr[f]),
                     resume |-> Usage!Resume(st, tr[f], q.since),
                     through |-> IF st = Usage!NoState THEN 0 ELSE st.through]
  PROVE  Passing([q EXCEPT !.look = k], x, tr, t)
<1> DEFINE n == [q EXCEPT !.look = k]
           u == tr[f]
           w == q.since
<1>0. /\ PassShape(q) /\ f \in Transcripts
      /\ q.since \in Int /\ q.since <= t - Retain
      /\ \A h \in q.left : h \in Transcripts /\ tr[h].at # 0 /\ \A p \in Programs : h \in Lists[p]
      /\ \A h \in Transcripts : q.files[h] # Usage!NoState =>
           (h \in Whole(tr) => q.files[h].at >= q.since) /\ h \notin q.left
      /\ Countable(x) /\ Carries(q, x)
      /\ Faithful(Held(q, x), q.since, tr, t)
  BY DEF Passing
<1>1. /\ n.left = q.left /\ n.look = k /\ n.since = q.since /\ n.files = q.files
      /\ n.calls = q.calls /\ n.fails = q.fails /\ n.pending = q.pending
  BY <1>0, PassLooks
<1>2. PassShape(n)
  BY <1>0, PassLooks
<1> HIDE DEF n
<1>3. Held(n, x) = Held(q, x) /\ Carries(n, x)
  BY <1>0, <1>1 DEF Held, Carries
<1>4. /\ f \in Whole(tr) => StateOf(st, u)
      /\ st # Usage!NoState => st.offset \in Nat
  <2>1. Held(q, x).files[f] = st
    BY <1>0 DEF Held
  <2> QED
    BY <1>0, <2>1 DEF Faithful, Sane
<1>5. u.at \in Nat /\ u.at # 0 /\ w \in Int
  BY <1>0, LinesFacts DEF AreTranscripts
<1>6. ASSUME f \in Whole(tr) PROVE LookAt(k, f, u, st, w)
  <2> DEFINE r == Usage!Resume(st, u, w)
  <2>1. k.file = <<f>> /\ k.at = u.at /\ k.resume = r /\ k.through = Through(st)
    BY DEF Through
  <2>2. k.at \in Nat /\ k.at # 0 /\ k.at >= w /\ k.at <= u.at
    BY <1>5, <2>1
  <2>a. StateOf(st, u)
    BY <1>4, <1>6
  <2> HIDE DEF u, w
  <2>3. CASE st = Usage!NoState
    BY <1>5, <2>1, <2>2, <2>3 DEF LookAt, LastRead, Usage!Resume
  <2>4. CASE st # Usage!NoState
    <3>1. {st.at, st.offset, st.tail, st.through} \subseteq Nat /\ st.through <= st.tail
          /\ (st.tail = 0 <=> st.offset = 0)
      BY <2>4, <2>a DEF StateOf
    <3>2. LastRead(st) = st.tail /\ Through(st) = st.through
      BY <2>4 DEF LastRead, Through
    <3>3. CASE Usage!Size(u) < st.offset \/ (st.tail # 0 /\ Usage!TailPrint(u, st.offset) # st.tail)
      <4>1. r = [off |-> 0, since |-> IF st.through > 0 /\ w <= st.through THEN st.through + 1 ELSE w]
        BY <2>4, <3>3 DEF Usage!Resume
      <4> QED
        BY <1>5, <2>1, <2>2, <3>1, <3>2, <4>1 DEF LookAt
    <3>4. CASE ~(Usage!Size(u) < st.offset \/ (st.tail # 0 /\ Usage!TailPrint(u, st.offset) # st.tail))
      <4>1. r = [off |-> st.offset, since |-> w]
        BY <2>4, <3>4 DEF Usage!Resume
      <4>2. CASE st.tail = 0
        BY <1>5, <2>1, <2>2, <3>1, <3>2, <4>1, <4>2 DEF LookAt
      <4>3. CASE st.tail # 0
        <5>1. st.offset \in 1 .. Len(u.lines) /\ u.lines[st.offset].n = st.tail
          BY <3>4, <4>3 DEF Usage!TailPrint
        <5> QED
          BY <1>5, <2>1, <2>2, <3>2, <4>1, <5>1 DEF LookAt
      <4> QED
        BY <4>2, <4>3
    <3> QED
      BY <3>3, <3>4
  <2> QED
    BY <2>3, <2>4
<1>b. k.file = <<f>> /\ k.resume.off \in Nat
  <2> DEFINE r == Usage!Resume(st, u, w)
  <2>1. k.resume = r
    OBVIOUS
  <2> HIDE DEF u, w
  <2>2. r.off = 0 \/ (st # Usage!NoState /\ r.off = st.offset)
    BY DEF Usage!Resume
  <2> HIDE DEF r
  <2> QED
    BY <1>4, <2>1, <2>2
<1>7. \E h \in n.left : /\ n.look.file = <<h>> /\ n.look.resume.off \in Nat
                        /\ h \in Whole(tr) => LookAt(n.look, h, tr[h], x.files[h], n.since)
  BY <1>1, <1>6, <1>b
<1>8. Passing(n, x, tr, t)
  BY ONLY <1>0, <1>1, <1>2, <1>3, <1>7 DEF Passing
<1> QED
  BY <1>8 DEF n

-----------------------------------------------------------------------------
LEMMA MaxOf ==
  ASSUME NEW S, S \subseteq Nat, S # {}, NEW r \in Nat, \A c \in S : c <= r
  PROVE  Usage!Max(S) \in S /\ \A c \in S : c <= Usage!Max(S)
<1> DEFINE T == {m \in Nat : \A c \in S : c <= m}
<1>1. PICK m \in T : \A n \in T : ~(<<n, m>> \in OpToRel(<, Nat))
  BY WFMin, NatLessThanWellFounded, Zenon
<1>2. m \in S
  <2> SUFFICES ASSUME m \notin S PROVE FALSE
    OBVIOUS
  <2>1. m # 0
    <3> SUFFICES ASSUME m = 0 PROVE FALSE
      OBVIOUS
    <3>1. PICK c \in S : TRUE
      OBVIOUS
    <3>2. c \in Nat /\ c <= 0
      OBVIOUS
    <3> QED
      BY <3>2
  <2>2. m - 1 \in Nat /\ m - 1 < m
    BY <2>1
  <2>3. \A c \in S : c <= m - 1
    OBVIOUS
  <2>4. m - 1 \in T
    BY <2>2, <2>3
  <2> HIDE DEF T
  <2>5. m \in Nat
    BY DEF T
  <2>6. <<m - 1, m>> \in OpToRel(<, Nat)
    BY <2>2, <2>5 DEF OpToRel
  <2> QED
    BY <1>1, <2>4, <2>6, Zenon
<1>3. \E c \in S : \A d \in S : c >= d
  BY <1>2
<1>4. Usage!Max(S) \in S /\ \A d \in S : Usage!Max(S) >= d
  BY <1>3 DEF Usage!Max
<1> QED
  BY <1>4

LEMMA SuffixLines ==
  ASSUME NEW u, NEW t, IsTranscript(u, t), NEW off \in Nat, off <= Len(u.lines), NEW l
  PROVE  l \in Usage!ToSet(SubSeq(u.lines, off + 1, Len(u.lines))) <=>
           l \in LinesOf(u.lines) /\ (off = 0 \/ l.n > u.lines[off].n)
<1> DEFINE s == u.lines
           z == SubSeq(s, off + 1, Len(s))
<1>1. /\ s \in Seq(LineSet) /\ Len(s) \in Nat
      /\ \A i, j \in 1 .. Len(s) : i < j => s[i].n < s[j].n
  BY DEF IsTranscript
<1>2. \A i \in 1 .. Len(s) : s[i].n \in Nat /\ s[i] \in LineSet
  <2> SUFFICES ASSUME NEW i \in 1 .. Len(s) PROVE s[i].n \in Nat /\ s[i] \in LineSet
    OBVIOUS
  <2>1. s[i] \in LineSet
    BY <1>1
  <2> HIDE DEF s
  <2> QED
    BY <2>1 DEF LineSet
<1>3. Len(z) = Len(s) - off /\ DOMAIN z = 1 .. Len(s) - off
      /\ \A i \in 1 .. Len(s) - off : z[i] = s[off + i]
  BY <1>1
<1>4. LinesOf(s) = {s[i] : i \in 1 .. Len(s)}
  BY DEF LinesOf
<1>5. Usage!ToSet(z) = {z[i] : i \in 1 .. Len(s) - off}
  BY <1>3 DEF Usage!ToSet
<1> HIDE DEF s, z
<1>6. \A i \in 1 .. Len(s) - off : off + i \in 1 .. Len(s) /\ (off = 0 \/ off < off + i)
  BY <1>1 DEF s
<1>7. ASSUME NEW i \in 1 .. Len(s) - off, l = z[i]
      PROVE  l \in LinesOf(s) /\ (off = 0 \/ l.n > s[off].n)
  <2>1. l = s[off + i] /\ off + i \in 1 .. Len(s)
    BY <1>3, <1>6, <1>7
  <2>2. off # 0 => off \in 1 .. Len(s) /\ off < off + i
    BY <1>1 DEF s
  <2>3. off # 0 => s[off].n < s[off + i].n /\ s[off].n \in Nat /\ s[off + i].n \in Nat
    BY <1>1, <1>2, <2>1, <2>2
  <2> QED
    BY <1>4, <2>1, <2>3
<1>8. ASSUME NEW i \in 1 .. Len(s), l = s[i], off = 0 \/ l.n > s[off].n
      PROVE  i - off \in 1 .. Len(s) - off /\ l = z[i - off]
  <2>1. off < i
    <3>1. off # 0 => off \in 1 .. Len(s)
      BY <1>1 DEF s
    <3>2. off # 0 /\ i < off => s[i].n < s[off].n
      BY <1>1, <3>1
    <3> QED
      BY <1>1, <1>2, <1>8, <3>1, <3>2
  <2>2. i - off \in 1 .. Len(s) - off /\ off + (i - off) = i
    BY <1>1, <2>1
  <2> QED
    BY <1>3, <1>8, <2>2
<1>9. l \in LinesOf(s) => \E i \in 1 .. Len(s) : l = s[i]
  BY <1>4
<1>10. l \in Usage!ToSet(z) => \E i \in 1 .. Len(s) - off : l = z[i]
  BY <1>5
<1>11. l \in LinesOf(s) /\ (off = 0 \/ l.n > s[off].n) => l \in Usage!ToSet(z)
  BY <1>5, <1>8, <1>9
<1>12. l \in Usage!ToSet(z) => l \in LinesOf(s) /\ (off = 0 \/ l.n > s[off].n)
  BY <1>7, <1>10
<1> QED
  BY <1>11, <1>12 DEF s, z

LEMMA EndOf ==
  ASSUME NEW u, NEW t, IsTranscript(u, t), NEW r, r = Usage!TailPrint(u, Len(u.lines))
  PROVE  /\ r \in Nat /\ \A l \in LinesOf(u.lines) : l.n <= r
         /\ r = 0 <=> Len(u.lines) = 0
         /\ r # 0 => Len(u.lines) # 0 /\ r <= u.lines[Len(u.lines)].n
<1> DEFINE s == u.lines
<1>1. /\ s \in Seq(LineSet) /\ Len(s) \in Nat
      /\ \A i, j \in 1 .. Len(s) : i < j => s[i].n < s[j].n
  BY DEF IsTranscript
<1>2. \A i \in 1 .. Len(s) : s[i].n \in Nat \ {0}
  <2> SUFFICES ASSUME NEW i \in 1 .. Len(s) PROVE s[i].n \in Nat \ {0}
    OBVIOUS
  <2>1. s[i] \in LineSet
    BY <1>1
  <2> HIDE DEF s
  <2> QED
    BY <2>1 DEF LineSet
<1>3. r = IF Len(s) # 0 THEN s[Len(s)].n ELSE 0
  BY <1>1 DEF Usage!TailPrint
<1>4. LinesOf(s) = {s[i] : i \in 1 .. Len(s)}
  BY DEF LinesOf
<1> HIDE DEF s
<1>5. \A i \in 1 .. Len(s) : s[i].n <= s[Len(s)].n /\ Len(s) # 0
  <2> SUFFICES ASSUME NEW i \in 1 .. Len(s) PROVE s[i].n <= s[Len(s)].n /\ Len(s) # 0
    OBVIOUS
  <2>1. Len(s) \in 1 .. Len(s) /\ (i < Len(s) \/ i = Len(s))
    BY <1>1
  <2> QED
    BY <1>1, <1>2, <2>1
<1>6. \A l \in LinesOf(s) : l.n <= r
  BY <1>3, <1>4, <1>5
<1>7. Len(s) # 0 => Len(s) \in 1 .. Len(s)
  BY <1>1
<1> QED
  BY <1>2, <1>3, <1>6, <1>7 DEF s

\* A pass that has read f, whose state then is st.
PassRead(q, f, st, c2, a2, w2) ==
  [[q EXCEPT !.left = @ \ {f}] EXCEPT
     !.look = Usage!NoLook, !.calls = @ \cup c2, !.fails = @ \cup a2, !.pending = w2, !.files[f] = st]

LEMMA PassReads ==
  ASSUME NEW q, PassShape(q), NEW f \in Transcripts, NEW st, NEW c2, NEW a2, NEW w2,
         NEW n, n = PassRead(q, f, st, c2, a2, w2)
  PROVE  /\ PassShape(n) /\ n.left = q.left \ {f} /\ n.look = Usage!NoLook /\ n.since = q.since
         /\ n.files[f] = st /\ \A h \in Transcripts : h # f => n.files[h] = q.files[h]
         /\ n.calls = q.calls \cup c2 /\ n.fails = q.fails \cup a2 /\ n.pending = w2
<1>1. PICK l, b, k, s, fs, c, a, w : q = PassOf(l, b, k, s, fs, c, a, w)
                                    /\ fs = [h \in Transcripts |-> fs[h]]
  BY PassShaped
<1>2. /\ q.left = l /\ q.look = k /\ q.since = s /\ q.files = fs
      /\ q.calls = c /\ q.fails = a /\ q.pending = w
  BY <1>1, PassFields
<1> DEFINE l2 == l \ {f}
           c3 == c \cup c2
           a3 == a \cup a2
           fs2 == [fs EXCEPT ![f] = st]
           no == Usage!NoLook
           m == [q EXCEPT !.left = @ \ {f}]
           o == PassOf(l2, b, no, s, fs, c3, a3, w2)
<1>3. m = PassOf(l2, b, k, s, fs, c, a, w)
  BY <1>1 DEF PassOf
<1>4. n = [[m EXCEPT !.look = no, !.calls = @ \cup c2, !.fails = @ \cup a2, !.pending = w2]
             EXCEPT !.files[f] = st]
  <2> HIDE DEF no, l2
  <2>1. n = [m EXCEPT !.look = no, !.calls = @ \cup c2, !.fails = @ \cup a2, !.pending = w2,
                      !.files[f] = st]
    BY DEF no, PassRead
  <2> HIDE DEF m
  <2> QED
    BY <1>3, <2>1 DEF PassOf
<1> HIDE DEF l2, no, m
<1>5. [m EXCEPT !.look = no, !.calls = @ \cup c2, !.fails = @ \cup a2, !.pending = w2] = o
  <2>1. m.calls \cup c2 = c3 /\ m.fails \cup a2 = a3
    BY <1>3 DEF PassOf
  <2>2. [m EXCEPT !.look = no, !.calls = @ \cup c2, !.fails = @ \cup a2, !.pending = w2]
          = [m EXCEPT !.look = no, !.calls = c3, !.fails = a3, !.pending = w2]
    BY <2>1
  <2> HIDE DEF c3, a3
  <2>3. [m EXCEPT !.look = no, !.calls = c3, !.fails = a3, !.pending = w2] = o
    <3> DEFINE m1 == [m EXCEPT !.look = no]
               m2 == [m1 EXCEPT !.calls = c3]
               m3 == [m2 EXCEPT !.fails = a3]
               m4 == [m3 EXCEPT !.pending = w2]
    <3>1. [m EXCEPT !.look = no, !.calls = c3, !.fails = a3, !.pending = w2] = m4
      OBVIOUS
    <3> HIDE DEF m4
    <3>2. m1 = PassOf(l2, b, no, s, fs, c, a, w)
      BY ONLY <1>3 DEF PassOf
    <3> HIDE DEF m1
    <3>3. m2 = PassOf(l2, b, no, s, fs, c3, a, w)
      BY ONLY <3>2 DEF PassOf
    <3> HIDE DEF m2
    <3>4. m3 = PassOf(l2, b, no, s, fs, c3, a3, w)
      BY ONLY <3>3 DEF PassOf
    <3> HIDE DEF m3
    <3>5. m4 = PassOf(l2, b, no, s, fs, c3, a3, w2)
      BY ONLY <3>4 DEF PassOf, m4
    <3> QED
      BY <3>1, <3>5 DEF o
  <2> QED
    BY <2>2, <2>3
<1>6. n = [o EXCEPT !.files[f] = st]
  BY <1>4, <1>5
<1> HIDE DEF o, c3, a3, fs2
<1>7. fs = [h \in Transcripts |-> fs[h]]
  BY <1>1
<1>8. /\ PassShape(o) /\ o.left = l2 /\ o.look = no /\ o.since = s /\ o.files = fs
      /\ o.calls = c3 /\ o.fails = a3 /\ o.pending = w2
  <2>1. o = PassOf(l2, b, no, s, fs, c3, a3, w2)
    BY DEF o
  <2> QED
    BY ONLY <1>7, <2>1, PassFields
<1>9. f \in Transcripts
  OBVIOUS
<1>10. /\ PassShape(n) /\ n.left = o.left /\ n.look = o.look /\ n.since = o.since
       /\ n.files[f] = st /\ \A h \in Transcripts : h # f => n.files[h] = o.files[h]
       /\ n.calls = o.calls /\ n.fails = o.fails /\ n.pending = o.pending
  BY ONLY <1>6, <1>8, <1>9, PassFiled, SMTT(30)
<1> QED
  BY <1>2, <1>8, <1>10 DEF l2, c3, a3, no

\* What a look at a transcript reads of it: the lines from there on, the calls among
\* them, and the calls that they fail and that they answer.
ReadOn(k, u) == {l \in Usage!ToSet(SubSeq(u.lines, k.resume.off + 1, Len(u.lines))) : l.n >= k.resume.since}
CallsIn(R) == {l.n : l \in {l \in R : l.what = "call"}}
FailsIn(R) == {l.of : l \in {l \in R : l.what = "fail"}}
AnswersIn(R) == {l.of : l \in {l \in R : l.what # "call"}}

\* What is remembered of it then.
StateRead(k, u) ==
  LET end == IF k.resume.off > Len(u.lines) THEN k.resume.off ELSE Len(u.lines)
  IN  [seen |-> 1, size |-> k.size, at |-> k.at, offset |-> end, tail |-> Usage!TailPrint(u, end),
       through |-> Usage!Max(CallsIn(ReadOn(k, u)) \cup {k.through})]

\* The lines of a transcript from where it was looked at on: each call but those
\* the rollup has read.
LEMMA LinesRead ==
  ASSUME NEW u, NEW t, IsTranscript(u, t), NEW st, StateOf(st, u), NEW w \in Int,
         NEW f, NEW k, LookAt(k, f, u, st, w),
         NEW K, NEW F, NEW P, NEW G,
         Mirrors(K, F, P, G, LinesOf(u.lines), LastRead(st), Through(st), w),
         NEW R, R = ReadOn(k, u)
  PROVE  /\ R \subseteq LinesOf(u.lines)
         /\ \A l \in LinesOf(u.lines) : l.n > LastRead(st) /\ l.n >= w => l \in R
         /\ \A l \in R : ~IsResult(l) /\ l.n >= w => l.n > LastRead(st)
         /\ LastRead(st) \in Nat /\ Through(st) \in Nat /\ k.resume.off \in Nat
         /\ k.resume.off <= Len(u.lines)
<1> DEFINE off == k.resume.off
           L == LinesOf(u.lines)
           r == LastRead(st)
           th == Through(st)
           s == k.resume.since
<1>1. r \in Nat /\ th \in Nat /\ th <= r
  BY DEF StateOf, LastRead, Through
<1>2. Len(u.lines) \in Nat /\ (\A l \in L : l \in LineSet) /\ \A i \in 1 .. Len(u.lines) : u.lines[i] \in L
  BY LinesFacts
<1>3. \A l \in L : l.n \in Nat \ {0}
  BY <1>2 DEF LineSet
<1>4. /\ s \in Int /\ s >= w
      /\ \/ off = 0 /\ r = 0 /\ s = w
         \/ off \in 1 .. Len(u.lines) /\ u.lines[off].n = r /\ s = w
         \/ off = 0 /\ s \in {w, th + 1} /\ (s > th \/ th = 0)
  BY DEF LookAt
<1>5. off \in Nat /\ off <= Len(u.lines)
  BY <1>2, <1>4
<1>7. \A l : l \in R <=> l.n >= s /\ l \in Usage!ToSet(SubSeq(u.lines, off + 1, Len(u.lines)))
  BY DEF ReadOn
<1>m. \A l \in L : ~IsResult(l) /\ l.n >= w /\ l.n <= r => l.n <= th
  BY DEF Mirrors
<1> HIDE DEF off, s
<1>8. \A l : l \in R <=> l.n >= s /\ l \in L /\ (off = 0 \/ l.n > u.lines[off].n)
  BY <1>5, <1>7, SuffixLines
<1> HIDE DEF L, r, th
<1>9. \A l \in L : l.n > r /\ l.n >= w => l \in R
  <2> SUFFICES ASSUME NEW l \in L, l.n > r, l.n >= w PROVE l \in R
    OBVIOUS
  <2>1. l.n \in Nat
    BY <1>3
  <2>2. l.n >= s
    BY <1>1, <1>4, <2>1
  <2>3. off = 0 \/ l.n > u.lines[off].n
    BY <1>4
  <2> QED
    BY <1>8, <2>2, <2>3
<1>10. \A l \in R : ~IsResult(l) /\ l.n >= w => l.n > r
  <2> SUFFICES ASSUME NEW l \in R, ~IsResult(l), l.n >= w PROVE l.n > r
    OBVIOUS
  <2>1. l \in L /\ l.n >= s /\ (off = 0 \/ l.n > u.lines[off].n) /\ l.n \in Nat \ {0}
    BY <1>3, <1>8
  <2>2. l.n <= r => l.n <= th
    BY <1>m, <2>1
  <2> QED
    BY <1>1, <1>4, <2>1, <2>2
<1> QED
  BY <1>1, <1>5, <1>8, <1>9, <1>10 DEF L, r, th, off

LEMMA ReadState ==
  ASSUME NEW u, NEW t, IsTranscript(u, t), NEW st, StateOf(st, u), NEW w \in Int,
         NEW f, NEW k, LookAt(k, f, u, st, w),
         ReadOn(k, u) \subseteq LinesOf(u.lines), Through(st) \in Nat,
         k.resume.off \in Nat, k.resume.off <= Len(u.lines),
         NEW st2, st2 = StateRead(k, u)
  PROVE  /\ StateOf(st2, u) /\ st2 # Usage!NoState /\ st2.at >= w
         /\ LastRead(st2) \in Nat /\ Through(st2) \in Nat
         /\ \A l \in LinesOf(u.lines) : l.n <= LastRead(st2)
         /\ Through(st) <= Through(st2) /\ \A c \in CallsIn(ReadOn(k, u)) : c <= Through(st2)
<1> DEFINE L == LinesOf(u.lines)
           calls == CallsIn(ReadOn(k, u))
           th == Through(st)
           last == Usage!TailPrint(u, Len(u.lines))
           th2 == Usage!Max(calls \cup {k.through})
<1>1. /\ \A l \in L : l \in LineSet
      /\ Len(u.lines) \in Nat
      /\ \A i \in 1 .. Len(u.lines) : u.lines[i] \in L
  BY LinesFacts
<1>2. st2 = [seen |-> 1, size |-> k.size, at |-> k.at, offset |-> Len(u.lines), tail |-> last, through |-> th2]
  BY <1>1 DEF StateRead
<1>3. /\ last \in Nat /\ \A l \in L : l.n <= last
      /\ last = 0 <=> Len(u.lines) = 0
      /\ last # 0 => Len(u.lines) # 0 /\ last <= u.lines[Len(u.lines)].n
  BY EndOf
<1>4. /\ k.through = th
      /\ k.at \in Nat /\ k.at # 0 /\ k.at >= w /\ k.at <= u.at
  BY DEF LookAt
<1>5. Len(u.lines) # 0 => u.lines[Len(u.lines)].n <= last /\ u.lines[Len(u.lines)].n \in Nat
  <2> SUFFICES ASSUME Len(u.lines) # 0
               PROVE  u.lines[Len(u.lines)].n <= last /\ u.lines[Len(u.lines)].n \in Nat
    OBVIOUS
  <2>1. u.lines[Len(u.lines)] \in L
    <3>1. Len(u.lines) \in 1 .. Len(u.lines)
      BY <1>1
    <3> QED
      BY <1>1, <3>1
  <2>2. u.lines[Len(u.lines)] \in LineSet /\ u.lines[Len(u.lines)].n <= last
    BY <1>1, <1>3, <2>1
  <2> HIDE DEF L, last
  <2> QED
    BY <2>2 DEF LineSet
<1>6. th \in Nat /\ th <= last
  <2>1. CASE st = Usage!NoState
    BY <1>3, <2>1 DEF Through
  <2>2. CASE st # Usage!NoState
    <3>1. {st.tail, st.through} \subseteq Nat /\ st.through <= st.tail
          /\ (st.tail # 0 => Len(u.lines) # 0 /\ st.tail <= u.lines[Len(u.lines)].n)
      BY <2>2 DEF StateOf
    <3>2. th = st.through
      BY <2>2 DEF Through
    <3> HIDE DEF th, last, L
    <3> QED
      BY <1>3, <1>5, <3>1, <3>2
  <2> QED
    BY <2>1, <2>2
<1>7. \A c \in calls : c \in Nat /\ c <= last
  <2> SUFFICES ASSUME NEW l \in ReadOn(k, u) PROVE l.n \in Nat /\ l.n <= last
    BY DEF CallsIn
  <2>1. l \in L
    OBVIOUS
  <2>2. l \in LineSet /\ l.n <= last
    BY <1>1, <1>3, <2>1
  <2> QED
    BY <2>2 DEF LineSet
<1> HIDE DEF L, calls, th, last, th2
<1>8. th2 \in calls \cup {th} /\ \A c \in calls \cup {th} : c <= th2
  <2> DEFINE S == calls \cup {th}
  <2>1. S \subseteq Nat /\ S # {} /\ \A c \in S : c <= last
    BY <1>6, <1>7
  <2> HIDE DEF S
  <2>2. Usage!Max(S) \in S /\ \A c \in S : c <= Usage!Max(S)
    BY <1>3, <2>1, MaxOf
  <2>3. th2 = Usage!Max(S)
    BY <1>4 DEF th2, S
  <2> QED
    BY <2>2, <2>3 DEF S
<1>9. th2 \in Nat /\ th2 <= last /\ th <= th2 /\ \A c \in calls : c <= th2
  BY <1>6, <1>7, <1>8
<1>10. /\ st2.at = k.at /\ st2.offset = Len(u.lines) /\ st2.tail = last /\ st2.through = th2
       /\ st2 # Usage!NoState
  BY <1>2 DEF Usage!NoState
<1>11. LastRead(st2) = last /\ Through(st2) = th2
  BY <1>10 DEF LastRead, Through
<1>12. st2.tail = Usage!TailPrint(u, st2.offset)
  BY <1>10 DEF last
<1>13. StateOf(st2, u)
  BY ONLY <1>1, <1>3, <1>4, <1>9, <1>10, <1>12 DEF StateOf
<1> QED
  BY <1>3, <1>4, <1>9, <1>10, <1>11, <1>13 DEF L, calls, th

\* The counters after it.
LEMMA ReadCounts ==
  ASSUME NEW u, NEW t \in Nat, IsTranscript(u, t),
         \A c \in Subjects(LinesOf(u.lines)) : c \in Usage!Times,
         NEW R \in SUBSET LinesOf(u.lines),
         NEW r \in Nat, NEW th \in Nat, NEW w \in Int,
         NEW C, NEW A, \A c \in Usage!Times : C[c] \in Nat /\ A[c] \in Nat,
         NEW calls, NEW fails, NEW waits, NEW late,
         Mirrors(Usage!Bump(C, calls), Usage!Bump(A, fails), waits, late, LinesOf(u.lines), r, th, w),
         \A l \in LinesOf(u.lines) : l.n > r /\ l.n >= w => l \in R,
         \A l \in R : ~IsResult(l) /\ l.n >= w => l.n > r,
         NEW last \in Nat, \A l \in LinesOf(u.lines) : l.n <= last,
         NEW th2 \in Nat, th <= th2, \A c \in CallsIn(R) : c <= th2
  PROVE  Mirrors(Usage!Bump(C, calls \cup CallsIn(R)),
                 Usage!Bump(A, fails \cup (FailsIn(R) \cap (waits \cup CallsIn(R)))),
                 (waits \cup CallsIn(R)) \ AnswersIn(R), late \ CallsIn(R),
                 LinesOf(u.lines), last, th2, w)
<1> DEFINE L == LinesOf(u.lines)
           new == CallsIn(R)
           failed == FailsIn(R) \cap (waits \cup new)
           K == Usage!Bump(C, calls)
           F == Usage!Bump(A, fails)
           K2 == Usage!Bump(C, calls \cup new)
           F2 == Usage!Bump(A, fails \cup failed)
           P2 == (waits \cup new) \ AnswersIn(R)
           G2 == late \ new
<1>1. /\ \A l \in L : l \in LineSet
      /\ \A l \in L : IF IsResult(l) THEN l.of < l.n ELSE l.of = l.n
      /\ \A l, m \in L : l.of = m.of /\ IsResult(l) /\ IsResult(m) => l = m
  BY LinesFacts
<1>2. new = {l.n : l \in {m \in R : ~IsResult(m)}}
  BY DEF CallsIn, IsResult
<1>3. failed = {l.of : l \in {m \in R : m.what = "fail"}} \cap (waits \cup new)
  BY DEF FailsIn
<1>4. P2 = (waits \cup new) \ {l.of : l \in {m \in R : IsResult(m)}}
  BY DEF AnswersIn, IsResult
<1>5. \A c \in Subjects(L) : IF c \in new THEN K[c] = 0 => K2[c] = 1 ELSE K2[c] = K[c]
  BY DEF Usage!Bump
<1>6. \A c \in Subjects(L) : IF c \in failed THEN F[c] = 0 => F2[c] = 1 ELSE F2[c] = F[c]
  <2> HIDE DEF failed
  <2> QED
    BY DEF Usage!Bump
<1>a. G2 = late \ new
  OBVIOUS
<1> HIDE DEF L, new, failed, K, F, K2, F2, P2, G2
<1>7. Mirrors(K, F, waits, late, L, r, th, w) /\ R \in SUBSET L
  BY DEF L, K, F
<1>8. /\ \A l \in L : l.n > r /\ l.n >= w => l \in R
      /\ \A l \in R : ~IsResult(l) /\ l.n >= w => l.n > r
      /\ \A l \in L : l.n <= last
      /\ \A c \in new : c <= th2
      /\ r \in Nat /\ th \in Nat /\ w \in Int /\ last \in Nat /\ th2 \in Nat /\ th <= th2
  BY DEF L, new
<1>9. Mirrors(K2, F2, P2, G2, L, last, th2, w)
  <2>1. LinesWell(L)
    BY <1>1 DEF LinesWell
  <2>2. Reading(L, R, r, th, w, new, failed, K, F, waits, late, K2, F2, P2, G2, last, th2)
    BY ONLY <2>1, <1>2, <1>3, <1>4, <1>5, <1>6, <1>7, <1>8, <1>a DEF Reading
  <2> QED
    BY ONLY <1>7, <2>2, ReadMirrors
<1> QED
  BY <1>9 DEF L, new, failed, K2, F2, P2, G2

\* Another transcript is not concerned.
LEMMA ReadApart ==
  ASSUME NEW tr, NEW t \in Nat, t <= MaxTime, AreTranscripts(tr, t), NEW f \in Transcripts,
         NEW R \in SUBSET LinesOf(tr[f].lines), NEW h \in Transcripts, h # f,
         NEW c \in Subjects(LinesOf(tr[h].lines))
  PROVE  c \in Usage!Times /\ c \notin CallsIn(R) /\ c \notin FailsIn(R) /\ c \notin AnswersIn(R)
<1>1. c \in Usage!Times /\ c \notin Subjects(LinesOf(tr[f].lines))
  BY SubjectTimes DEF AreTranscripts
<1>2. \A l \in R : l.of # c
  BY <1>1 DEF Subjects
<1>3. \A l \in R : l.what = "call" => l.n = l.of
  <2>1. \A l \in LinesOf(tr[f].lines) : IF IsResult(l) THEN l.of < l.n ELSE l.of = l.n
    BY LinesFacts DEF AreTranscripts
  <2> QED
    BY <2>1 DEF IsResult
<1> QED
  BY <1>1, <1>2, <1>3 DEF CallsIn, FailsIn, AnswersIn

\* Whatever is read is of the transcript, wherever it was to be read from.
LEMMA ReadWithin ==
  ASSUME NEW u, NEW t, IsTranscript(u, t), NEW k, k.resume.off \in Nat
  PROVE  ReadOn(k, u) \subseteq LinesOf(u.lines)
<1> DEFINE off == k.resume.off
           s == u.lines
           z == SubSeq(s, off + 1, Len(s))
<1>1. s \in Seq(LineSet) /\ Len(s) \in Nat
  BY DEF IsTranscript
<1>2. CASE off <= Len(s)
  <2>1. \A l : l \in Usage!ToSet(z) => l \in LinesOf(s)
    BY <1>2, SuffixLines
  <2> QED
    BY <2>1 DEF ReadOn
<1>3. CASE ~(off <= Len(s))
  <2>1. z = <<>> \/ Len(z) = 0
    BY <1>1, <1>3
  <2>2. DOMAIN z = {}
    BY <1>1, <1>3
  <2>3. Usage!ToSet(z) = {}
    BY <2>2 DEF Usage!ToSet
  <2> QED
    BY <2>3 DEF ReadOn
<1> QED
  BY <1>2, <1>3

\* What was looked at, read to its end.
LEMMA ReadsPass ==
  ASSUME NEW tr, NEW t \in Nat, t <= MaxTime, AreTranscripts(tr, t),
         NEW q, NEW x, Passing(q, x, tr, t),
         NEW k, k = q.look, NEW f \in q.left, k.resume.off \in Nat,
         f \in Whole(tr) => LookAt(k, f, tr[f], x.files[f], q.since),
         NEW R, R = ReadOn(k, tr[f]), NEW st2, st2 = StateRead(k, tr[f]),
         NEW n, n = PassRead(q, f, st2, CallsIn(R), FailsIn(R) \cap (q.pending \cup CallsIn(R)),
                             (q.pending \cup CallsIn(R)) \ AnswersIn(R))
  PROVE  Passing(n, x, tr, t)
<1> DEFINE y == Held(q, x)
           z == Held(n, x)
           u == tr[f]
           st == x.files[f]
           L == LinesOf(u.lines)
           w == q.since
           C == x.counts
           A == x.fails
           c == q.calls
           a == q.fails
           p == q.pending
           g == y.late
           read == LastRead(st)
           th == Through(st)
           read2 == LastRead(st2)
           th2 == Through(st2)
           new == CallsIn(R)
           failed == FailsIn(R) \cap (p \cup new)
           p2 == (p \cup new) \ AnswersIn(R)
<1>0. /\ PassShape(q) /\ w \in Int
      /\ f \in Transcripts /\ \A h \in Programs : f \in Lists[h]
      /\ Countable(x) /\ Carries(q, x)
      /\ Faithful(y, w, tr, t)
  BY DEF Passing
<1>1. f \in Whole(tr) => LookAt(k, f, u, st, w)
  OBVIOUS
<1>2. /\ Sane(y, t)
      /\ f \in Whole(tr) => /\ StateOf(y.files[f], u)
                            /\ Mirrors(y.counts, y.fails, y.pending, y.late, L,
                                       LastRead(y.files[f]), Through(y.files[f]), w)
  BY <1>0 DEF Faithful
<1>3. y.files[f] = st /\ y.pending = p /\ y.counts = Usage!Bump(C, c) /\ y.fails = Usage!Bump(A, a)
  BY <1>0 DEF Held
<1>4. /\ PassShape(n) /\ n.left = q.left \ {f} /\ n.look = Usage!NoLook /\ n.since = q.since
      /\ n.files[f] = st2 /\ \A h \in Transcripts : h # f => n.files[h] = q.files[h]
      /\ n.calls = c \cup new /\ n.fails = a \cup failed /\ n.pending = p2
  <2> HIDE DEF new, failed, p2
  <2>1. n = PassRead(q, f, st2, new, failed, p2)
    BY DEF new, failed, p2
  <2>2. PassShape(q) /\ f \in Transcripts
    BY <1>0
  <2> QED
    BY ONLY <2>1, <2>2, PassReads
<1>5. /\ IsTranscript(u, t)
      /\ f \in Whole(tr) => /\ StateOf(st, u)
                            /\ Mirrors(Usage!Bump(C, c), Usage!Bump(A, a), p, g, L, read, th, w)
  BY <1>0, <1>2, <1>3 DEF AreTranscripts
<1>10. R \in SUBSET L
  BY <1>5, ReadWithin
<1>6. ASSUME f \in Whole(tr)
      PROVE  /\ \A l \in L : l.n > read /\ l.n >= w => l \in R
             /\ \A l \in R : ~IsResult(l) /\ l.n >= w => l.n > read
             /\ read \in Nat /\ th \in Nat /\ k.resume.off \in Nat
             /\ k.resume.off <= Len(u.lines)
  <2> DEFINE K == Usage!Bump(C, c)
             F == Usage!Bump(A, a)
  <2>1. R = ReadOn(k, u) /\ w \in Int /\ LookAt(k, f, u, st, w) /\ StateOf(st, u)
    BY <1>0, <1>1, <1>5, <1>6
  <2>a. Mirrors(K, F, p, g, L, read, th, w)
    BY <1>5, <1>6
  <2> HIDE DEF K, F, u, st, L, read, th, w, p, g
  <2>2. Mirrors(K, F, p, g, LinesOf(u.lines), LastRead(st), Through(st), w)
    BY <2>a DEF L, read, th
  <2> QED
    BY ONLY <1>5, <2>1, <2>2, LinesRead DEF L, read, th
<1>7. ASSUME f \in Whole(tr)
      PROVE  /\ StateOf(st2, u) /\ st2 # Usage!NoState /\ st2.at >= w
             /\ read2 \in Nat /\ th2 \in Nat
             /\ \A l \in L : l.n <= read2
             /\ th <= th2 /\ \A i \in new : i <= th2
  <2>1. st2 = StateRead(k, u) /\ w \in Int /\ R = ReadOn(k, u) /\ LookAt(k, f, u, st, w)
        /\ StateOf(st, u) /\ R \subseteq L
    BY <1>0, <1>1, <1>5, <1>7, <1>10
  <2>2. th \in Nat /\ k.resume.off \in Nat /\ k.resume.off <= Len(u.lines)
    BY <1>6, <1>7
  <2> HIDE DEF u, st, L, read, th, w, read2, th2, new
  <2> QED
    BY ONLY <1>5, <2>1, <2>2, ReadState DEF L, th, read2, th2, new
<1>8. \A i \in Subjects(L) : i \in Usage!Times /\ i <= t
  BY <1>0, SubjectTimes
<1>9. \A l \in L : l.n \in Usage!Times /\ l.n <= t
  BY <1>0, SubjectTimes
<1>11. ASSUME f \in Whole(tr)
       PROVE  Mirrors(Usage!Bump(C, c \cup new), Usage!Bump(A, a \cup failed), p2, g \ new, L, read2, th2, w)
  <2>1. /\ \A i \in Usage!Times : C[i] \in Nat /\ A[i] \in Nat
        /\ \A i \in Subjects(LinesOf(u.lines)) : i \in Usage!Times
        /\ t \in Nat /\ w \in Int
    BY <1>0, <1>8 DEF Countable
  <2>2. \A i \in CallsIn(R) : i <= th2
    BY <1>7, <1>11
  <2>3. /\ \A l \in L : l.n > read /\ l.n >= w => l \in R
        /\ \A l \in R : ~IsResult(l) /\ l.n >= w => l.n > read
        /\ read \in Nat /\ th \in Nat
    BY <1>6, <1>11
  <2>4. read2 \in Nat /\ th2 \in Nat /\ th <= th2 /\ \A l \in L : l.n <= read2
    BY <1>7, <1>11
  <2>5. Mirrors(Usage!Bump(C, c), Usage!Bump(A, a), p, g, L, read, th, w)
    BY <1>5, <1>11
  <2> HIDE DEF u, st, read, th, w, read2, th2, p, g, c, a, C, A
  <2> QED
    BY ONLY <1>5, <1>10, <2>1, <2>2, <2>3, <2>4, <2>5, ReadCounts DEF L, new, failed, p2
<1>12. /\ z.counts = Usage!Bump(C, c \cup new) /\ z.fails = Usage!Bump(A, a \cup failed)
       /\ z.pending = p2 /\ z.late = g \ new
       /\ \A i \in Usage!Times \ (c \cup new) : z.readAt[i] = y.readAt[i]
       /\ \A i \in Usage!Times : z.readAt[i] = IF i \in c \cup new THEN w + Retain ELSE x.readAt[i]
  <2> HIDE DEF new, failed, p2, c, a
  <2>1. n.calls = c \cup new /\ n.fails = a \cup failed /\ n.pending = p2 /\ n.since = w
    BY <1>4
  <2>2. q.calls = c /\ q.fails = a
    BY DEF c, a
  <2> QED
    BY <2>1, <2>2 DEF Held
<1>13. \A h \in Transcripts : h # f => \A i \in Subjects(LinesOf(tr[h].lines)) : Agree(z, y, i)
  <2> SUFFICES ASSUME NEW h \in Transcripts, h # f
               PROVE  \A i \in Subjects(LinesOf(tr[h].lines)) : Agree(z, y, i)
    OBVIOUS
  <2>1. \A i \in Subjects(LinesOf(tr[h].lines)) :
          /\ Usage!Bump(C, c \cup new)[i] = Usage!Bump(C, c)[i]
          /\ Usage!Bump(A, a \cup failed)[i] = Usage!Bump(A, a)[i]
          /\ i \in p2 <=> i \in p
          /\ i \in g \ new <=> i \in g
    <3> SUFFICES ASSUME NEW i \in Subjects(LinesOf(tr[h].lines))
                 PROVE  i \in Usage!Times /\ i \notin new /\ i \notin failed /\ i \notin AnswersIn(R)
      BY DEF Usage!Bump
    <3>1. R \in SUBSET LinesOf(tr[f].lines) /\ f \in Transcripts
      BY <1>0, <1>10
    <3> QED
      BY <3>1, ReadApart
  <2>2. y.late = g
    OBVIOUS
  <2> HIDE DEF y, z, g
  <2> QED
    BY <1>3, <1>12, <2>1, <2>2 DEF Agree
<1>a. \A l \in R : l.n \in Usage!Times \cap (1 .. t) /\ l.of \in Usage!Times \cap (1 .. t)
  <2> SUFFICES ASSUME NEW l \in R
               PROVE  l.n \in Usage!Times \cap (1 .. t) /\ l.of \in Usage!Times \cap (1 .. t)
    OBVIOUS
  <2>1. l.n <= t /\ l.n \in Usage!Times
    BY <1>9, <1>10
  <2>2. l.of <= t /\ l.of \in Usage!Times
    BY <1>8, <1>10 DEF Subjects
  <2> QED
    BY <2>1, <2>2 DEF Usage!Times
<1>b. new \subseteq Usage!Times \cap (1 .. t) /\ FailsIn(R) \subseteq Usage!Times \cap (1 .. t)
  BY <1>a DEF CallsIn, FailsIn
<1>c. Sane(z, t)
  <2>1. ASSUME NEW i \in Usage!Times
        PROVE  /\ z.counts[i] \in Nat /\ z.fails[i] \in Nat /\ z.readAt[i] \in Int
               /\ i > t => z.counts[i] = 0 /\ z.fails[i] = 0
    <3>1. i > t => i \notin new /\ i \notin failed
      BY <1>b
    <3>2. /\ y.counts[i] \in Nat /\ y.fails[i] \in Nat
          /\ i > t => y.counts[i] = 0 /\ y.fails[i] = 0
      BY <1>2 DEF Sane
    <3>3. /\ Usage!Bump(C, c \cup new)[i] \in Nat /\ Usage!Bump(A, a \cup failed)[i] \in Nat
          /\ i \notin new => Usage!Bump(C, c \cup new)[i] = Usage!Bump(C, c)[i]
          /\ i \notin failed => Usage!Bump(A, a \cup failed)[i] = Usage!Bump(A, a)[i]
      <4>1. C[i] \in Nat /\ A[i] \in Nat
        BY <1>0 DEF Countable
      <4> HIDE DEF new, failed, C, A, c, a
      <4> QED
        BY <4>1 DEF Usage!Bump
    <3>4. z.readAt[i] \in Int
      <4>1. x.readAt[i] \in Int /\ w + Retain \in Int
        BY <1>0, UsageConstants DEF Countable, Usage!UsageAssumptions
      <4>2. z.readAt[i] = IF i \in c \cup new THEN w + Retain ELSE x.readAt[i]
        BY <1>12
      <4> HIDE DEF z, w, c, new
      <4> QED
        BY <4>1, <4>2
    <3> HIDE DEF y, z, new, failed
    <3> QED
      BY <1>3, <1>12, <3>1, <3>2, <3>3, <3>4
  <2>2. y.pending \cup y.late \subseteq Usage!Times \cap (1 .. t)
        /\ \A i \in y.late : y.readAt[i] + PendingTTL < t
    BY <1>2 DEF Sane
  <2>3. z.pending \cup z.late \subseteq Usage!Times \cap (1 .. t)
    <3>1. p2 \subseteq p \cup new /\ g \ new \subseteq g /\ y.late = g
      OBVIOUS
    <3> HIDE DEF y, z, g, p, p2, new
    <3> QED
      BY <1>3, <1>12, <1>b, <2>2, <3>1
  <2>4. \A i \in z.late : z.readAt[i] + PendingTTL < t
    <3>1. ASSUME NEW i \in z.late PROVE i \in y.late /\ z.readAt[i] = y.readAt[i]
      <4>1. z.late = g \ new /\ \A j \in Usage!Times \ (c \cup new) : z.readAt[j] = y.readAt[j]
        BY <1>12
      <4>2. y.late = g /\ g \cap c = {}
        BY DEF Held
      <4> HIDE DEF y, z, g, c, new
      <4>3. i \in Usage!Times
        BY <2>2, <3>1, <4>1, <4>2
      <4> QED
        BY <3>1, <4>1, <4>2, <4>3
    <3> HIDE DEF y, z
    <3> QED
      BY <2>2, <3>1
  <2>5. \A h \in Transcripts : z.files[h] # Usage!NoState =>
          z.files[h].offset \in Nat /\ \A i \in Programs : h \in Lists[i]
    <3>1. z.files = [h \in Transcripts |-> IF h \in n.left THEN x.files[h] ELSE n.files[h]]
          /\ y.files = [h \in Transcripts |-> IF h \in q.left THEN x.files[h] ELSE q.files[h]]
      BY DEF Held
    <3>2. z.files[f] = st2 /\ \A h \in Transcripts : h # f => z.files[h] = y.files[h]
      <4>1. /\ f \in Transcripts /\ n.left = q.left \ {f} /\ n.files[f] = st2
            /\ \A h \in Transcripts : h # f => n.files[h] = q.files[h]
        BY <1>0, <1>4
      <4> HIDE DEF y, z
      <4> QED
        BY ONLY <3>1, <4>1
    <3>3. st2.offset \in Nat
      <4>1. Len(u.lines) \in Nat
        BY <1>5, LinesFacts
      <4> HIDE DEF u
      <4>2. st2.offset = IF k.resume.off > Len(u.lines) THEN k.resume.off ELSE Len(u.lines)
        BY DEF StateRead, u
      <4> QED
        BY <4>1, <4>2
    <3>4. \A h \in Transcripts : y.files[h] # Usage!NoState =>
            y.files[h].offset \in Nat /\ \A i \in Programs : h \in Lists[i]
      BY <1>2 DEF Sane
    <3> HIDE DEF y, z
    <3> QED
      BY <1>0, <3>2, <3>3, <3>4
  <2> HIDE DEF z
  <2> QED
    BY ONLY <2>1, <2>3, <2>4, <2>5 DEF Sane
<1>d. Carries(n, x)
  <2>1. p \subseteq c \cup (x.pending \ Usage!Expired(x, w + Retain))
    BY <1>0 DEF Carries
  <2>2. n.pending = p2 /\ n.calls = c \cup new /\ n.since = w /\ p2 \subseteq p \cup new
    BY <1>4
  <2> HIDE DEF p, p2, c, new, w
  <2> QED
    BY <2>1, <2>2 DEF Carries
<1>15. f \in Whole(tr) => Mirrors(z.counts, z.fails, z.pending, z.late, LinesOf(tr[f].lines),
                                  LastRead(st2), Through(st2), q.since)
  <2> HIDE DEF z, g, new, failed, p2
  <2> QED
    BY <1>11, <1>12
<1> HIDE DEF y, z
<1>16. y = Held(q, x) /\ z = Held(n, x)
       /\ (f \in Whole(tr) => StateOf(st2, tr[f]) /\ (st2 # Usage!NoState => st2.at >= q.since))
  BY <1>7 DEF y, z
<1>17. /\ t \in Nat /\ t <= MaxTime /\ AreTranscripts(tr, t) /\ Passing(q, x, tr, t) /\ f \in q.left
  OBVIOUS
<1> QED
  BY ONLY <1>4, <1>13, <1>15, <1>16, <1>17, <1>c, <1>d, PassOn

\* A pass folded in.
LEMMA FoldsSound ==
  ASSUME NEW tr, NEW t \in Nat, t <= MaxTime, AreTranscripts(tr, t),
         NEW q, NEW x, Passing(q, x, tr, t), q.left = {},
         NEW readAt, readAt = [n \in Usage!Times |-> IF n \in q.calls THEN q.since + Retain
                                                     ELSE x.readAt[n]],
         NEW late, late = (x.late \cup Usage!Expired(x, q.since + Retain)) \ q.calls,
         NEW x2, x2 = Usage!Prune([up |-> TRUE, files |-> q.files,
                                   counts |-> Usage!Bump(x.counts, q.calls),
                                   fails |-> Usage!Bump(x.fails, q.fails),
                                   pending |-> q.pending, readAt |-> readAt, late |-> late], q.since)
  PROVE  Faithful(x2, t - Retain, tr, t)
<1> DEFINE y == Held(q, x)
           w == q.since
           C == Usage!Bump(x.counts, q.calls)
           A == Usage!Bump(x.fails, q.fails)
           P == q.pending
           w2 == t - Retain
<1>0. /\ PassShape(q) /\ w \in Int /\ w <= w2
      /\ \A h \in Transcripts : q.files[h] # Usage!NoState => (h \in Whole(tr) => q.files[h].at >= w)
      /\ Countable(x) /\ Carries(q, x)
      /\ Faithful(y, w, tr, t)
  BY DEF Passing
<1>1. /\ y.counts = C /\ y.fails = A /\ y.pending = P /\ y.readAt = readAt /\ y.late = late
      /\ \A h \in Transcripts : y.files[h] = q.files[h]
  BY DEF Held
<1>2. /\ x2.counts = [n \in Usage!Times |-> IF n < w THEN 0 ELSE C[n]]
      /\ x2.fails = [n \in Usage!Times |-> IF n < w THEN 0 ELSE A[n]]
      /\ x2.files = [h \in Transcripts |-> IF q.files[h] # Usage!NoState /\ q.files[h].at < w
                                           THEN Usage!NoState ELSE q.files[h]]
      /\ x2.pending = {n \in P : readAt[n] >= w}
      /\ x2.readAt = readAt /\ x2.late = late
  <2> HIDE DEF C, A, P, w
  <2>1. x2 = Usage!Prune([up |-> TRUE, files |-> q.files, counts |-> C, fails |-> A, pending |-> P,
                          readAt |-> readAt, late |-> late], w)
    BY DEF C, A, P, w
  <2> QED
    BY ONLY <2>1 DEF Usage!Prune
<1>3. Retain \in Nat /\ PendingTTL \in 0 .. Retain /\ w2 \in Int
  BY UsageConstants DEF Usage!UsageAssumptions
<1>4. Sane(y, t) /\ \A h \in Whole(tr) : StateOf(y.files[h], tr[h])
  BY <1>0 DEF Faithful
<1>5. /\ \A h \in Transcripts : x2.files[h] = y.files[h] \/ x2.files[h] = Usage!NoState
      /\ \A h \in Whole(tr) : x2.files[h] = y.files[h]
  <2>1. \A h \in Transcripts : x2.files[h] = y.files[h] \/ x2.files[h] = Usage!NoState
    BY <1>1, <1>2
  <2>2. ASSUME NEW h \in Whole(tr) PROVE x2.files[h] = y.files[h]
    <3>0. h \in Transcripts
      BY DEF Whole
    <3> SUFFICES ASSUME q.files[h] # Usage!NoState PROVE ~(q.files[h].at < w)
      BY <1>1, <1>2, <3>0
    <3>1. q.files[h].at \in Nat /\ q.files[h].at >= w
      BY <1>0, <1>1, <1>4, <3>0 DEF StateOf
    <3> HIDE DEF w
    <3> QED
      BY <1>0, <3>1
  <2> QED
    BY <2>1, <2>2
\* No call that waits is out of the window: it was read by this pass or within PendingTTL.
<1>6. x2.pending = y.pending
  <2> SUFFICES ASSUME NEW n \in P PROVE readAt[n] >= w
    BY <1>1, <1>2
  <2>1. n \in Usage!Times
    BY <1>1, <1>4 DEF Sane
  <2>2. readAt[n] = IF n \in q.calls THEN w + Retain ELSE x.readAt[n]
    BY <2>1
  <2>3. n \notin q.calls => ~(x.readAt[n] < (w + Retain) - PendingTTL)
    BY <1>0 DEF Carries, Usage!Expired
  <2>4. x.readAt[n] \in Int
    BY <1>0, <2>1 DEF Countable
  <2> HIDE DEF w, P
  <2> QED
    BY <1>0, <1>3, <2>2, <2>3, <2>4
<1> HIDE DEF y, w, C, A, P, w2
<1>a. w \in Int
  BY <1>0
<1>b. \A c \in Usage!Times : /\ x2.counts[c] = IF c < w THEN 0 ELSE y.counts[c]
                             /\ x2.fails[c] = IF c < w THEN 0 ELSE y.fails[c]
  BY <1>1, <1>2
<1>c. \A c \in Usage!Times : c \in Int
  BY DEF Usage!Times
<1>d. x2.readAt = y.readAt /\ x2.late = y.late
  BY <1>1, <1>2
<1>7. Sane(x2, t)
  <2>1. \A c \in Usage!Times : /\ x2.counts[c] \in Nat /\ x2.fails[c] \in Nat /\ x2.readAt[c] \in Int
                               /\ c > t => x2.counts[c] = 0 /\ x2.fails[c] = 0
    BY <1>4, <1>b, <1>d DEF Sane
  <2> QED
    BY <1>4, <1>5, <1>6, <1>d, <2>1 DEF Sane
<1>8. \A h \in Whole(tr) : \A c \in Subjects(LinesOf(tr[h].lines)) : c >= w2 => Agree(x2, y, c)
  <2> SUFFICES ASSUME NEW h \in Whole(tr), NEW c \in Subjects(LinesOf(tr[h].lines)), c >= w2
               PROVE  c \in Usage!Times /\ ~(c < w)
    BY <1>6, <1>b, <1>d DEF Agree
  <2>1. c \in Usage!Times
    BY SubjectTimes DEF Whole
  <2>2. c \in Nat
    BY <2>1 DEF Usage!Times
  <2> QED
    BY <1>0, <1>3, <2>1, <2>2
<1>9. Faithful(x2, w2, tr, t)
  <2>1. t \in Nat /\ AreTranscripts(tr, t)
    OBVIOUS
  <2> QED
    BY ONLY <1>0, <1>3, <1>5, <1>7, <1>8, <2>1, SameSound
<1> QED
  BY <1>9 DEF w2

\* A smaller window.
LEMMA NarrowSound ==
  ASSUME NEW tr, NEW t \in Nat, AreTranscripts(tr, t), NEW x, NEW w \in Int, NEW w2 \in Int, w <= w2,
         Faithful(x, w, tr, t)
  PROVE  Faithful(x, w2, tr, t)
<1>1. Sane(x, t)
  BY DEF Faithful
<1>2. \A c : Agree(x, x, c)
  BY DEF Agree
<1> QED
  BY <1>1, <1>2, SameSound

-----------------------------------------------------------------------------
\* The programs list the same accounts.
OneList == \A p, q \in Programs : Lists[p] = Lists[q]

\* Every rollup there is, in memory, on its way or on disk, says of each transcript what
\* it has read of it; so will the memory of a program once its pass is folded in.
UsageInv ==
  /\ now \in Nat /\ now <= MaxTime
  /\ AreTranscripts(transcript, now)
  /\ index = [p \in Programs |-> index[p]] /\ pass = [p \in Programs |-> pass[p]]
  /\ saving = [p \in Programs |-> saving[p]]
  /\ Faithful(rollup, now - Retain, transcript, now)
  /\ \A p \in Programs :
       /\ index[p].up => Faithful(index[p], now - Retain, transcript, now)
       /\ pass[p].busy => index[p].up /\ Passing(pass[p], index[p], transcript, now)
       /\ \A x \in saving[p] : Faithful(x, now - Retain, transcript, now)

\* Claude Code writes to a transcript.
LEMMA WritesKeep ==
  ASSUME UsageInv, now < MaxTime, now' = now + 1, NEW f \in Transcripts, NEW u2,
         Written(transcript[f], u2, now + 1), transcript' = [transcript EXCEPT ![f] = u2],
         UNCHANGED <<index, pass, saving, rollup>>,
         \/ \A p \in Programs : pass[p].busy => pass[p].look.file # <<f>>
         \/ \A i \in 1 .. Len(transcript[f].lines) :
              i \in 1 .. Len(u2.lines) /\ u2.lines[i] = transcript[f].lines[i]
         \/ u2.torn
  PROVE  UsageInv'
<1> DEFINE w == now - Retain
           w2 == (now + 1) - Retain
<1>0. Retain \in Nat /\ MaxTime \in Nat
  BY UsageConstants DEF Usage!UsageAssumptions
<1>1. now \in Nat /\ now + 1 \in Nat /\ now + 1 <= MaxTime /\ now + 1 \in Usage!Times
      /\ w \in Int /\ w2 \in Int /\ w <= w2 /\ AreTranscripts(transcript, now)
  BY <1>0 DEF UsageInv, Usage!Times
<1>2. AreTranscripts(transcript', now + 1)
  BY <1>1, TranscriptsWritten
<1>3. ASSUME NEW x, Faithful(x, w, transcript, now) PROVE Faithful(x, w2, transcript', now + 1)
  <2>1. Faithful(x, w, transcript', now + 1)
    BY <1>1, <1>3, SoundWritten
  <2> HIDE DEF w, w2
  <2> QED
    BY <1>1, <1>2, <2>1, NarrowSound
<1>4. ASSUME NEW p \in Programs, pass[p].busy
      PROVE  index[p].up /\ Passing(pass[p], index[p], transcript', now + 1)
  <2>1. index[p].up /\ Passing(pass[p], index[p], transcript, now)
    BY <1>4 DEF UsageInv
  <2> QED
    BY <1>1, <1>4, <2>1, PassWritten
<1>5. now' = now + 1 /\ (now - Retain)' = w2
  OBVIOUS
<1>6. index' = index /\ pass' = pass /\ saving' = saving /\ rollup' = rollup
  OBVIOUS
<1> QED
  BY <1>1, <1>2, <1>3, <1>4, <1>5, <1>6 DEF UsageInv

Halved(u, d, e) == [[u EXCEPT !.half = d] EXCEPT !.at = e]

LEMMA RecordWritten ==
  ASSUME NEW a, NEW b, NEW c, NEW g, NEW d, NEW e, NEW u,
         u = [lines |-> a, half |-> b, at |-> c, torn |-> g]
  PROVE  Halved(u, d, e) = [lines |-> a, half |-> d, at |-> e, torn |-> g]
<1> DEFINE m == [u EXCEPT !.half = d]
           m2 == [m EXCEPT !.at = e]
<1>1. m = [lines |-> a, half |-> d, at |-> c, torn |-> g]
  OBVIOUS
<1> HIDE DEF m
<1>2. m2 = [lines |-> a, half |-> d, at |-> e, torn |-> g]
  BY ONLY <1>1
<1> QED
  BY <1>2 DEF m, Halved

LEMMA StepAppends ==
  ASSUME UsageInv, NEW f \in Transcripts, Usage!Appends(f)
  PROVE  UsageInv'
<1> DEFINE u == transcript[f]
<1>1. /\ now < MaxTime /\ now' = now + 1 /\ UNCHANGED <<index, pass, saving, rollup>>
  BY DEF Usage!Appends
<1>2. /\ IsTranscript(u, now) /\ now \in Nat /\ transcript = [h \in Transcripts |-> transcript[h]]
  BY DEF UsageInv, AreTranscripts
<1>3. /\ u.lines \in Seq(LineSet) /\ u.half \in BOOLEAN /\ Len(u.lines) \in Nat
      /\ u.torn \in BOOLEAN
      /\ u = [lines |-> u.lines, half |-> u.half, at |-> u.at, torn |-> u.torn]
  BY <1>2 DEF IsTranscript
<1>4. ASSUME NEW l \in Usage!NewLine(f, now + 1),
             transcript' = [transcript EXCEPT ![f] = [lines |-> Append(@.lines, l), half |-> FALSE,
                                                      at |-> now + 1, torn |-> @.torn]]
      PROVE  UsageInv'
  <2> DEFINE u2 == [lines |-> Append(u.lines, l), half |-> FALSE, at |-> now + 1, torn |-> u.torn]
  <2>1. transcript' = [transcript EXCEPT ![f] = u2]
    BY <1>2, <1>4
  <2>2. Usage!ToSet(u.lines) = LinesOf(u.lines)
    BY <1>2, LinesFacts
  <2>3. \A m \in LinesOf(u.lines) : m \in LineSet /\ m.of \in Nat \ {0}
    BY <1>2, LinesFacts DEF LineSet
  <2>4. /\ l \in LineSet /\ l.n = now + 1
        /\ IF IsResult(l)
           THEN /\ \E m \in LinesOf(u.lines) : m.of = l.of
                /\ \A m \in LinesOf(u.lines) : m.of = l.of => ~IsResult(m)
           ELSE l.of = now + 1
    <3>1. CASE l = Usage!Call(now + 1)
      BY <1>2, <3>1 DEF Usage!Call, LineSet, IsResult
    <3>2. ASSUME NEW c \in Usage!Open(f), NEW failed \in BOOLEAN, l = Usage!Result(now + 1, c, failed)
          PROVE  /\ l \in LineSet /\ l.n = now + 1 /\ IsResult(l)
                 /\ \E m \in LinesOf(u.lines) : m.of = l.of
                 /\ \A m \in LinesOf(u.lines) : m.of = l.of => ~IsResult(m)
      <4>1. (\E m \in LinesOf(u.lines) : m.of = c) /\ \A m \in LinesOf(u.lines) : m.of = c => ~IsResult(m)
        BY <2>2, <3>2 DEF Usage!Open, IsResult
      <4>2. c \in Nat \ {0}
        BY <2>3, <4>1
      <4>3. l.n = now + 1 /\ l.of = c /\ IsResult(l) /\ l \in LineSet
        BY <1>2, <3>2, <4>2 DEF Usage!Result, LineSet, IsResult
      <4> QED
        BY <4>1, <4>3
    <3> QED
      BY <1>4, <3>1, <3>2 DEF Usage!NewLine
  <2>5. Written(u, u2, now + 1)
    <3>1. Append(u.lines, l) \in Seq(LineSet)
      BY <1>3, <2>4
    <3>2. u2 \in [lines : Seq(LineSet), half : BOOLEAN, at : Nat, torn : BOOLEAN] /\ u2.at = now + 1
          /\ u2.lines = Append(u.lines, l) /\ u2.torn = u.torn
      BY <1>2, <1>3, <3>1
    <3> HIDE DEF u, u2
    <3> QED
      BY <2>4, <3>2 DEF Written
  <2>6. \A i \in 1 .. Len(u.lines) : i \in 1 .. Len(u2.lines) /\ u2.lines[i] = u.lines[i]
    BY <1>3, <2>4
  <2> HIDE DEF u2
  <2> QED
    BY <1>1, <2>1, <2>5, <2>6, WritesKeep
<1>5. ASSUME transcript' = [transcript EXCEPT ![f].half = TRUE, ![f].at = now + 1]
      PROVE  UsageInv'
  <2> DEFINE u2 == [lines |-> u.lines, half |-> TRUE, at |-> now + 1, torn |-> u.torn]
  <2>1. transcript' = [transcript EXCEPT ![f] = u2]
    <3> DEFINE yes == TRUE
               k == now + 1
    <3>1. transcript' = [transcript EXCEPT ![f] = Halved(u, yes, k)]
      BY <1>2, <1>5 DEF Halved
    <3>2. u2 = [lines |-> u.lines, half |-> yes, at |-> k, torn |-> u.torn]
      OBVIOUS
    <3> HIDE DEF u, yes, k, u2
    <3>3. Halved(u, yes, k) = [lines |-> u.lines, half |-> yes, at |-> k, torn |-> u.torn]
      BY <1>3, RecordWritten
    <3> QED
      BY <3>1, <3>2, <3>3
  <2>2. Written(u, u2, now + 1)
    <3>1. u2 \in [lines : Seq(LineSet), half : BOOLEAN, at : Nat, torn : BOOLEAN] /\ u2.at = now + 1
          /\ u2.lines = u.lines /\ u2.torn = u.torn
      BY <1>2, <1>3
    <3> HIDE DEF u, u2
    <3> QED
      BY <3>1 DEF Written
  <2>3. \A i \in 1 .. Len(u.lines) : i \in 1 .. Len(u2.lines) /\ u2.lines[i] = u.lines[i]
    OBVIOUS
  <2> HIDE DEF u2
  <2> QED
    BY <1>1, <2>1, <2>2, <2>3, WritesKeep
<1> QED
  BY <1>4, <1>5 DEF Usage!Appends

LEMMA StepRewrites ==
  ASSUME UsageInv, NEW f \in Transcripts, Usage!Rewrites(f)
  PROVE  UsageInv'
<1> DEFINE u == transcript[f]
           b == u.torn \/ \E p \in Programs : pass[p].busy /\ pass[p].look.file = <<f>>
<1>1. now < MaxTime /\ now' = now + 1 /\ UNCHANGED <<index, pass, saving, rollup>>
  BY DEF Usage!Rewrites
<1>2. /\ IsTranscript(u, now) /\ now \in Nat /\ transcript = [h \in Transcripts |-> transcript[h]]
  BY DEF UsageInv, AreTranscripts
<1>3. u.lines \in Seq(LineSet) /\ u.half \in BOOLEAN /\ u.torn \in BOOLEAN /\ Len(u.lines) \in Nat
  BY <1>2 DEF IsTranscript
<1>4. PICK k \in 1 .. Len(u.lines) :
        transcript' = [transcript EXCEPT ![f] = [lines |-> SubSeq(@.lines, k, Len(@.lines)), half |-> @.half,
          at |-> now + 1,
          torn |-> @.torn \/ \E p \in Programs : pass[p].busy /\ pass[p].look.file = <<f>>]]
  BY DEF Usage!Rewrites
<1> DEFINE z == SubSeq(u.lines, k, Len(u.lines))
           u2 == [lines |-> z, half |-> u.half, at |-> now + 1, torn |-> b]
<1>5. z \in Seq(LineSet)
  BY <1>3
<1>6. transcript' = [transcript EXCEPT ![f] = u2]
  BY <1>2, <1>4
<1>7. b \in BOOLEAN /\ (u.torn => b)
  BY <1>3
<1>8. \/ \A p \in Programs : pass[p].busy => pass[p].look.file # <<f>>
      \/ b
  OBVIOUS
<1> HIDE DEF b
<1>9. u2.torn = b
  OBVIOUS
<1>10. Written(u, u2, now + 1)
  <2>1. u2 \in [lines : Seq(LineSet), half : BOOLEAN, at : Nat, torn : BOOLEAN] /\ u2.at = now + 1
        /\ u2.lines = z
    BY <1>2, <1>3, <1>5, <1>7
  <2> HIDE DEF u, u2
  <2> QED
    BY <1>7, <1>9, <2>1 DEF Written
<1> HIDE DEF u2
<1> QED
  BY <1>1, <1>6, <1>8, <1>9, <1>10, WritesKeep

-----------------------------------------------------------------------------
LEMMA StepUpdateStarts ==
  ASSUME UsageInv, OneList, NEW p \in Programs, Usage!UpdateStarts(p)
  PROVE  UsageInv'
<1> DEFINE x == index[p]
           q == pass'[p]
<1>1. /\ x.up
      /\ pass' = [pass EXCEPT ![p] = [busy |-> TRUE, left |-> {f \in Lists[p] : transcript[f].at > 0},
                                      look |-> Usage!NoLook, since |-> now - Retain,
                                      files |-> [f \in Transcripts |-> Usage!NoState],
                                      calls |-> {}, fails |-> {},
                                      pending |-> index[p].pending \ Usage!Expired(index[p], now)]]
      /\ UNCHANGED <<transcript, now, index, saving, rollup>>
  BY DEF Usage!UpdateStarts, Usage!Since
<1>2. /\ now \in Nat /\ now <= MaxTime /\ AreTranscripts(transcript, now)
      /\ Faithful(x, now - Retain, transcript, now)
      /\ pass = [h \in Programs |-> pass[h]]
  BY <1>1 DEF UsageInv
<1>3. /\ q = [busy |-> TRUE, left |-> {f \in Lists[p] : transcript[f].at > 0},
              look |-> Usage!NoLook, since |-> now - Retain,
              files |-> [f \in Transcripts |-> Usage!NoState],
              calls |-> {}, fails |-> {}, pending |-> x.pending \ Usage!Expired(x, now)]
      /\ pass' = [h \in Programs |-> pass'[h]]
      /\ \A h \in Programs : h # p => pass'[h] = pass[h]
  BY <1>1, <1>2
<1>4. \A h \in Programs : Lists[h] = Lists[p]
  BY DEF OneList
<1> HIDE DEF q, x
<1>5. Passing(q, x, transcript, now)
  BY ONLY <1>2, <1>3, <1>4, StartsPass
<1>6. transcript' = transcript /\ now' = now /\ index' = index /\ saving' = saving /\ rollup' = rollup
  BY <1>1
<1>7. \A h \in Programs : pass'[h].busy => index[h].up /\ Passing(pass'[h], index[h], transcript, now)
  BY <1>1, <1>3, <1>5 DEF UsageInv, x, q
<1> QED
  BY <1>3, <1>6, <1>7 DEF UsageInv

\* A step of the pass of one program, and one that moves rollups about.
LEMMA PassKeeps ==
  ASSUME UsageInv, NEW p \in Programs, NEW q, pass' = [pass EXCEPT ![p] = q],
         index[p].up, Passing(q, index[p], transcript, now),
         UNCHANGED <<transcript, now, index, saving, rollup>>
  PROVE  UsageInv'
<1>1. /\ pass = [h \in Programs |-> pass[h]]
      /\ \A h \in Programs : pass[h].busy => index[h].up /\ Passing(pass[h], index[h], transcript, now)
  BY DEF UsageInv
<1>2. /\ pass' = [h \in Programs |-> pass'[h]] /\ pass'[p] = q
      /\ \A h \in Programs : h # p => pass'[h] = pass[h]
  BY <1>1
<1>3. \A h \in Programs : pass'[h].busy => index[h].up /\ Passing(pass'[h], index[h], transcript, now)
  BY <1>1, <1>2
<1> QED
  BY <1>2, <1>3 DEF UsageInv

LEMMA StepLooks ==
  ASSUME UsageInv, NEW p \in Programs, NEW f \in Transcripts, Usage!Looks(p, f)
  PROVE  UsageInv'
<1> DEFINE q == pass[p]
           x == index[p]
           t == transcript[f]
           st == index[p].files[f]
           look2 == [file |-> <<f>>, at |-> t.at, size |-> Usage!Size(t),
                     resume |-> Usage!Resume(st, t, q.since),
                     through |-> IF st = Usage!NoState THEN 0 ELSE st.through]
           old == [q EXCEPT !.left = @ \ {f}]
           same == [q EXCEPT !.left = @ \ {f}, !.files[f] = st]
           again == [q EXCEPT !.look = look2]
<1>1. /\ q.busy /\ q.look = Usage!NoLook /\ f \in q.left
      /\ UNCHANGED <<transcript, now, index, saving, rollup>>
      /\ pass' = [pass EXCEPT ![p] =
           IF t.at < q.since THEN old
           ELSE IF st # Usage!NoState /\ st.size = Usage!Size(t) /\ st.at = t.at THEN same
           ELSE again]
  <2>1. /\ q.busy /\ q.look = Usage!NoLook /\ f \in q.left
        /\ UNCHANGED <<transcript, now, index, saving, rollup>>
        /\ pass' = [pass EXCEPT ![p] =
             IF t.at < q.since THEN old
             ELSE IF st # Usage!NoState /\ st.size = Usage!Size(t) /\ st.at = t.at
             THEN [old EXCEPT !.files[f] = st]
             ELSE [@ EXCEPT !.look = look2]]
    BY DEF Usage!Looks, Usage!Done
  <2>2. pass = [h \in Programs |-> pass[h]]
    BY DEF UsageInv
  <2>3. [old EXCEPT !.files[f] = st] = same
    OBVIOUS
  <2> HIDE DEF old, same, look2
  <2> QED
    BY <2>1, <2>2, <2>3
<1>2. /\ now \in Nat /\ now <= MaxTime /\ AreTranscripts(transcript, now)
      /\ x.up /\ Passing(q, x, transcript, now)
  BY <1>1 DEF UsageInv
<1>3. CASE t.at < q.since
  <2>1. Passing(old, x, transcript, now)
    BY <1>1, <1>2, <1>3, LooksOld
  <2>2. pass' = [pass EXCEPT ![p] = old]
    BY <1>1, <1>3
  <2> QED
    BY <1>1, <1>2, <2>1, <2>2, PassKeeps
<1>4. CASE ~(t.at < q.since) /\ st # Usage!NoState /\ st.size = Usage!Size(t) /\ st.at = t.at
  <2>1. Passing(same, x, transcript, now)
    BY <1>1, <1>2, <1>4, LooksSame, Zenon
  <2>2. pass' = [pass EXCEPT ![p] = same]
    BY <1>1, <1>4
  <2> HIDE DEF same
  <2> QED
    BY <1>1, <1>2, <2>1, <2>2, PassKeeps
<1>5. CASE ~(t.at < q.since) /\ ~(st # Usage!NoState /\ st.size = Usage!Size(t) /\ st.at = t.at)
  <2>1. Passing(again, x, transcript, now)
    BY <1>1, <1>2, <1>5, LooksAgain
  <2>2. pass' = [pass EXCEPT ![p] = again]
    BY <1>1, <1>5
  <2> HIDE DEF again
  <2> QED
    BY <1>1, <1>2, <2>1, <2>2, PassKeeps
<1> QED
  BY <1>3, <1>4, <1>5

LEMMA StepReads ==
  ASSUME UsageInv, NEW p \in Programs, Usage!Reads(p)
  PROVE  UsageInv'
<1> DEFINE q == pass[p]
           x == index[p]
           k == q.look
           f == k.file[1]
           R == ReadOn(k, transcript[f])
           st2 == StateRead(k, transcript[f])
           n == PassRead(q, f, st2, CallsIn(R), FailsIn(R) \cap (q.pending \cup CallsIn(R)),
                         (q.pending \cup CallsIn(R)) \ AnswersIn(R))
<1>1. /\ q.busy /\ k # Usage!NoLook
      /\ UNCHANGED <<transcript, now, index, saving, rollup>>
      /\ pass' = [pass EXCEPT ![p] = n]
  BY DEF Usage!Reads, Usage!Done, PassRead, StateRead, ReadOn, CallsIn, FailsIn, AnswersIn
<1>2. /\ now \in Nat /\ now <= MaxTime /\ AreTranscripts(transcript, now)
      /\ x.up /\ Passing(q, x, transcript, now)
  BY <1>1 DEF UsageInv
<1>3. \E h \in q.left : /\ k.file = <<h>> /\ k.resume.off \in Nat
                        /\ h \in Whole(transcript) => LookAt(k, h, transcript[h], x.files[h], q.since)
  BY <1>1, <1>2 DEF Passing
<1>4. /\ f \in q.left /\ k.resume.off \in Nat
      /\ f \in Whole(transcript) => LookAt(k, f, transcript[f], x.files[f], q.since)
  BY <1>3
<1>5. Passing(n, x, transcript, now)
  <2> HIDE DEF q, x, k, f
  <2>1. k = q.look
    BY DEF q, k
  <2> QED
    BY <1>2, <1>4, <2>1, ReadsPass
<1> HIDE DEF n
<1> QED
  BY <1>1, <1>2, <1>5, PassKeeps

LEMMA StepFolds ==
  ASSUME UsageInv, NEW p \in Programs, Usage!Folds(p)
  PROVE  UsageInv'
<1> DEFINE q == pass[p]
           x == index[p]
           readAt == [n \in Usage!Times |-> IF n \in q.calls THEN q.since + Retain ELSE x.readAt[n]]
           late == (x.late \cup Usage!Expired(x, q.since + Retain)) \ q.calls
           x2 == Usage!Prune([up |-> TRUE, files |-> q.files,
                              counts |-> Usage!Bump(x.counts, q.calls),
                              fails |-> Usage!Bump(x.fails, q.fails),
                              pending |-> q.pending, readAt |-> readAt, late |-> late], q.since)
<1>1. /\ now \in Nat /\ now <= MaxTime /\ AreTranscripts(transcript, now)
      /\ index = [h \in Programs |-> index[h]] /\ pass = [h \in Programs |-> pass[h]]
      /\ \A h \in Programs : pass[h].busy => index[h].up /\ Passing(pass[h], index[h], transcript, now)
      /\ \A h \in Programs : index[h].up => Faithful(index[h], now - Retain, transcript, now)
  BY DEF UsageInv
<1>2. /\ q.busy /\ q.left = {}
      /\ index' = [index EXCEPT ![p] = x2] /\ pass' = [pass EXCEPT ![p] = Usage!NoPass]
      /\ UNCHANGED <<transcript, now, saving, rollup>>
  BY <1>1 DEF Usage!Folds, Usage!Began
<1>3. Faithful(x2, now - Retain, transcript, now)
  BY <1>1, <1>2, FoldsSound
<1> HIDE DEF x2
<1>4. /\ index' = [h \in Programs |-> index'[h]] /\ pass' = [h \in Programs |-> pass'[h]]
      /\ index'[p] = x2 /\ pass'[p] = Usage!NoPass
      /\ \A h \in Programs : h # p => index'[h] = index[h] /\ pass'[h] = pass[h]
  BY <1>1, <1>2
<1>5. ~Usage!NoPass.busy
  BY DEF Usage!NoPass
<1>6. \A h \in Programs : /\ pass'[h].busy => index'[h].up /\ Passing(pass'[h], index'[h], transcript, now)
                          /\ index'[h].up => Faithful(index'[h], now - Retain, transcript, now)
  BY <1>1, <1>3, <1>4, <1>5
<1> QED
  BY <1>2, <1>4, <1>6 DEF UsageInv

LEMMA StepRollups ==
  ASSUME UsageInv, NEW p \in Programs,
         Usage!Launch(p) \/ Usage!Encodes(p) \/ Usage!Renames(p) \/ Usage!Quits(p)
  PROVE  UsageInv'
<1> DEFINE Fine(x) == Faithful(x, now - Retain, transcript, now)
<1>1. /\ now \in Nat /\ now <= MaxTime /\ AreTranscripts(transcript, now)
      /\ index = [h \in Programs |-> index[h]] /\ pass = [h \in Programs |-> pass[h]]
      /\ saving = [h \in Programs |-> saving[h]]
      /\ Fine(rollup)
      /\ \A h \in Programs : pass[h].busy => index[h].up /\ Passing(pass[h], index[h], transcript, now)
      /\ \A h \in Programs : index[h].up => Fine(index[h])
      /\ \A h \in Programs : \A x \in saving[h] : Fine(x)
  BY DEF UsageInv
<1>2. CASE Usage!Launch(p)
  <2>1. /\ ~index[p].up /\ index' = [index EXCEPT ![p] = rollup]
        /\ transcript' = transcript /\ now' = now /\ pass' = pass /\ saving' = saving /\ rollup' = rollup
    BY <1>2 DEF Usage!Launch
  <2>2. /\ index' = [h \in Programs |-> index'[h]] /\ index'[p] = rollup
        /\ \A h \in Programs : h # p => index'[h] = index[h]
    BY <1>1, <2>1
  <2>3. \A h \in Programs : /\ index'[h].up => Fine(index'[h])
                            /\ pass[h].busy => index'[h].up /\ Passing(pass[h], index'[h], transcript, now)
    BY <1>1, <2>1, <2>2
  <2> QED
    BY <1>1, <2>1, <2>2, <2>3 DEF UsageInv
<1>3. CASE Usage!Encodes(p)
  <2>1. /\ index[p].up /\ saving' = [saving EXCEPT ![p] = @ \cup {index[p]}]
        /\ transcript' = transcript /\ now' = now /\ pass' = pass /\ index' = index /\ rollup' = rollup
    BY <1>3 DEF Usage!Encodes
  <2>2. /\ saving' = [h \in Programs |-> saving'[h]]
        /\ \A h \in Programs : \A x \in saving'[h] : Fine(x)
    BY <1>1, <2>1
  <2> QED
    BY <1>1, <2>1, <2>2 DEF UsageInv
<1>4. CASE Usage!Renames(p)
  <2>1. PICK y \in saving[p] : rollup' = y /\ saving' = [saving EXCEPT ![p] = @ \ {y}]
    BY <1>4 DEF Usage!Renames
  <2>2. transcript' = transcript /\ now' = now /\ pass' = pass /\ index' = index
    BY <1>4 DEF Usage!Renames
  <2>3. /\ saving' = [h \in Programs |-> saving'[h]]
        /\ \A h \in Programs : \A x \in saving'[h] : Fine(x)
    BY <1>1, <2>1
  <2>4. Fine(rollup')
    BY <1>1, <2>1
  <2> QED
    BY <1>1, <2>2, <2>3, <2>4 DEF UsageInv
<1>5. CASE Usage!Quits(p)
  <2>1. /\ index[p].up /\ rollup' \in {index[p], rollup} \cup saving[p]
        /\ index' = [index EXCEPT ![p] = Usage!Down] /\ pass' = [pass EXCEPT ![p] = Usage!NoPass]
        /\ saving' = [saving EXCEPT ![p] = {}]
        /\ transcript' = transcript /\ now' = now
    BY <1>5 DEF Usage!Quits
  <2>2. /\ index' = [h \in Programs |-> index'[h]] /\ pass' = [h \in Programs |-> pass'[h]]
        /\ saving' = [h \in Programs |-> saving'[h]]
        /\ index'[p] = Usage!Down /\ pass'[p] = Usage!NoPass /\ saving'[p] = {}
        /\ \A h \in Programs : h # p => index'[h] = index[h] /\ pass'[h] = pass[h] /\ saving'[h] = saving[h]
    BY <1>1, <2>1
  <2>3. ~Usage!NoPass.busy /\ ~Usage!Down.up
    BY DEF Usage!NoPass, Usage!Down
  <2>4. Fine(rollup')
    BY <1>1, <2>1
  <2>5. \A h \in Programs : /\ index'[h].up => Fine(index'[h])
                            /\ pass'[h].busy => index'[h].up /\ Passing(pass'[h], index'[h], transcript, now)
                            /\ \A x \in saving'[h] : Fine(x)
    BY <1>1, <2>2, <2>3
  <2> QED
    BY <1>1, <2>1, <2>2, <2>4, <2>5 DEF UsageInv
<1> QED
  BY <1>2, <1>3, <1>4, <1>5

LEMMA UsageStarts ==
  ASSUME Usage!UsageInit
  PROVE  UsageInv
<1> DEFINE e == [lines |-> <<>>, half |-> FALSE, at |-> 0, torn |-> FALSE]
           x == rollup
<1>1. /\ transcript = [f \in Transcripts |-> e] /\ now = 0
      /\ index = [p \in Programs |-> Usage!Down] /\ pass = [p \in Programs |-> Usage!NoPass]
      /\ saving = [p \in Programs |-> {}] /\ rollup = Usage!Cold
  BY DEF Usage!UsageInit
<1>2. Retain \in Nat /\ MaxTime \in Nat
  BY UsageConstants DEF Usage!UsageAssumptions
<1>3. e.lines = <<>> /\ e.at = 0 /\ Len(e.lines) = 0
  OBVIOUS
<1>4. LinesOf(e.lines) = {} /\ Subjects(LinesOf(e.lines)) = {}
  BY <1>3 DEF LinesOf, Subjects
<1>5. IsTranscript(e, 0)
  <2>1. e \in [lines : Seq(LineSet), half : BOOLEAN, at : Nat, torn : BOOLEAN]
    OBVIOUS
  <2> HIDE DEF e
  <2> QED
    BY <1>3, <1>4, <2>1 DEF IsTranscript
<1> HIDE DEF e
<1>6. AreTranscripts(transcript, 0)
  BY <1>1, <1>4, <1>5 DEF AreTranscripts
<1>7. Faithful(rollup, 0 - Retain, transcript, 0)
  <2>1. /\ x.files = [f \in Transcripts |-> Usage!NoState]
        /\ x.counts = [n \in Usage!Times |-> 0] /\ x.fails = [n \in Usage!Times |-> 0] /\ x.pending = {}
        /\ x.readAt = [n \in Usage!Times |-> 0] /\ x.late = {}
    BY <1>1 DEF Usage!Cold
  <2>2. Sane(x, 0)
    BY <2>1 DEF Sane
  <2>3. ASSUME NEW f \in Whole(transcript)
        PROVE  /\ StateOf(x.files[f], transcript[f])
               /\ Mirrors(x.counts, x.fails, x.pending, x.late, LinesOf(transcript[f].lines),
                          LastRead(x.files[f]), Through(x.files[f]), 0 - Retain)
    <3>1. x.files[f] = Usage!NoState /\ LinesOf(transcript[f].lines) = {} /\ Subjects(LinesOf(transcript[f].lines)) = {}
      BY <1>1, <1>4, <2>1 DEF Whole
    <3>2. StateOf(x.files[f], transcript[f])
      BY <3>1 DEF StateOf
    <3>3. Mirrors(x.counts, x.fails, x.pending, x.late, LinesOf(transcript[f].lines),
                  LastRead(x.files[f]), Through(x.files[f]), 0 - Retain)
      BY <3>1 DEF Mirrors
    <3> QED
      BY <3>2, <3>3
  <2> QED
    BY <2>2, <2>3 DEF Faithful
<1>8. ~Usage!NoPass.busy /\ ~Usage!Down.up
  BY DEF Usage!NoPass, Usage!Down
<1> QED
  BY <1>1, <1>2, <1>6, <1>7, <1>8 DEF UsageInv

LEMMA UsageTells ==
  ASSUME UsageInv
  PROVE  Usage!ReadIsCounted
<1>1. ASSUME NEW p \in Programs, index[p].up, NEW n \in index[p].late
      PROVE  index[p].readAt[n] + PendingTTL < now
  BY <1>1 DEF UsageInv, Faithful, Sane
<1>2. ASSUME NEW p \in Programs, index[p].up, NEW f \in Transcripts, ~transcript[f].torn,
             NEW l \in Usage!ReadLines(index[p], f), l.of >= now - Retain
      PROVE  /\ l.what = "call" => index[p].counts[l.n] = 1
             /\ l.what = "fail" => index[p].fails[l.of] = IF l.of \in index[p].late THEN 0
                                                         ELSE index[p].counts[l.of]
  <2> DEFINE x == index[p]
             u == transcript[f]
             st == index[p].files[f]
             L == LinesOf(u.lines)
             w == now - Retain
  <2>1. /\ st # Usage!NoState /\ st.at = u.at
        /\ l \in Usage!ToSet(SubSeq(u.lines, 1, st.offset))
    BY <1>2 DEF Usage!ReadLines
  <2>a. f \in Whole(transcript)
    BY <1>2 DEF Whole
  <2>2. /\ IsTranscript(u, now) /\ StateOf(st, u)
        /\ Mirrors(x.counts, x.fails, x.pending, x.late, L, LastRead(st), Through(st), w)
    BY <1>2, <2>a DEF UsageInv, AreTranscripts, Faithful
  <2>3. st.offset = Len(u.lines) /\ st.tail = Usage!TailPrint(u, Len(u.lines)) /\ LastRead(st) = st.tail
    BY <2>1, <2>2 DEF StateOf, LastRead
  <2>4. /\ \A m \in L : m.n <= LastRead(st)
        /\ \A m \in L : IF IsResult(m) THEN m.of < m.n ELSE m.of = m.n
        /\ Len(u.lines) \in Nat
    BY <2>2, <2>3, EndOf, LinesFacts
  <2>5. l \in L
    <3>1. l \in Usage!ToSet(SubSeq(u.lines, 0 + 1, Len(u.lines)))
      BY <2>1, <2>3
    <3> HIDE DEF u
    <3> QED
      BY <2>2, <2>4, <3>1, SuffixLines
  <2>6. ASSUME l.what = "call" PROVE x.counts[l.n] = 1
    BY <1>2, <2>2, <2>4, <2>5, <2>6 DEF Mirrors, IsResult
  <2>7. ASSUME l.what = "fail" PROVE x.fails[l.of] = IF l.of \in x.late THEN 0 ELSE x.counts[l.of]
    BY <1>2, <2>2, <2>4, <2>5, <2>7 DEF Mirrors, IsResult
  <2> QED
    BY <2>6, <2>7
<1> QED
  BY <1>1, <1>2 DEF Usage!ReadIsCounted, Usage!Since

LEMMA StepUsage ==
  ASSUME UsageInv, OneList, Usage!UsageNext \/ UNCHANGED usageVars
  PROVE  UsageInv'
<1>1. CASE UNCHANGED usageVars
  BY <1>1 DEF usageVars, UsageInv
<1>2. CASE \E f \in Transcripts : Usage!Appends(f) \/ Usage!Rewrites(f)
  BY <1>2, StepAppends, StepRewrites
<1>3. CASE \E p \in Programs : \/ Usage!UpdateStarts(p) \/ \E f \in Transcripts : Usage!Looks(p, f)
                               \/ Usage!Reads(p) \/ Usage!Folds(p)
  BY <1>3, StepUpdateStarts, StepLooks, StepReads, StepFolds
<1>4. CASE \E p \in Programs :
             Usage!Launch(p) \/ Usage!Encodes(p) \/ Usage!Renames(p) \/ Usage!Quits(p)
  BY <1>4, StepRollups
<1> QED
  BY <1>1, <1>2, <1>3, <1>4 DEF Usage!UsageNext

\* Where every program lists the transcripts of the same accounts, what a rollup has
\* read of a transcript that has not moved since is in its counters, each call once and
\* with it its failure, but for a call it gave up after PendingTTL: whoever wrote,
\* rewrote, read and saved, in whatever order, unless the transcript was once rewritten
\* between a pass's look and its read, and with no more than maxPending calls waiting.
THEOREM ReadCorrect ==
  ASSUME OneList
  PROVE  Spec => []ReadIsCounted
<1>1. Init => (part = "usage" => UsageInv)
  BY UsageStarts DEF Init
<1>2. (part = "usage" => UsageInv) /\ [Next]_partsVars => (part = "usage" => UsageInv)'
  BY PartSteps, StepUsage
<1>3. UsageInv => Usage!ReadIsCounted
  BY UsageTells
<1> QED
  BY <1>1, <1>2, <1>3, PTL DEF Spec, ReadIsCounted

-----------------------------------------------------------------------------
(***************************************************************************)
(* The log of a job.                                                       *)
(***************************************************************************)
Text == Seq(Nat)
Breaks(s, k) == {i \in 1 .. k : s[i] = Log!LF}

\* The lines of a prefix are the line ends up to its position.
LEMMA LinesOfPrefix ==
  ASSUME NEW s \in Text, NEW k \in 0 .. Len(s)
  PROVE  Log!Lines(SubSeq(s, 1, k)) = Cardinality(Breaks(s, k))
<1> DEFINE q == SubSeq(s, 1, k)
<1>1. DOMAIN q = 1 .. k /\ \A i \in 1 .. k : q[i] = s[i]
  BY DEF Text
<1>2. {i \in DOMAIN q : q[i] = Log!LF} = Breaks(s, k)
  BY <1>1 DEF Breaks
<1> HIDE DEF q
<1>3. Log!Lines(q) = Log!Cardinality({i \in DOMAIN q : q[i] = Log!LF})
  BY Zenon DEF Log!Lines
<1>4. \A T : Log!Cardinality(T) = Cardinality(T)
  BY Zenon DEF Log!Cardinality, Cardinality
<1> QED
  BY <1>2, <1>3, <1>4, Zenon DEF q

\* The line ends up to a position and those of what follows it add up.
LEMMA BreaksApart ==
  ASSUME NEW s, NEW q, NEW k \in Nat, NEW c \in Nat, \A i \in 1 .. c : q[i] = s[k + i]
  PROVE  /\ Cardinality(Breaks(s, k + c)) = Cardinality(Breaks(s, k)) + Cardinality(Breaks(q, c))
         /\ Cardinality(Breaks(s, k)) \in Nat
<1> DEFINE A == Breaks(s, k)
           B == {i \in k + 1 .. k + c : s[i] = Log!LF}
           D == Breaks(q, c)
           f == [i \in D |-> k + i]
<1>1. IsFiniteSet(A) /\ IsFiniteSet(B) /\ IsFiniteSet(D)
  <2>1. IsFiniteSet(1 .. k) /\ IsFiniteSet(k + 1 .. k + c) /\ IsFiniteSet(1 .. c)
    <3>1. 1 \in Int /\ k \in Int /\ c \in Int /\ k + 1 \in Int /\ k + c \in Int
      OBVIOUS
    <3> QED
      BY <3>1, FS_Interval, Zenon
  <2> QED
    BY <2>1, FS_Subset DEF Breaks
<1>2. Cardinality(B) = Cardinality(D)
  <2>1. f \in [D -> B]
    BY DEF Breaks
  <2>2. \A x, y \in D : f[x] = f[y] => x = y
    BY DEF Breaks
  <2>3. ASSUME NEW y \in B PROVE \E x \in D : f[x] = y
    <3>1. y - k \in D /\ f[y - k] = y
      BY DEF Breaks
    <3> QED
      BY <3>1
  <2> HIDE DEF f, D, B
  <2>4. f \in Bijection(D, B)
    BY <2>1, <2>2, <2>3 DEF Bijection, Injection, Surjection, IsInjective
  <2>5. ExistsBijection(D, B)
    BY <2>4 DEF ExistsBijection
  <2> QED
    BY <1>1, <2>5, FS_Bijection
<1>3. Breaks(s, k + c) = A \cup B /\ A \cap B = {}
  BY DEF Breaks
<1>4. Cardinality(A \cup B) = Cardinality(A) + Cardinality(B)
  <2> HIDE DEF A, B
  <2>1. Cardinality(A \cup B) = Cardinality(A) + Cardinality(B) - Cardinality({})
    BY <1>1, <1>3, FS_Union
  <2> QED
    BY <1>1, <2>1, FS_EmptySet, FS_CardinalityType
<1>5. Cardinality(A) \in Nat
  BY <1>1, FS_CardinalityType
<1> QED
  BY <1>2, <1>3, <1>4, <1>5

\* What is held is the end of s, and what is missing is counted.
Holds(text, dropped, s) ==
  /\ text \in Text /\ s \in Text /\ Len(text) <= Len(s)
  /\ \A i \in 1 .. Len(text) : text[i] = s[(Len(s) - Len(text)) + i]
  /\ dropped = Cardinality(Breaks(s, Len(s) - Len(text)))

\* Forgetting from the front leaves the end of the text, with the lines counted.
LEMMA CutHolds ==
  ASSUME NEW text, NEW dropped, NEW s, Holds(text, dropped, s), NEW cut \in 0 .. Len(text)
  PROVE  /\ Holds(Log!From(text, cut + 1), dropped + Log!Lines(SubSeq(text, 1, cut)), s)
         /\ Len(Log!From(text, cut + 1)) = Len(text) - cut
<1> DEFINE k == Len(s) - Len(text)
           rest == Log!From(text, cut + 1)
<1>1. Len(text) \in Nat /\ Len(s) \in Nat /\ k \in Nat /\ cut \in Nat /\ text \in Text /\ s \in Text
  BY DEF Holds, Text
<1>2. /\ rest \in Text /\ Len(rest) = Len(text) - cut
      /\ \A i \in 1 .. Len(text) - cut : rest[i] = text[cut + i]
  BY <1>1 DEF Log!From, Text
<1>3. \A i \in 1 .. Len(text) : text[i] = s[k + i]
  BY DEF Holds
<1>4. Cardinality(Breaks(s, k + cut)) = dropped + Cardinality(Breaks(text, cut))
  <2>1. \A i \in 1 .. cut : text[i] = s[k + i]
    BY <1>1, <1>3
  <2>2. dropped = Cardinality(Breaks(s, k))
    BY DEF Holds
  <2> HIDE DEF k
  <2> QED
    BY <1>1, <2>1, <2>2, BreaksApart
<1>5. Log!Lines(SubSeq(text, 1, cut)) = Cardinality(Breaks(text, cut))
  BY <1>1, LinesOfPrefix
<1>6. Len(s) - Len(rest) = k + cut
  BY <1>1, <1>2
<1> HIDE DEF rest, k
<1>7. ASSUME NEW i \in 1 .. Len(rest) PROVE rest[i] = s[(k + cut) + i]
  <2>1. cut + i \in 1 .. Len(text) /\ k + (cut + i) = (k + cut) + i
    BY <1>1, <1>2
  <2> QED
    BY <1>2, <1>3, <2>1
<1>8. Len(rest) <= Len(s)
  BY <1>1, <1>2 DEF k
<1>9. Holds(rest, dropped + Log!Lines(SubSeq(text, 1, cut)), s)
  BY <1>1, <1>2, <1>4, <1>5, <1>6, <1>7, <1>8 DEF Holds
<1> QED
  BY <1>2, <1>9 DEF rest

\* What is appended to the text and to its end leaves it the end.
LEMMA AppendHolds ==
  ASSUME NEW text, NEW dropped, NEW s, Holds(text, dropped, s), NEW q \in Text
  PROVE  Holds(text \o q, dropped, s \o q)
<1> DEFINE k == Len(s) - Len(text)
           t2 == text \o q
           s2 == s \o q
<1>1. Len(text) \in Nat /\ Len(s) \in Nat /\ k \in Nat /\ Len(q) \in Nat /\ text \in Text /\ s \in Text
  BY DEF Holds, Text
<1>2. /\ t2 \in Text /\ Len(t2) = Len(text) + Len(q)
      /\ \A i \in 1 .. Len(text) : t2[i] = text[i]
      /\ \A i \in 1 .. Len(q) : t2[Len(text) + i] = q[i]
  BY <1>1 DEF Text
<1>3. /\ s2 \in Text /\ Len(s2) = Len(s) + Len(q)
      /\ \A i \in 1 .. Len(s) : s2[i] = s[i]
      /\ \A i \in 1 .. Len(q) : s2[Len(s) + i] = q[i]
  BY <1>1 DEF Text
<1> HIDE DEF t2, s2
<1>4. Len(s2) - Len(t2) = k
  BY <1>1, <1>2, <1>3
<1>5. ASSUME NEW i \in 1 .. Len(t2) PROVE t2[i] = s2[k + i]
  <2>1. CASE i \in 1 .. Len(text)
    <3>1. k + i \in 1 .. Len(s) /\ text[i] = s[k + i]
      BY <1>1, <2>1 DEF Holds
    <3> QED
      BY <1>2, <1>3, <2>1, <3>1
  <2>2. CASE i \notin 1 .. Len(text)
    <3> DEFINE j == i - Len(text)
    <3>1. j \in 1 .. Len(q) /\ i = Len(text) + j /\ k + i = Len(s) + j
      BY <1>1, <1>2, <2>2
    <3> HIDE DEF j
    <3> QED
      BY <1>2, <1>3, <3>1
  <2> QED
    BY <2>1, <2>2
<1>6. Breaks(s2, k) = Breaks(s, k)
  BY <1>1, <1>3 DEF Breaks
<1>7. dropped = Cardinality(Breaks(s, k))
  BY DEF Holds
<1>8. Len(t2) <= Len(s2)
  BY <1>1, <1>4, <1>2, <1>3
<1> HIDE DEF k
<1>9. Holds(t2, dropped, s2)
  BY <1>2, <1>3, <1>4, <1>5, <1>6, <1>7, <1>8 DEF Holds
<1> QED
  BY <1>9 DEF t2, s2

\* A set of positions that is not empty has a first and a last one.
LEMMA FirstOf ==
  ASSUME NEW S, S \subseteq Nat, S # {}
  PROVE  \E i \in S : \A j \in S : i <= j
<1>1. PICK m \in S : \A x \in S : ~(<<x, m>> \in OpToRel(<, Nat))
  BY WFMin, NatLessThanWellFounded, Zenon
<1>2. ASSUME NEW j \in S PROVE m <= j
  <2>1. ~(j < m)
    BY <1>1, <1>2 DEF OpToRel
  <2> QED
    BY <2>1
<1> QED
  BY <1>2

\* A set of positions that is not empty has a last one.
LEMMA LastOf ==
  ASSUME NEW S, NEW k \in Nat, S \subseteq 1 .. k, S # {}
  PROVE  \E i \in S : \A j \in S : j <= i
<1> DEFINE T == {k - i : i \in S}
<1>1. T \subseteq Nat /\ T # {}
  <2>1. \A i \in S : k - i \in Nat
    OBVIOUS
  <2>2. PICK i \in S : TRUE
    OBVIOUS
  <2> QED
    BY <2>1, <2>2
<1> HIDE DEF T
<1>2. PICK m \in T : \A x \in T : m <= x
  BY <1>1, FirstOf
<1>3. PICK i \in S : m = k - i
  BY DEF T
<1>4. ASSUME NEW j \in S PROVE j <= i
  <2>1. k - j \in T
    BY DEF T
  <2> QED
    BY <1>2, <1>3, <2>1
<1> QED
  BY <1>4

\* An eviction cuts at the position asked for, or at a line end after it.
LEMMA LineEndIn ==
  ASSUME NEW s \in Text, NEW from \in 0 .. Len(s)
  PROVE  Log!LineEnd(s, from) \in 0 .. Len(s) /\ Log!LineEnd(s, from) >= from
<1> DEFINE S == {i \in from + 1 .. Len(s) : s[i] = Log!LF}
           first == CHOOSE i \in S : \A j \in S : i <= j
<1>1. Len(s) \in Nat
  BY DEF Text
<1>2. Log!LineEnd(s, from) = IF S = {} THEN from ELSE first
  BY DEF Log!LineEnd
<1>3. S \subseteq Nat
  BY <1>1
<1>4. S # {} => first \in S
  <2> HIDE DEF S
  <2> QED
    BY <1>3, FirstOf
<1>5. S # {} => first \in from + 1 .. Len(s)
  BY <1>4
<1> HIDE DEF S, first
<1> QED
  BY <1>1, <1>2, <1>5

\* The text up to the last line end.
UpToLine(s, m) ==
  /\ m \in 0 .. Len(s) /\ Log!Erased(s) = SubSeq(s, 1, m)
  /\ m # 0 => s[m] = Log!LF
  /\ \A i \in m + 1 .. Len(s) : s[i] # Log!LF

\* A text without its last line ends at its last line end.
LEMMA ErasedOf ==
  ASSUME NEW s \in Text
  PROVE  \E m : UpToLine(s, m)
<1> DEFINE S == {i \in DOMAIN s : s[i] = Log!LF}
           last == CHOOSE i \in S : \A j \in S : j <= i
<1>1. Len(s) \in Nat /\ DOMAIN s = 1 .. Len(s)
  BY DEF Text
<1>2. Log!Erased(s) = IF S = {} THEN <<>> ELSE SubSeq(s, 1, last)
  BY DEF Log!Erased
<1>3. S \subseteq 1 .. Len(s)
  BY <1>1
<1>4. CASE S = {}
  <2>1. Log!Erased(s) = SubSeq(s, 1, 0)
    BY <1>2, <1>4 DEF Text
  <2>2. \A i \in 1 .. Len(s) : s[i] # Log!LF
    BY <1>1, <1>4
  <2>3. UpToLine(s, 0)
    BY <1>1, <2>1, <2>2 DEF UpToLine
  <2> QED
    BY <2>3
<1>5. CASE S # {}
  <2>1. last \in S /\ \A j \in S : j <= last
    <3> HIDE DEF S
    <3> QED
      BY <1>1, <1>3, <1>5, LastOf
  <2>2. last \in 1 .. Len(s) /\ s[last] = Log!LF
    BY <1>3, <2>1
  <2>3. \A i \in last + 1 .. Len(s) : s[i] # Log!LF
    <3> SUFFICES ASSUME NEW i \in last + 1 .. Len(s), s[i] = Log!LF PROVE FALSE
      OBVIOUS
    <3>1. i \in S
      BY <1>1, <2>2
    <3> HIDE DEF S, last
    <3> QED
      BY <1>1, <2>1, <2>2, <3>1
  <2> HIDE DEF S, last
  <2>4. UpToLine(s, last)
    BY <1>1, <1>2, <1>5, <2>2, <2>3 DEF UpToLine
  <2> QED
    BY <2>4
<1> QED
  BY <1>4, <1>5

\* Erasing the last line of both leaves the one the end of the other.
LEMMA EraseHolds ==
  ASSUME NEW text, NEW dropped, NEW s, Holds(text, dropped, s)
  PROVE  /\ Holds(Log!Erased(text), dropped, Log!Erased(s))
         /\ Len(Log!Erased(text)) <= Len(text)
<1> DEFINE k == Len(s) - Len(text)
           t2 == Log!Erased(text)
           s2 == Log!Erased(s)
<1>1. Len(text) \in Nat /\ Len(s) \in Nat /\ k \in Nat /\ text \in Text /\ s \in Text
  BY DEF Holds, Text
<1>2. /\ dropped = Cardinality(Breaks(s, k))
      /\ \A i \in 1 .. Len(text) : text[i] = s[k + i]
  BY DEF Holds
<1>3. PICK m : UpToLine(text, m)
  BY <1>1, ErasedOf
<1>4. PICK l : UpToLine(s, l)
  BY <1>1, ErasedOf
<1>5. /\ m \in 0 .. Len(text) /\ t2 \in Text /\ Len(t2) = m
      /\ \A i \in 1 .. m : t2[i] = text[i]
  BY <1>1, <1>3 DEF UpToLine, Text
<1>6. /\ l \in 0 .. Len(s) /\ s2 \in Text /\ Len(s2) = l
      /\ \A i \in 1 .. l : s2[i] = s[i]
  BY <1>1, <1>4 DEF UpToLine, Text
<1>7. /\ m # 0 => text[m] = Log!LF
      /\ l # 0 => s[l] = Log!LF
      /\ \A i \in m + 1 .. Len(text) : text[i] # Log!LF
      /\ \A i \in l + 1 .. Len(s) : s[i] # Log!LF
  BY <1>3, <1>4 DEF UpToLine
<1>8. Len(s) = k + Len(text)
  BY <1>1
<1> HIDE DEF k, t2, s2
<1>9. CASE m # 0
  <2>1. s[k + m] = Log!LF /\ k + m \in 1 .. Len(s) /\ m \in 1 .. Len(text)
    BY <1>1, <1>2, <1>5, <1>7, <1>8, <1>9
  <2>2. l >= k + m
    BY <1>1, <1>6, <1>7, <2>1
  <2>3. l = k + m
    <3> SUFFICES ASSUME l > k + m PROVE FALSE
      BY <1>1, <1>5, <1>6, <2>2
    <3>1. l - k \in m + 1 .. Len(text) /\ l - k \in 1 .. Len(text) /\ k + (l - k) = l /\ l # 0
      BY <1>1, <1>5, <1>6, <1>8
    <3> QED
      BY <1>2, <1>7, <3>1
  <2>4. Len(s2) - Len(t2) = k
    BY <1>1, <1>5, <1>6, <2>3
  <2>5. ASSUME NEW i \in 1 .. Len(t2) PROVE t2[i] = s2[k + i]
    <3>1. i \in 1 .. m /\ i \in 1 .. Len(text) /\ k + i \in 1 .. l
      BY <1>1, <1>5, <2>3
    <3> QED
      BY <1>2, <1>5, <1>6, <3>1
  <2>6. Breaks(s2, k) = Breaks(s, k)
    BY <1>1, <1>5, <1>6, <2>3 DEF Breaks
  <2>7. Len(t2) <= Len(s2)
    BY <1>1, <1>5, <1>6, <2>3
  <2>8. Holds(t2, dropped, s2)
    BY <1>2, <1>5, <1>6, <2>4, <2>5, <2>6, <2>7 DEF Holds
  <2> QED
    BY <1>1, <1>5, <2>8 DEF t2, s2
<1>10. CASE m = 0
  <2>1. l <= k
    <3> SUFFICES ASSUME l > k PROVE FALSE
      BY <1>1, <1>6
    <3>1. l - k \in m + 1 .. Len(text) /\ l - k \in 1 .. Len(text) /\ k + (l - k) = l /\ l # 0
      BY <1>1, <1>5, <1>6, <1>8, <1>10
    <3> QED
      BY <1>2, <1>7, <3>1
  <2>2. Breaks(s2, l) = Breaks(s, k)
    <3>1. \A i \in 1 .. k : i \in 1 .. l \/ s[i] # Log!LF
      BY <1>1, <1>6, <1>7, <1>8
    <3> QED
      BY <1>1, <1>6, <2>1, <3>1 DEF Breaks
  <2>3. Len(s2) - Len(t2) = l /\ Len(t2) <= Len(s2) /\ Len(t2) = 0
    BY <1>1, <1>5, <1>6, <1>10
  <2> QED
    BY <1>2, <1>5, <1>6, <2>2, <2>3 DEF Holds, t2, s2
<1> QED
  BY <1>5, <1>9, <1>10, <1>1 DEF t2

\* A buffer, and what its calls do to each of its fields.
BufOf(text, dropped, at, pending) ==
  [text |-> text, dropped |-> dropped, gen |-> at, pending |-> pending]
IsBuf(b) == b = BufOf(b.text, b.dropped, b.gen, b.pending)

\* A buffer is made of its fields.
LEMMA BufFields ==
  ASSUME NEW text, NEW dropped, NEW at, NEW pending,
         NEW b, b = BufOf(text, dropped, at, pending)
  PROVE  /\ IsBuf(b) /\ b.text = text /\ b.dropped = dropped /\ b.gen = at /\ b.pending = pending
<1>1. b.text = text /\ b.dropped = dropped /\ b.gen = at /\ b.pending = pending
  BY DEF BufOf
<1> QED
  BY <1>1 DEF IsBuf

Cut(all) == IF Len(all) > Cap THEN Log!LineEnd(all, Len(all) - Log!LowWater) ELSE 0

\* A put changes the text and the count, nothing else.
LEMMA PutFields ==
  ASSUME NEW b, IsBuf(b), NEW q
  PROVE  LET all == b.text \o q
             put == Log!Put(b, q)
         IN  /\ IsBuf(put) /\ put.gen = b.gen /\ put.pending = b.pending
             /\ put.text = Log!From(all, Cut(all) + 1)
             /\ put.dropped = b.dropped + Log!Lines(SubSeq(all, 1, Cut(all)))
<1> DEFINE all == b.text \o q
           t == b.text
           d == b.dropped
           x == b.gen
           y == b.pending
           t2 == Log!From(all, Cut(all) + 1)
           d2 == d + Log!Lines(SubSeq(all, 1, Cut(all)))
           put == Log!Put(b, q)
<1>1. put = [b EXCEPT !.text = t2, !.dropped = d2]
  BY DEF Log!Put, Cut
<1>2. b = BufOf(t, d, x, y)
  BY DEF IsBuf
<1> HIDE DEF t2, d2, t, d, x, y, put
<1>3. put = BufOf(t2, d2, x, y)
  BY ONLY <1>1, <1>2 DEF BufOf
<1>4. IsBuf(put) /\ put.text = t2 /\ put.dropped = d2 /\ put.gen = x /\ put.pending = y
  BY ONLY <1>3, BufFields
<1> QED
  BY <1>4 DEF t2, d2, t, d, x, y, put

\* Erasing a line changes the text, nothing else.
LEMMA EraseFields ==
  ASSUME NEW b, IsBuf(b)
  PROVE  LET e == Log!EraseLine(b)
         IN  /\ IsBuf(e) /\ e.gen = b.gen /\ e.pending = b.pending
             /\ e.text = Log!Erased(b.text) /\ e.dropped = b.dropped
<1> DEFINE t == b.text
           d == b.dropped
           x == b.gen
           y == b.pending
           t2 == Log!Erased(t)
           e == Log!EraseLine(b)
<1>1. e = [b EXCEPT !.text = t2]
  BY DEF Log!EraseLine
<1>2. b = BufOf(t, d, x, y)
  BY DEF IsBuf
<1> HIDE DEF t2, t, d, x, y, e
<1>3. e = BufOf(t2, d, x, y)
  BY ONLY <1>1, <1>2 DEF BufOf
<1>4. IsBuf(e) /\ e.text = t2 /\ e.dropped = d /\ e.gen = x /\ e.pending = y
  BY ONLY <1>3, BufFields
<1> QED
  BY <1>4 DEF t2, t, d, x, y, e

Pend(b, v) == [b EXCEPT !.pending = v]

\* A carriage return is set to wait, nothing else changes.
LEMMA PendingFields ==
  ASSUME NEW b, IsBuf(b), NEW v
  PROVE  LET e == Pend(b, v)
         IN  /\ IsBuf(e) /\ e.gen = b.gen /\ e.pending = v
             /\ e.text = b.text /\ e.dropped = b.dropped
<1> DEFINE t == b.text
           d == b.dropped
           x == b.gen
           y == b.pending
           e == Pend(b, v)
<1>2. b = BufOf(t, d, x, y)
  BY DEF IsBuf
<1> HIDE DEF t, d, x, y
<1>3. e = BufOf(t, d, x, v)
  BY ONLY <1>2 DEF BufOf, Pend
<1> HIDE DEF e
<1>4. IsBuf(e) /\ e.text = t /\ e.dropped = d /\ e.gen = x /\ e.pending = v
  BY ONLY <1>3, BufFields
<1> QED
  BY <1>4 DEF t, d, x, e

\* A write begins with a generation of its own and no carriage return waiting.
LEMMA OpenedFields ==
  ASSUME NEW b, IsBuf(b)
  PROVE  LET e == Log!Opened(b)
         IN  /\ IsBuf(e) /\ e.gen = b.gen + 1 /\ e.pending = FALSE
             /\ e.text = b.text /\ e.dropped = b.dropped
<1> DEFINE t == b.text
           d == b.dropped
           x == b.gen
           y == b.pending
           x2 == x + 1
           c == [b EXCEPT !.gen = x2]
           no == FALSE
           e == Log!Opened(b)
<1>1. e = [c EXCEPT !.pending = no]
  BY DEF Log!Opened
<1>2. b = BufOf(t, d, x, y)
  BY DEF IsBuf
<1> HIDE DEF t, d, x, y, x2, no, e
<1>3. c = BufOf(t, d, x2, y)
  BY ONLY <1>2 DEF BufOf
<1> HIDE DEF c
<1>4. e = BufOf(t, d, x2, no)
  BY ONLY <1>1, <1>3 DEF BufOf
<1>5. IsBuf(e) /\ e.text = t /\ e.dropped = d /\ e.gen = x2 /\ e.pending = no
  BY ONLY <1>4, BufFields
<1> QED
  BY <1>5 DEF t, d, x, x2, no, e

\* What an eviction aims to leave is within the budget.
LEMMA CapFacts ==
  /\ Cap \in Nat /\ Log!LowWater \in Nat /\ Log!LowWater <= Cap
<1>1. Cap \in Nat /\ Cap # 0 /\ TrimFraction \in Nat /\ TrimFraction # 0
  BY LogConstants DEF Log!JobLogAssumptions
<1>2. Cap \div TrimFraction \in Nat
  BY <1>1
<1> QED
  BY <1>1, <1>2 DEF Log!LowWater

\* Whoever holds the end of s within the budget holds that of s and q after a put.
LEMMA PutHolds ==
  ASSUME NEW b, IsBuf(b), NEW s, Holds(b.text, b.dropped, s), NEW q \in Text
  PROVE  LET put == Log!Put(b, q)
         IN  /\ Holds(put.text, put.dropped, s \o q) /\ Len(put.text) <= Cap
             /\ IsBuf(put) /\ put.gen = b.gen /\ put.pending = b.pending
<1> DEFINE all == b.text \o q
           put == Log!Put(b, q)
<1>1. Holds(all, b.dropped, s \o q)
  BY AppendHolds
<1>2. all \in Text /\ Len(all) \in Nat
  BY <1>1 DEF Holds, Text
<1>3. Cut(all) \in 0 .. Len(all) /\ Len(all) - Cut(all) <= Cap
  <2>1. CASE Len(all) > Cap
    <3> DEFINE from == Len(all) - Log!LowWater
    <3>1. from \in 0 .. Len(all) /\ Len(all) - from <= Cap
      BY <1>2, <2>1, CapFacts
    <3> HIDE DEF from
    <3>2. Log!LineEnd(all, from) \in 0 .. Len(all) /\ Log!LineEnd(all, from) >= from
      BY <1>2, <3>1, LineEndIn
    <3>3. Cut(all) = Log!LineEnd(all, from)
      BY <2>1 DEF Cut, from
    <3> QED
      BY <1>2, <3>1, <3>2, <3>3, CapFacts
  <2>2. CASE ~(Len(all) > Cap)
    BY <1>2, <2>2, CapFacts DEF Cut
  <2> QED
    BY <2>1, <2>2
<1>4. /\ IsBuf(put) /\ put.gen = b.gen /\ put.pending = b.pending
      /\ put.text = Log!From(all, Cut(all) + 1)
      /\ put.dropped = b.dropped + Log!Lines(SubSeq(all, 1, Cut(all)))
  BY PutFields
<1> HIDE DEF all, put
<1>5. /\ Holds(put.text, put.dropped, s \o q)
      /\ Len(put.text) = Len(all) - Cut(all)
  BY <1>1, <1>3, <1>4, CutHolds
<1>6. Len(put.text) <= Cap
  BY <1>3, <1>5
<1> QED
  BY <1>4, <1>5, <1>6 DEF put

Compact(b, cut) ==
  [b EXCEPT !.text = Log!From(@, cut + 1),
            !.dropped = @ + Log!Lines(SubSeq(b.text, 1, cut)),
            !.gen = @ + 1]

\* A compaction changes the text, the count and the generation.
LEMMA CompactFields ==
  ASSUME NEW b, IsBuf(b), NEW cut, NEW e, e = Compact(b, cut)
  PROVE  /\ IsBuf(e) /\ e.gen = b.gen + 1 /\ e.pending = b.pending
         /\ e.text = Log!From(b.text, cut + 1)
         /\ e.dropped = b.dropped + Log!Lines(SubSeq(b.text, 1, cut))
<1> DEFINE t == b.text
           d == b.dropped
           x == b.gen
           y == b.pending
           t2 == Log!From(t, cut + 1)
           d2 == d + Log!Lines(SubSeq(t, 1, cut))
           x2 == x + 1
<1>1. e = [b EXCEPT !.text = t2, !.dropped = d2, !.gen = x2]
  BY DEF Compact
<1>2. b = BufOf(t, d, x, y)
  BY DEF IsBuf
<1> HIDE DEF t2, d2, x2, t, d, x, y
<1>3. e = BufOf(t2, d2, x2, y)
  BY ONLY <1>1, <1>2 DEF BufOf
<1>4. IsBuf(e) /\ e.text = t2 /\ e.dropped = d2 /\ e.gen = x2 /\ e.pending = y
  BY ONLY <1>3, BufFields
<1> QED
  BY <1>4 DEF t2, d2, x2, t, d, x, y

\* A compaction forgets from the front, and moves the generation if it does.
LEMMA CompactHolds ==
  ASSUME NEW b, IsBuf(b), NEW s, Holds(b.text, b.dropped, s), Len(b.text) <= Cap, NEW n \in Nat
  PROVE  LET e == Log!CompactTo(b, n)
         IN  /\ Holds(e.text, e.dropped, s) /\ Len(e.text) <= Cap
             /\ IsBuf(e) /\ e.pending = b.pending
             /\ e = b \/ e.gen = b.gen + 1
<1> DEFINE at == Len(b.text) - n
           cut == IF at <= 0 THEN 0
                  ELSE IF b.text[at] = Log!LF THEN at ELSE Log!LineEnd(b.text, at)
           e == Log!CompactTo(b, n)
<1>1. b.text \in Text /\ Len(b.text) \in Nat
  BY DEF Holds, Text
<1>2. cut \in 0 .. Len(b.text)
  <2>1. CASE at <= 0
    BY <1>1, <2>1
  <2>2. CASE ~(at <= 0)
    <3>1. at \in 0 .. Len(b.text)
      BY <1>1, <2>2
    <3> HIDE DEF at
    <3>2. Log!LineEnd(b.text, at) \in 0 .. Len(b.text)
      BY <1>1, <3>1, LineEndIn
    <3> QED
      BY <2>2, <3>1, <3>2
  <2> QED
    BY <2>1, <2>2
<1>3. e = IF n = 0 \/ cut = 0 THEN b ELSE Compact(b, cut)
  BY DEF Log!CompactTo, Compact
<1> HIDE DEF at, cut, e
<1>4. CASE e = b
  BY <1>4 DEF e
<1>5. CASE e # b
  <2>1. e = Compact(b, cut)
    BY <1>3, <1>5
  <2>2. /\ IsBuf(e) /\ e.gen = b.gen + 1 /\ e.pending = b.pending
        /\ e.text = Log!From(b.text, cut + 1)
        /\ e.dropped = b.dropped + Log!Lines(SubSeq(b.text, 1, cut))
    BY <2>1, CompactFields
  <2>3. Holds(e.text, e.dropped, s) /\ Len(e.text) = Len(b.text) - cut
    BY <1>2, <2>2, CutHolds
  <2>4. Len(e.text) <= Cap
    BY <1>1, <1>2, <2>3, CapFacts
  <2> QED
    BY <2>2, <2>3, <2>4 DEF e
<1> QED
  BY <1>4, <1>5

\* A set of naturals with 0 and every successor has them all.
LEMMA Successors ==
  ASSUME NEW S, 0 \in S, \A n \in Nat : n \in S => n + 1 \in S
  PROVE  Nat \subseteq S
<1> DEFINE T == {n \in Nat : n \notin S}
<1> SUFFICES ASSUME T # {} PROVE FALSE
  OBVIOUS
<1>1. PICK m \in T : \A n \in T : m <= n
  <2>1. T \subseteq Nat
    OBVIOUS
  <2> HIDE DEF T
  <2> QED
    BY <2>1, FirstOf
<1>2. m # 0 /\ m - 1 \in Nat /\ ~(m <= m - 1) /\ (m - 1) + 1 = m
  OBVIOUS
<1>3. m - 1 \in S
  BY <1>1, <1>2
<1> QED
  BY <1>2, <1>3

\* What a loop over a chunk goes through.
LEMMA ConsumedSteps ==
  ASSUME NEW b, NEW p, Len(p) \in Nat
  PROVE  \E after : /\ after[0] = b
                    /\ \A i \in 1 .. Len(p) : after[i] = Log!Consume(after[i - 1], p, i)
                    /\ Log!Consumed(b, p) = after[Len(p)]
<1> DEFINE G(f, n) == f = [i \in 0 .. n |-> IF i = 0 THEN b ELSE Log!Consume(f[i - 1], p, i)]
           S == {n \in Nat : \E f : G(f, n)}
<1>1. 0 \in S
  <2> DEFINE f == [i \in 0 .. 0 |-> b]
  <2>1. G(f, 0)
    OBVIOUS
  <2> QED
    BY <2>1
<1>2. ASSUME NEW n \in Nat, n \in S PROVE n + 1 \in S
  <2>1. PICK f : G(f, n)
    BY <1>2
  <2> DEFINE g == [i \in 0 .. (n + 1) |-> IF i = n + 1 THEN Log!Consume(f[n], p, n + 1) ELSE f[i]]
  <2>2. ASSUME NEW i \in 0 .. (n + 1)
        PROVE  g[i] = IF i = 0 THEN b ELSE Log!Consume(g[i - 1], p, i)
    <3>1. CASE i = n + 1
      <4>1. n \in 0 .. (n + 1) /\ n # n + 1 /\ i # 0 /\ i - 1 = n
        BY <3>1
      <4> QED
        BY <3>1, <4>1
    <3>2. CASE i = 0
      BY <2>1, <3>2
    <3>3. CASE i # n + 1 /\ i # 0
      <4>1. i \in 0 .. n /\ i - 1 \in 0 .. (n + 1) /\ i - 1 # n + 1
        BY <3>3
      <4>2. f[i] = Log!Consume(f[i - 1], p, i)
        BY <2>1, <3>3, <4>1
      <4> QED
        BY <3>3, <4>1, <4>2
    <3> QED
      BY <3>1, <3>2, <3>3
  <2>3. g = [i \in 0 .. (n + 1) |-> g[i]]
    OBVIOUS
  <2> HIDE DEF g
  <2>4. G(g, n + 1)
    BY <2>2, <2>3
  <2> QED
    BY <2>4
<1>3. PICK f : G(f, Len(p))
  <2>1. Nat \subseteq S
    <3> HIDE DEF S
    <3> QED
      BY <1>1, <1>2, Successors
  <2> QED
    BY <2>1
<1> DEFINE after == CHOOSE f_1 : G(f_1, Len(p))
<1>4. G(after, Len(p))
  BY <1>3
<1>5. Log!Consumed(b, p) = after[Len(p)]
  BY DEF Log!Consumed
<1> HIDE DEF after
<1>6. after[0] = b
  BY <1>4
<1>7. \A i \in 1 .. Len(p) : after[i] = Log!Consume(after[i - 1], p, i)
  BY <1>4
<1> QED
  BY <1>5, <1>6, <1>7

\* The terminal goes through a chunk byte by byte.
LEMMA ShownSteps ==
  ASSUME NEW t, NEW p, Len(p) \in Nat
  PROVE  \E after : /\ after[0] = t
                    /\ \A i \in 1 .. Len(p) : after[i] = Log!Terminal(after[i - 1], p[i])
                    /\ Log!Shown(t, p) = after[Len(p)]
<1> DEFINE G(f, n) == f = [i \in 0 .. n |-> IF i = 0 THEN t ELSE Log!Terminal(f[i - 1], p[i])]
           S == {n \in Nat : \E f : G(f, n)}
<1>1. 0 \in S
  <2> DEFINE f == [i \in 0 .. 0 |-> t]
  <2>1. G(f, 0)
    OBVIOUS
  <2> QED
    BY <2>1
<1>2. ASSUME NEW n \in Nat, n \in S PROVE n + 1 \in S
  <2>1. PICK f : G(f, n)
    BY <1>2
  <2> DEFINE g == [i \in 0 .. (n + 1) |-> IF i = n + 1 THEN Log!Terminal(f[n], p[n + 1]) ELSE f[i]]
  <2>2. ASSUME NEW i \in 0 .. (n + 1)
        PROVE  g[i] = IF i = 0 THEN t ELSE Log!Terminal(g[i - 1], p[i])
    <3>1. CASE i = n + 1
      <4>1. n \in 0 .. (n + 1) /\ n # n + 1 /\ i # 0 /\ i - 1 = n
        BY <3>1
      <4> QED
        BY <3>1, <4>1
    <3>2. CASE i = 0
      BY <2>1, <3>2
    <3>3. CASE i # n + 1 /\ i # 0
      <4>1. i \in 0 .. n /\ i - 1 \in 0 .. (n + 1) /\ i - 1 # n + 1
        BY <3>3
      <4>2. f[i] = Log!Terminal(f[i - 1], p[i])
        BY <2>1, <3>3, <4>1
      <4> QED
        BY <3>3, <4>1, <4>2
    <3> QED
      BY <3>1, <3>2, <3>3
  <2>3. g = [i \in 0 .. (n + 1) |-> g[i]]
    OBVIOUS
  <2> HIDE DEF g
  <2>4. G(g, n + 1)
    BY <2>2, <2>3
  <2> QED
    BY <2>4
<1>3. PICK f : G(f, Len(p))
  <2>1. Nat \subseteq S
    <3> HIDE DEF S
    <3> QED
      BY <1>1, <1>2, Successors
  <2> QED
    BY <2>1
<1> DEFINE after == CHOOSE f_1 : G(f_1, Len(p))
<1>4. G(after, Len(p))
  BY <1>3
<1>5. Log!Shown(t, p) = after[Len(p)]
  BY DEF Log!Shown
<1> HIDE DEF after
<1>6. after[0] = t
  BY <1>4
<1>7. \A i \in 1 .. Len(p) : after[i] = Log!Terminal(after[i - 1], p[i])
  BY <1>4
<1> QED
  BY <1>5, <1>6, <1>7

\* The text under a byte: what a pending carriage return leaves of it.
Kept(t, c) == IF t.pending /\ c # Log!LF THEN Log!Erased(t.text) ELSE t.text

\* Byte k of the chunk belongs to a run that is put whole.
Plain(p, k) == k # 0 /\ p[k] # Log!CR /\ ~(p[k] = Log!LF /\ k > 1 /\ p[k - 1] = Log!CR)

\* After k bytes the buffer has those up to e: the rest of the run, or the line feed of
\* a CRLF.
Ahead(p, k, e) ==
  /\ e \in k .. Len(p)
  /\ k # 0 /\ p[k] = Log!CR => e = IF k < Len(p) /\ p[k + 1] = Log!LF THEN k + 1 ELSE k
  /\ Plain(p, k) => (\A j \in k + 1 .. e : p[j] # Log!CR) /\ (e = Len(p) \/ p[e + 1] = Log!CR)
  /\ k = 0 \/ (p[k] # Log!CR /\ ~Plain(p, k)) => e = k

At(r, t, p, k, e, gen0) ==
  /\ IsBuf(r) /\ Len(r.text) <= Cap /\ r.gen = gen0 /\ t.text \in Text
  /\ Ahead(p, k, e)
  /\ k # 0 => (t.pending <=> p[k] = Log!CR)
  /\ k < Len(p) => Holds(r.text, r.dropped, Kept(t, p[k + 1]) \o SubSeq(p, k + 1, e)) /\ ~r.pending
  /\ k = Len(p) => Holds(r.text, r.dropped, t.text) /\ (r.pending <=> t.pending)

\* A run ends at the chunk's end or before a carriage return, and holds none.
LEMMA RunEndIn ==
  ASSUME NEW p \in Text, NEW i \in 1 .. Len(p), p[i] # Log!CR
  PROVE  /\ Log!RunEnd(p, i) \in i .. Len(p)
         /\ \A j \in i .. Log!RunEnd(p, i) : p[j] # Log!CR
         /\ Log!RunEnd(p, i) = Len(p) \/ p[Log!RunEnd(p, i) + 1] = Log!CR
<1> DEFINE S == {j \in i .. Len(p) : p[j] = Log!CR}
           first == CHOOSE j \in S : \A k \in S : j <= k
<1>1. Len(p) \in Nat
  BY DEF Text
<1>2. Log!RunEnd(p, i) = IF S = {} THEN Len(p) ELSE first - 1
  BY DEF Log!RunEnd
<1>3. CASE S = {}
  <2>1. \A j \in i .. Len(p) : p[j] # Log!CR
    BY <1>3
  <2> HIDE DEF S, first
  <2> QED
    BY <1>1, <1>2, <1>3, <2>1
<1>4. CASE S # {}
  <2>1. first \in S /\ \A k \in S : first <= k
    <3>1. S \subseteq Nat
      BY <1>1
    <3> HIDE DEF S
    <3> QED
      BY <1>4, <3>1, FirstOf
  <2>2. first \in i + 1 .. Len(p) /\ p[first] = Log!CR
    BY <1>1, <2>1
  <2>3. ASSUME NEW j \in i .. first - 1 PROVE p[j] # Log!CR
    <3>1. j \in i .. Len(p) /\ ~(first <= j)
      BY <1>1, <2>2
    <3>2. j \notin S
      <4> HIDE DEF S, first
      <4> QED
        BY <2>1, <3>1
    <3> QED
      BY <3>1, <3>2
  <2> HIDE DEF S, first
  <2> QED
    BY <1>1, <1>2, <1>4, <2>2, <2>3
<1> QED
  BY <1>3, <1>4

\* No bytes are appended by an empty stretch of a chunk.
LEMMA Nothing ==
  ASSUME NEW s \in Text, NEW p \in Text, NEW k \in 0 .. Len(p)
  PROVE  s \o SubSeq(p, k + 1, k) = s
<1>1. SubSeq(p, k + 1, k) = <<>>
  BY DEF Text
<1> QED
  BY <1>1 DEF Text

\* A stretch of one byte.
LEMMA OneByte ==
  ASSUME NEW p \in Text, NEW i \in 1 .. Len(p)
  PROVE  SubSeq(p, i, i) = <<p[i]>>
<1>1. SubSeq(p, i, i) = [j \in 1 .. 1 |-> p[i]]
  BY DEF Text
<1> QED
  BY <1>1

\* The first byte of a stretch may be appended by itself.
LEMMA Shifted ==
  ASSUME NEW s \in Text, NEW p \in Text, NEW i \in 1 .. Len(p), NEW e \in i .. Len(p)
  PROVE  s \o SubSeq(p, i, e) = Append(s, p[i]) \o SubSeq(p, i + 1, e)
<1> DEFINE u == SubSeq(p, i, e)
           v == SubSeq(p, i + 1, e)
           w == Append(s, p[i])
<1>1. Len(s) \in Nat /\ Len(p) \in Nat /\ p[i] \in Nat
  BY DEF Text
<1>2. u \in Text /\ Len(u) = e - i + 1 /\ \A j \in 1 .. e - i + 1 : u[j] = p[i + j - 1]
  BY <1>1 DEF Text
<1>3. v \in Text /\ Len(v) = e - i /\ \A j \in 1 .. e - i : v[j] = p[i + j]
  BY <1>1 DEF Text
<1>4. /\ w \in Text /\ Len(w) = Len(s) + 1 /\ w[Len(s) + 1] = p[i]
      /\ \A j \in 1 .. Len(s) : w[j] = s[j]
  BY <1>1 DEF Text
<1> HIDE DEF u, v, w
<1> DEFINE x == s \o u
           y == w \o v
<1>5. /\ x \in Text /\ Len(x) = Len(s) + (e - i + 1)
      /\ \A j \in 1 .. Len(s) : x[j] = s[j]
      /\ \A j \in 1 .. Len(u) : x[Len(s) + j] = u[j]
  <2>1. u \in Text
    BY <1>2
  <2>2. /\ x \in Text /\ Len(x) = Len(s) + Len(u)
        /\ \A j \in 1 .. Len(s) : x[j] = s[j]
        /\ \A j \in 1 .. Len(u) : x[Len(s) + j] = u[j]
    BY <2>1 DEF Text
  <2> HIDE DEF x
  <2> QED
    BY <1>2, <2>2
<1>6. /\ y \in Text /\ Len(y) = Len(s) + 1 + (e - i)
      /\ \A j \in 1 .. Len(s) + 1 : y[j] = w[j]
      /\ \A j \in 1 .. Len(v) : y[(Len(s) + 1) + j] = v[j]
  <2>1. v \in Text /\ w \in Text
    BY <1>3, <1>4
  <2>2. /\ y \in Text /\ Len(y) = Len(w) + Len(v)
        /\ \A j \in 1 .. Len(w) : y[j] = w[j]
        /\ \A j \in 1 .. Len(v) : y[Len(w) + j] = v[j]
    BY <2>1 DEF Text
  <2> HIDE DEF y
  <2> QED
    BY <1>3, <1>4, <2>2
<1> HIDE DEF x, y
<1>7. Len(x) = Len(y)
  BY <1>1, <1>5, <1>6
<1>8. ASSUME NEW j \in 1 .. Len(x) PROVE x[j] = y[j]
  <2>1. CASE j \in 1 .. Len(s)
    BY <1>1, <1>4, <1>5, <1>6, <2>1
  <2>2. CASE j = Len(s) + 1
    <3>1. x[j] = u[1] /\ u[1] = p[i]
      BY <1>1, <1>2, <1>5, <2>2
    <3>2. y[j] = p[i]
      BY <1>1, <1>4, <1>6, <2>2
    <3> QED
      BY <3>1, <3>2
  <2>3. CASE j > Len(s) + 1
    <3> DEFINE z == j - (Len(s) + 1)
    <3>1. /\ z \in 1 .. e - i /\ z + 1 \in 1 .. e - i + 1 /\ i + (z + 1) - 1 = i + z
          /\ j = Len(s) + (z + 1) /\ j = (Len(s) + 1) + z
      BY <1>1, <1>5, <2>3
    <3>2. x[j] = u[z + 1]
      BY <1>2, <1>5, <3>1
    <3>3. y[j] = v[z]
      BY <1>3, <1>6, <3>1
    <3> HIDE DEF z
    <3> QED
      BY <1>2, <1>3, <3>1, <3>2, <3>3
  <2> QED
    BY <1>1, <1>5, <2>1, <2>2, <2>3
<1>9. x = y
  <2>1. x = [j \in 1 .. Len(x) |-> x[j]] /\ y = [j \in 1 .. Len(x) |-> y[j]]
    BY <1>5, <1>6, <1>7 DEF Text
  <2> QED
    BY <1>8, <2>1
<1> QED
  BY <1>9 DEF x, y, u, v, w

\* What a byte makes of the terminal.
LEMMA TerminalFields ==
  ASSUME NEW t, NEW c
  PROVE  LET u == Log!Terminal(t, c)
         IN  /\ u.text = IF c = Log!CR THEN Kept(t, c) ELSE Append(Kept(t, c), c)
             /\ u.pending <=> c = Log!CR
  BY DEF Log!Terminal, Kept

\* What a byte leaves of a text is a text.
LEMMA KeptText ==
  ASSUME NEW t, t.text \in Text, NEW c
  PROVE  Kept(t, c) \in Text
<1>1. PICK m : UpToLine(t.text, m)
  BY ErasedOf
<1>2. Log!Erased(t.text) \in Text
  BY <1>1 DEF UpToLine, Text
<1> QED
  BY <1>2 DEF Kept

\* What a byte makes of the buffer.
LEMMA ConsumeCases ==
  ASSUME NEW r, NEW p \in Text, NEW i \in 1 .. Len(p)
  PROVE  LET q == Log!Consume(r, p, i) IN
         /\ p[i] = Log!CR /\ i = Len(p) => q = Pend(r, TRUE)
         /\ p[i] = Log!CR /\ i < Len(p) /\ p[i + 1] = Log!LF => q = Log!Put(r, <<Log!LF>>)
         /\ p[i] = Log!CR /\ i < Len(p) /\ p[i + 1] # Log!LF => q = Log!EraseLine(r)
         /\ Plain(p, i) /\ ~Plain(p, i - 1) => q = Log!Put(r, SubSeq(p, i, Log!RunEnd(p, i)))
         /\ p[i] # Log!CR /\ ~(Plain(p, i) /\ ~Plain(p, i - 1)) => q = r
<1> DEFINE e(j) == j > 1 /\ p[j - 1] = Log!CR
           folded == p[i] = Log!LF /\ e(i)
           starts == i = 1 \/ e(i) \/ (p[i - 1] = Log!LF /\ e(i - 1))
<1>1. i \in Nat /\ i >= 1 /\ Len(p) \in Nat
  BY DEF Text
<1>2. p[i] # Log!CR => (Plain(p, i) <=> ~folded)
  BY <1>1 DEF Plain
<1>3. Plain(p, i) => (starts <=> ~Plain(p, i - 1))
  BY <1>1 DEF Plain
<1> QED
  BY <1>1, <1>2, <1>3 DEF Log!Consume, Plain, Pend

\* One byte of the chunk, in the buffer and on the screen.
LEMMA ByteStep ==
  ASSUME NEW r, NEW t, NEW p \in Text, NEW k \in Nat, k < Len(p), NEW e, NEW gen0,
         At(r, t, p, k, e, gen0), NEW i, i = k + 1
  PROVE  \E e2 : At(Log!Consume(r, p, i), Log!Terminal(t, p[i]), p, i, e2, gen0)
<1> DEFINE K == Kept(t, p[i])
           q == Log!Consume(r, p, i)
           u == Log!Terminal(t, p[i])
           next == p[i + 1]
<1>1. Len(p) \in Nat /\ i \in 1 .. Len(p) /\ i - 1 = k /\ p[i] \in Nat /\ i # 0 /\ k \in 0 .. Len(p)
  BY DEF Text
<1>2. /\ u.text = IF p[i] = Log!CR THEN K ELSE Append(K, p[i])
      /\ u.pending <=> p[i] = Log!CR
  BY TerminalFields
<1>3. K \in Text /\ u.text \in Text
  <2>1. K \in Text
    BY KeptText DEF At
  <2> HIDE DEF K
  <2> QED
    BY <1>1, <1>2, <2>1 DEF Text
<1>4. /\ IsBuf(r) /\ Len(r.text) <= Cap /\ r.gen = gen0 /\ ~r.pending
      /\ Holds(r.text, r.dropped, K \o SubSeq(p, i, e)) /\ Ahead(p, k, e)
  BY <1>1 DEF At
<1>5. /\ p[i] = Log!CR /\ i = Len(p) => q = Pend(r, TRUE)
      /\ p[i] = Log!CR /\ i < Len(p) /\ p[i + 1] = Log!LF => q = Log!Put(r, <<Log!LF>>)
      /\ p[i] = Log!CR /\ i < Len(p) /\ p[i + 1] # Log!LF => q = Log!EraseLine(r)
      /\ Plain(p, i) /\ ~Plain(p, k) => q = Log!Put(r, SubSeq(p, i, Log!RunEnd(p, i)))
      /\ p[i] # Log!CR /\ ~(Plain(p, i) /\ ~Plain(p, k)) => q = r
  BY <1>1, ConsumeCases
<1>6. Log!CR # Log!LF /\ Log!LF \in Nat
  BY DEF Log!CR, Log!LF
<1>7. e = k => Holds(r.text, r.dropped, K)
  <2>1. K \o SubSeq(p, k + 1, k) = K
    BY <1>1, <1>3, Nothing
  <2>2. e = k => K \o SubSeq(p, i, e) = K
    BY <2>1
  <2> QED
    BY <1>4, <2>2
<1> HIDE DEF K, q, u
<1>8. CASE p[i] = Log!CR
  <2>1. e = k
    BY <1>1, <1>4, <1>6, <1>8 DEF Ahead, Plain
  <2>2. Holds(r.text, r.dropped, K) /\ u.text = K /\ u.pending
    BY <1>2, <1>7, <1>8, <2>1
  <2>3. CASE i = Len(p)
    <3>1. /\ IsBuf(q) /\ q.gen = gen0 /\ q.pending = TRUE
          /\ q.text = r.text /\ q.dropped = r.dropped
      <4>1. q = Pend(r, TRUE)
        BY <1>5, <1>8, <2>3
      <4> QED
        BY <1>4, <4>1, PendingFields, Zenon
    <3>2. Ahead(p, i, i)
      BY <1>1, <1>8, <2>3 DEF Ahead, Plain
    <3>3. At(q, u, p, i, i, gen0)
      BY <1>1, <1>3, <1>4, <1>8, <2>2, <2>3, <3>1, <3>2 DEF At
    <3> QED
      BY <3>3 DEF q, u
  <2>4. CASE i < Len(p) /\ next = Log!LF
    <3>1. <<Log!LF>> \in Text
      BY <1>6 DEF Text
    <3>2. /\ Holds(q.text, q.dropped, K \o <<Log!LF>>) /\ Len(q.text) <= Cap
          /\ IsBuf(q) /\ q.gen = gen0 /\ q.pending = r.pending
      BY <1>4, <1>5, <1>8, <2>2, <2>4, <3>1, PutHolds
    <3>3. Ahead(p, i, i + 1)
      BY <1>1, <1>6, <1>8, <2>4 DEF Ahead, Plain
    <3>4. Kept(u, next) = K
      BY <2>2, <2>4 DEF Kept
    <3>5. K \o SubSeq(p, i + 1, i + 1) = K \o <<Log!LF>>
      <4>1. SubSeq(p, i + 1, i + 1) = <<p[i + 1]>>
        BY <1>1, <2>4, OneByte
      <4> QED
        BY <2>4, <4>1
    <3>6. ~q.pending
      BY <1>4, <3>2, Zenon
    <3>7. Holds(q.text, q.dropped, Kept(u, p[i + 1]) \o SubSeq(p, i + 1, i + 1))
      BY <3>2, <3>4, <3>5
    <3>8. At(q, u, p, i, i + 1, gen0)
      BY <1>1, <1>3, <1>8, <2>2, <2>4, <3>2, <3>3, <3>6, <3>7 DEF At
    <3> QED
      BY <3>8 DEF q, u
  <2>5. CASE i < Len(p) /\ next # Log!LF
    <3>1. IsBuf(q) /\ q.gen = gen0 /\ q.pending = r.pending /\ q.text = Log!Erased(r.text) /\ q.dropped = r.dropped
      BY <1>4, <1>5, <1>8, <2>5, EraseFields
    <3>2. Holds(q.text, q.dropped, Log!Erased(K)) /\ Len(q.text) <= Len(r.text)
      BY <2>2, <3>1, EraseHolds
    <3>3. Len(q.text) <= Cap
      <4>1. Len(q.text) \in Nat /\ Len(r.text) \in Nat
        BY <2>2, <3>2 DEF Holds, Text
      <4> QED
        BY <1>4, <3>2, <4>1, CapFacts
    <3>4. Ahead(p, i, i)
      BY <1>1, <1>6, <1>8, <2>5 DEF Ahead, Plain
    <3>5. Kept(u, next) = Log!Erased(K)
      BY <2>2, <2>5 DEF Kept
    <3>6. Log!Erased(K) \in Text
      BY <3>2 DEF Holds
    <3>7. Log!Erased(K) \o SubSeq(p, i + 1, i) = Log!Erased(K)
      BY <1>1, <3>6, Nothing
    <3>8. ~q.pending
      BY <1>4, <3>1, Zenon
    <3>9. Holds(q.text, q.dropped, Kept(u, p[i + 1]) \o SubSeq(p, i + 1, i))
      BY <3>2, <3>5, <3>7
    <3>10. At(q, u, p, i, i, gen0)
      BY <1>1, <1>3, <1>8, <2>5, <2>2, <3>1, <3>3, <3>4, <3>8, <3>9 DEF At
    <3> QED
      BY <3>10 DEF q, u
  <2> QED
    BY <1>1, <2>3, <2>4, <2>5
<1>9. CASE p[i] # Log!CR
  <2>1. u.text = Append(K, p[i]) /\ ~u.pending /\ Kept(u, next) = u.text
    BY <1>2, <1>9 DEF Kept
  <2>2. \E e2 \in i .. Len(p) :
          /\ Ahead(p, i, e2) /\ Holds(q.text, q.dropped, K \o SubSeq(p, i, e2))
          /\ IsBuf(q) /\ Len(q.text) <= Cap /\ q.gen = gen0 /\ ~q.pending
    <3>1. CASE ~Plain(p, i)
      <4>1. e = i /\ Ahead(p, i, i)
        BY <1>1, <1>4, <1>6, <1>9, <3>1 DEF Ahead, Plain
      <4> QED
        BY <1>1, <1>4, <1>5, <1>9, <3>1, <4>1
    <3>2. CASE Plain(p, i) /\ ~Plain(p, k)
      <4> DEFINE e2 == Log!RunEnd(p, i)
                 run == SubSeq(p, i, e2)
      <4>1. /\ e2 \in i .. Len(p) /\ \A j \in i .. e2 : p[j] # Log!CR
            /\ e2 = Len(p) \/ p[e2 + 1] = Log!CR
        BY <1>1, <1>9, RunEndIn
      <4>2. e = k
        BY <1>1, <1>4, <1>6, <1>9, <3>2 DEF Ahead, Plain
      <4> HIDE DEF e2
      <4>3. run \in Text
        BY <1>1, <4>1 DEF Text
      <4> HIDE DEF run
      <4>4. q = Log!Put(r, run)
        BY <1>5, <3>2 DEF run, e2
      <4>5. /\ Holds(q.text, q.dropped, K \o run) /\ Len(q.text) <= Cap
            /\ IsBuf(q) /\ q.gen = gen0 /\ q.pending = r.pending
        BY <1>4, <1>7, <4>2, <4>3, <4>4, PutHolds
      <4>6. Ahead(p, i, e2)
        BY <1>1, <1>9, <3>2, <4>1 DEF Ahead
      <4> QED
        BY <1>4, <4>1, <4>5, <4>6 DEF run
    <3>3. CASE Plain(p, i) /\ Plain(p, k)
      <4>1. e \in i .. Len(p)
        BY <1>1, <1>4, <1>9, <3>3 DEF Ahead
      <4>2. Ahead(p, i, e)
        BY <1>1, <1>4, <1>9, <3>3, <4>1 DEF Ahead
      <4> QED
        BY <1>4, <1>5, <1>9, <3>3, <4>1, <4>2
    <3> QED
      BY <3>1, <3>2, <3>3
  <2>3. PICK e2 \in i .. Len(p) :
          /\ Ahead(p, i, e2) /\ Holds(q.text, q.dropped, K \o SubSeq(p, i, e2))
          /\ IsBuf(q) /\ Len(q.text) <= Cap /\ q.gen = gen0 /\ ~q.pending
    BY <2>2
  <2>4. K \o SubSeq(p, i, e2) = u.text \o SubSeq(p, i + 1, e2)
    <3>1. K \o SubSeq(p, i, e2) = Append(K, p[i]) \o SubSeq(p, i + 1, e2)
      BY <1>1, <1>3, Shifted
    <3> QED
      BY <2>1, <3>1
  <2>5. i = Len(p) => u.text \o SubSeq(p, i + 1, e2) = u.text
    <3>1. i = Len(p) => e2 = i
      BY <1>1
    <3>2. i \in 0 .. Len(p)
      BY <1>1
    <3> QED
      BY <1>3, <3>1, <3>2, Nothing
  <2>6. At(q, u, p, i, e2, gen0)
    BY <1>1, <1>3, <1>9, <2>1, <2>3, <2>4, <2>5 DEF At
  <2> QED
    BY <2>6 DEF q, u
<1> QED
  BY <1>8, <1>9

\* A call of Write leaves the buffer with the end of what the screen shows then.
LEMMA WriteHolds ==
  ASSUME NEW b, IsBuf(b), NEW t, Holds(b.text, b.dropped, t.text), Len(b.text) <= Cap,
         b.pending <=> t.pending, NEW p \in Text
  PROVE  LET w == Log!WriteTo(b, p)
             u == Log!Shown(t, p)
         IN  /\ Holds(w.text, w.dropped, u.text) /\ Len(w.text) <= Cap
             /\ IsBuf(w) /\ (w.pending <=> u.pending)
             /\ w = b \/ w.gen = b.gen + 1
<1>0. Len(p) \in Nat
  BY DEF Text
<1>1. PICK shown : /\ shown[0] = t
                   /\ \A i \in 1 .. Len(p) : shown[i] = Log!Terminal(shown[i - 1], p[i])
                   /\ Log!Shown(t, p) = shown[Len(p)]
  BY <1>0, ShownSteps
<1> DEFINE w == Log!WriteTo(b, p)
           u == Log!Shown(t, p)
<1>2. CASE p = <<>>
  <2>1. w = b
    BY <1>2 DEF Log!WriteTo
  <2>2. u = t
    BY <1>1, <1>2
  <2> QED
    BY <2>1, <2>2
<1>3. CASE p # <<>>
  <2> DEFINE held == IF b.pending /\ p[1] # Log!LF THEN Log!EraseLine(b) ELSE b
             open == Log!Opened(held)
             g == b.gen + 1
  <2>1. Len(p) \in Nat /\ Len(p) # 0 /\ 1 \in 1 .. Len(p)
    BY <1>3 DEF Text
  <2>2. w = Log!Consumed(open, p)
    BY <1>3 DEF Log!WriteTo
  <2>3. PICK after : /\ after[0] = open
                     /\ \A i \in 1 .. Len(p) : after[i] = Log!Consume(after[i - 1], p, i)
                     /\ w = after[Len(p)]
    <3> HIDE DEF open, w
    <3> QED
      BY <2>1, <2>2, ConsumedSteps
  <2>4. /\ IsBuf(held) /\ Len(held.text) <= Cap /\ held.gen = b.gen
        /\ Holds(held.text, held.dropped, Kept(t, p[1]))
    <3>1. CASE b.pending /\ p[1] # Log!LF
      <4>1. /\ IsBuf(held) /\ held.gen = b.gen
            /\ held.text = Log!Erased(b.text) /\ held.dropped = b.dropped
        BY <3>1, EraseFields
      <4>2. Kept(t, p[1]) = Log!Erased(t.text)
        BY <3>1 DEF Kept
      <4> HIDE DEF held
      <4>3. Holds(held.text, held.dropped, Kept(t, p[1])) /\ Len(held.text) <= Len(b.text)
        BY <4>1, <4>2, EraseHolds
      <4>4. Len(held.text) \in Nat /\ Len(b.text) \in Nat
        BY <4>3 DEF Holds, Text
      <4>5. Len(held.text) <= Cap
        BY <4>3, <4>4, CapFacts
      <4> QED
        BY <4>1, <4>3, <4>5
    <3>2. CASE ~(b.pending /\ p[1] # Log!LF)
      <4>1. held = b /\ Kept(t, p[1]) = t.text
        BY <3>2 DEF Kept
      <4> QED
        BY <4>1
    <3> QED
      BY <3>1, <3>2
  <2>5. At(open, t, p, 0, 0, g)
    <3> HIDE DEF held
    <3>1. /\ IsBuf(open) /\ open.gen = held.gen + 1 /\ open.pending = FALSE
          /\ open.text = held.text /\ open.dropped = held.dropped
      BY <2>4, OpenedFields
    <3> HIDE DEF open
    <3>2. Kept(t, p[1]) \o SubSeq(p, 0 + 1, 0) = Kept(t, p[1])
      <4>1. Kept(t, p[1]) \in Text /\ 0 \in 0 .. Len(p)
        BY <2>1, <2>4 DEF Holds
      <4> QED
        BY <4>1, Nothing
    <3>3. Ahead(p, 0, 0)
      BY <2>1 DEF Ahead, Plain
    <3>4. t.text \in Text
      BY DEF Holds
    <3>5. ~open.pending
      BY <3>1, Zenon
    <3>6. open.gen = g /\ IsBuf(open) /\ Len(open.text) <= Cap
      BY <2>4, <3>1
    <3>7. Holds(open.text, open.dropped, Kept(t, p[0 + 1]) \o SubSeq(p, 0 + 1, 0))
      <4>1. Holds(open.text, open.dropped, Kept(t, p[1]))
        BY <2>4, <3>1, Zenon
      <4>2. Kept(t, p[0 + 1]) \o SubSeq(p, 0 + 1, 0) = Kept(t, p[1])
        <5>1. 0 + 1 = 1
          OBVIOUS
        <5> QED
          BY <3>2, <5>1, Zenon
      <4> QED
        BY <4>1, <4>2, Zenon
    <3> HIDE DEF g
    <3> QED
      BY <2>1, <3>3, <3>4, <3>5, <3>6, <3>7 DEF At
  <2> HIDE DEF g, open, held
  <2> DEFINE S == {k \in Nat : k <= Len(p) => \E e : At(after[k], shown[k], p, k, e, g)}
  <2>6. 0 \in S
    BY <1>1, <2>3, <2>5
  <2>7. ASSUME NEW k \in Nat, k \in S PROVE k + 1 \in S
    <3> SUFFICES ASSUME k + 1 <= Len(p) PROVE \E e : At(after[k + 1], shown[k + 1], p, k + 1, e, g)
      OBVIOUS
    <3>1. PICK e : At(after[k], shown[k], p, k, e, g)
      BY <2>1, <2>7
    <3>2. PICK i \in 1 .. Len(p) : i = k + 1 /\ i - 1 = k /\ k < Len(p)
      BY <2>1
    <3>3. after[i] = Log!Consume(after[k], p, i) /\ shown[i] = Log!Terminal(shown[k], p[i])
      BY <1>1, <2>3, <3>2
    <3>4. \E e2 : At(after[i], shown[i], p, i, e2, g)
      BY <3>1, <3>2, <3>3, ByteStep
    <3> QED
      BY <3>2, <3>4
  <2>8. Len(p) \in S
    <3> HIDE DEF S
    <3> QED
      BY <2>1, <2>6, <2>7, Successors
  <2>9. PICK e : At(w, u, p, Len(p), e, g)
    BY <1>1, <2>1, <2>3, <2>8
  <2> HIDE DEF w, u
  <2>10. /\ IsBuf(w) /\ Len(w.text) <= Cap /\ w.gen = g
         /\ Holds(w.text, w.dropped, u.text) /\ (w.pending <=> u.pending)
    BY <2>9 DEF At
  <2> QED
    BY <2>10 DEF g, w, u
<1> QED
  BY <1>2, <1>3

-----------------------------------------------------------------------------
\* What the watcher shows of the log.
WatcherOf(on, shown, at) == [on |-> on, shown |-> shown, gen |-> at]

Watching ==
  /\ watcher = WatcherOf(watcher.on, watcher.shown, watcher.gen)
  /\ ring.gen \in Nat /\ watcher.gen \in Nat /\ watcher.gen <= ring.gen
  /\ main.at # "watchtext" /\ watcher.gen = ring.gen => watcher.shown = Log!String(ring)
  /\ main.at \in {"watch", "watchtext", "watched"} /\ main.last => process # "running"
  /\ main.at = "watched" /\ main.last => watcher.shown = Log!String(ring) \/ process = "retired"
  /\ look.watched /\ ~watcher.on =>
       process # "running" /\ (watcher.shown = Log!String(ring) \/ process = "retired")

\* The buffer holds the end of what the screen shows, and owes the same carriage return.
Buffered ==
  /\ IsBuf(ring) /\ Len(ring.text) <= Cap
  /\ Holds(ring.text, ring.dropped, screen.text)
  /\ ring.pending <=> screen.pending

LogInv == Buffered /\ Watching

\* A log begins empty, as the terminal does.
LEMMA LogStarts == Log!LogInit => LogInv
<1> SUFFICES ASSUME Log!LogInit PROVE LogInv
  OBVIOUS
<1> DEFINE no == FALSE
<1>1. ring = BufOf(<<>>, 0, 0, no)
  BY DEF Log!LogInit, BufOf
<1> HIDE DEF no
<1>2. /\ IsBuf(ring) /\ ring.text = <<>> /\ ring.dropped = 0 /\ ring.gen = 0 /\ ring.pending = no
  BY <1>1, BufFields
<1>3. screen.text = <<>> /\ (screen.pending <=> no)
  BY DEF Log!LogInit, no
<1>4. Holds(<<>>, 0, <<>>)
  <2>1. <<>> \in Text /\ Len(<<>>) = 0
    BY DEF Text
  <2>2. Breaks(<<>>, 0) = {}
    BY DEF Breaks
  <2>3. Cardinality(Breaks(<<>>, Len(<<>>) - Len(<<>>))) = 0
    BY <2>1, <2>2, FS_EmptySet
  <2> QED
    BY <2>1, <2>3 DEF Holds
<1>5. Buffered
  <2>1. ring.pending <=> screen.pending
    BY <1>2, <1>3, Zenon
  <2>2. Len(ring.text) <= Cap
    BY <1>2, CapFacts
  <2> QED
    BY <1>2, <1>3, <1>4, <2>1, <2>2 DEF Buffered
<1>6. Watching
  <2>1. Log!String(ring) = <<>>
    BY <1>2 DEF Log!String
  <2>2. watcher = WatcherOf(look.watched, <<>>, 0) /\ main.at = "idle"
    BY DEF Log!LogInit, WatcherOf
  <2>3. watcher.shown = <<>> /\ watcher.gen = 0 /\ (watcher.on <=> look.watched)
    BY DEF Log!LogInit
  <2>4. watcher.on = look.watched
    BY DEF Log!LogInit
  <2>5. watcher = WatcherOf(watcher.on, watcher.shown, watcher.gen)
    BY <2>2, <2>3, <2>4
  <2> QED
    BY <1>2, <2>1, <2>2, <2>3, <2>5 DEF Watching
<1> QED
  BY <1>5, <1>6 DEF LogInv

\* Every step of the writer, of the job and of its viewers keeps the invariant.
LEMMA StepLog ==
  ASSUME LogInv, Log!LogNext \/ UNCHANGED logVars
  PROVE  LogInv'
<1> USE DEF LogInv
<1>1. ASSUME NEW p \in Chunks, Log!Writes(p) PROVE LogInv'
  <2>1. p \in Text
    BY LogConstants DEF Log!JobLogAssumptions, Text
  <2>2. /\ Holds(ring'.text, ring'.dropped, screen'.text) /\ Len(ring'.text) <= Cap
        /\ IsBuf(ring') /\ (ring'.pending <=> screen'.pending)
        /\ ring' = ring \/ ring'.gen = ring.gen + 1
    <3>1. ring' = Log!WriteTo(ring, p) /\ screen' = Log!Shown(screen, p)
      BY <1>1 DEF Log!Writes
    <3> QED
      BY <2>1, <3>1, WriteHolds DEF Buffered
  <2>3. Buffered'
    BY <2>2 DEF Buffered
  <2>4. /\ UNCHANGED <<main, watcher, process>> /\ process = "running"
        /\ look' = [look EXCEPT !.writes = @ - 1]
    BY <1>1 DEF Log!Writes
  <2>5. look'.watched = look.watched
    BY <2>4
  <2>6. Watching'
    BY <2>2, <2>4, <2>5 DEF Watching
  <2> QED
    BY <2>3, <2>6
<1>2. CASE Log!Ends
  BY <1>2 DEF Log!Ends, Buffered, Watching
<1>3. CASE Log!Retires
  <2>1. RetiredBytes \in Nat
    BY LogConstants DEF Log!JobLogAssumptions
  <2>2. /\ Holds(ring'.text, ring'.dropped, screen.text) /\ Len(ring'.text) <= Cap
        /\ IsBuf(ring') /\ ring'.pending = ring.pending
        /\ ring' = ring \/ ring'.gen = ring.gen + 1
    <3>1. ring' = Log!CompactTo(ring, RetiredBytes)
      BY <1>3 DEF Log!Retires
    <3> QED
      BY <2>1, <3>1, CompactHolds DEF Buffered
  <2>3. UNCHANGED <<screen, look, main, watcher>> /\ process = "done" /\ process' = "retired"
    BY <1>3 DEF Log!Retires
  <2>4. ring'.pending <=> screen'.pending
    BY <2>2, <2>3, Zenon DEF Buffered
  <2>5. Buffered'
    BY <2>2, <2>3, <2>4 DEF Buffered
  <2>6. Watching'
    BY <2>2, <2>3 DEF Watching
  <2> QED
    BY <2>5, <2>6
<1>4. CASE \/ \E other \in BOOLEAN : Log!SelectPaints(other)
           \/ Log!SelectReadsGen \/ Log!TickReadsGen \/ Log!TickPaints
  <2>1. UNCHANGED <<ring, screen, process, look, watcher>>
    BY <1>4 DEF Log!SelectPaints, Log!SelectReadsGen, Log!TickReadsGen, Log!TickPaints
  <2>2. main'.at \in {"select", "idle", "tick"} /\ main.at \in {"select", "idle", "tick"}
    BY <1>4 DEF Log!SelectPaints, Log!SelectReadsGen, Log!TickReadsGen, Log!TickPaints
  <2> QED
    BY <2>1, <2>2 DEF Buffered, Watching
<1>5. CASE Log!WatchTakesSnapshot
  <2>1. /\ UNCHANGED <<ring, screen, process, look, watcher>> /\ main.at = "idle"
        /\ main'.at = "watch" /\ (main'.last <=> process # "running")
    BY <1>5 DEF Log!WatchTakesSnapshot
  <2> QED
    BY <2>1 DEF Buffered, Watching
<1>6. CASE Log!WatchReadsGen
  <2> DEFINE on == watcher.on
             shown == watcher.shown
  <2>1. /\ UNCHANGED <<ring, screen, process, look>> /\ main.at = "watch"
        /\ main'.at = IF ring.gen = watcher.gen THEN "watched" ELSE "watchtext"
        /\ (main'.last <=> main.last)
        /\ watcher' = [watcher EXCEPT !.gen = ring.gen]
    BY <1>6 DEF Log!WatchReadsGen
  <2>2. watcher' = WatcherOf(on, shown, ring.gen)
    <3>1. watcher = WatcherOf(on, shown, watcher.gen)
      BY DEF Watching
    <3> HIDE DEF on, shown
    <3> QED
      BY <2>1, <3>1 DEF WatcherOf
  <2> HIDE DEF on, shown
  <2>3. watcher'.on = on /\ watcher'.shown = shown /\ watcher'.gen = ring.gen
    BY <2>2 DEF WatcherOf
  <2>4. watcher' = WatcherOf(watcher'.on, watcher'.shown, watcher'.gen)
    BY <2>2, <2>3
  <2>5. watcher'.on <=> watcher.on
    BY <2>3, Zenon DEF on
  <2>6. watcher'.shown = watcher.shown
    BY <2>3 DEF shown
  <2>7. Watching'
    BY <2>1, <2>3, <2>4, <2>5, <2>6 DEF Watching
  <2>8. Buffered'
    BY <2>1 DEF Buffered
  <2> QED
    BY <2>7, <2>8
<1>7. CASE Log!WatchPaints
  <2> DEFINE on == ~main.last
             shown == IF main.at = "watched" THEN watcher.shown ELSE Log!String(ring)
  <2>1. /\ UNCHANGED <<ring, screen, process, look>> /\ main.at \in {"watchtext", "watched"}
        /\ main'.at = "idle"
        /\ watcher' = [watcher EXCEPT !.on = on, !.shown = shown]
    BY <1>7 DEF Log!WatchPaints
  <2>2. watcher' = WatcherOf(on, shown, watcher.gen)
    <3>1. watcher = WatcherOf(watcher.on, watcher.shown, watcher.gen)
      BY DEF Watching
    <3> HIDE DEF on, shown
    <3> QED
      BY <2>1, <3>1 DEF WatcherOf
  <2> HIDE DEF on, shown
  <2>3. watcher'.on = on /\ watcher'.shown = shown /\ watcher'.gen = watcher.gen
    BY <2>2 DEF WatcherOf
  <2>4. watcher' = WatcherOf(watcher'.on, watcher'.shown, watcher'.gen)
    BY <2>2, <2>3
  <2>5. watcher'.on <=> ~main.last
    BY <2>3, Zenon DEF on
  <2>6. watcher'.shown = IF main.at = "watched" THEN watcher.shown ELSE Log!String(ring)
    BY <2>3 DEF shown
  <2>7. Watching'
    BY <2>1, <2>3, <2>4, <2>5, <2>6 DEF Watching
  <2>8. Buffered'
    BY <2>1 DEF Buffered
  <2> QED
    BY <2>7, <2>8
<1>8. CASE UNCHANGED logVars
  BY <1>8 DEF logVars, Buffered, Watching
<1> QED
  BY <1>1, <1>2, <1>3, <1>4, <1>5, <1>6, <1>7, <1>8 DEF Log!LogNext

\* The invariant says what the run checks.
LEMMA LogTold == LogInv => Log!LosesOnlyOldest /\ Log!WatchedToTheEnd
<1> SUFFICES ASSUME LogInv PROVE Log!LosesOnlyOldest /\ Log!WatchedToTheEnd
  OBVIOUS
<1> DEFINE s == screen.text
           text == ring.text
           gone == Len(s) - Len(text)
           rest == Log!From(s, gone + 1)
<1>1. /\ Holds(text, ring.dropped, s) /\ Len(text) <= Cap
  BY DEF LogInv, Buffered
<1> HIDE DEF s, text
<1>2. /\ text \in Text /\ s \in Text /\ Len(text) \in Nat /\ Len(s) \in Nat /\ gone \in 0 .. Len(s)
      /\ \A i \in 1 .. Len(text) : text[i] = s[gone + i]
      /\ ring.dropped = Cardinality(Breaks(s, gone))
  <2>1. text \in Text /\ s \in Text /\ Len(text) <= Len(s)
    BY <1>1 DEF Holds
  <2>2. Len(text) \in Nat /\ Len(s) \in Nat
    BY <2>1 DEF Text
  <2>3. gone \in 0 .. Len(s)
    BY <2>1, <2>2
  <2>4. /\ \A i \in 1 .. Len(text) : text[i] = s[gone + i]
        /\ ring.dropped = Cardinality(Breaks(s, gone))
    BY <1>1 DEF Holds
  <2> QED
    BY <2>1, <2>2, <2>3, <2>4
<1>3. Len(s) = gone + Len(text)
  BY <1>2
<1> HIDE DEF gone
<1>4. text = rest
  <2>1. /\ rest \in Text /\ Len(rest) = Len(text)
        /\ \A i \in 1 .. Len(text) : rest[i] = s[gone + i]
    BY <1>2, <1>3 DEF Log!From, Text
  <2> HIDE DEF rest
  <2>2. rest = [i \in 1 .. Len(text) |-> rest[i]] /\ text = [i \in 1 .. Len(text) |-> text[i]]
    BY <1>2, <2>1 DEF Text
  <2> QED
    BY <1>2, <2>1, <2>2
<1>5. ring.dropped = Log!Lines(SubSeq(s, 1, gone))
  BY <1>2, LinesOfPrefix
<1>6. gone >= 0
  BY <1>2
<1> HIDE DEF rest
<1>7. Log!LosesOnlyOldest
  BY <1>1, <1>4, <1>5, <1>6 DEF Log!LosesOnlyOldest, s, text, gone, rest
<1>8. Log!WatchedToTheEnd
  BY DEF LogInv, Watching, Log!WatchedToTheEnd
<1> QED
  BY <1>7, <1>8

\* However the output of a process is cut into writes, and whatever carriage returns it
\* redraws its progress with, the buffer holds the end of what a terminal without a limit
\* would show and counts the lines that are missing; and a watcher that has stopped by
\* itself shows the whole log of the finished job.
THEOREM LogCorrect == Spec => []LogTells
<1>1. Init => (part = "log" => LogInv)
  BY LogStarts DEF Init
<1>2. (part = "log" => LogInv) /\ [Next]_partsVars => (part = "log" => LogInv)'
  BY PartSteps, StepLog
<1>3. LogInv => Log!LosesOnlyOldest /\ Log!WatchedToTheEnd
  BY LogTold
<1> QED
  BY <1>1, <1>2, <1>3, PTL DEF Spec, LogTells
=============================================================================
