-------------------------------- MODULE Heal --------------------------------
(***************************************************************************)
(* The remediation planner (internal/heal): which graphify commands, in    *)
(* which order, take a repository's graph from what it is to healthy, and  *)
(* what the plan cannot reach. It is a pure function of the graph's        *)
(* derived state (internal/graphstate/health.go), so this module has no    *)
(* variables. What the commands then do to a graph is external: it is      *)
(* modelled from what the planner and the board say they rely on.          *)
(***************************************************************************)
EXTENDS Sequences, FiniteSets

(***************************************************************************)
(* A derived graph, reduced to what Issues reads. comm is the communities: *)
(* "empty" is a graph without nodes, "none" one that was never clustered,  *)
(* "hub" one where enough names are hub symbols to buy a relabel. recent   *)
(* says that the LLM named them less than HubRelabelCooldown ago.          *)
(***************************************************************************)
Communities == {"empty", "none", "unnamed", "hub", "named"}
Graph == [state : {"none", "broken", "built"}, needs : BOOLEAN, drift : BOOLEAN,
          behind : BOOLEAN, comm : Communities, report : BOOLEAN, recent : BOOLEAN]

NoGraph == [state |-> "none", needs |-> FALSE, drift |-> FALSE, behind |-> FALSE,
            comm |-> "none", report |-> FALSE, recent |-> FALSE]
HealthyGraph == [NoGraph EXCEPT !.state = "built", !.comm = "named", !.report = TRUE]

If(cond, code) == IF cond THEN {code} ELSE {}

\* A graph that is missing or unreadable has that one issue; the order of the
\* list, worst first, is presentation.
Issues(g) ==
  CASE g.state = "none" -> {"no-graph"}
    [] g.state = "broken" -> {"broken"}
    [] g.state = "built" ->
         If(g.needs, "needs-extract") \cup If(g.drift, "drift") \cup If(g.behind, "behind")
         \cup If(g.comm = "none", "no-community") \cup If(g.comm = "unnamed", "unnamed")
         \cup If(g.comm = "hub", "hub-named") \cup If(~g.report, "no-report")

Healthy(g) == Issues(g) = {}

Step(kind) == [kind |-> kind, force |-> FALSE, noLabel |-> FALSE, missingOnly |-> FALSE]

\* gfy.CostOf over the kinds a plan can hold.
MeteredKinds == {"extract", "label"}
Metered(steps) == \E i \in DOMAIN steps : steps[i].kind \in MeteredKinds

FromScratch(i) == i \cap {"no-graph", "broken"} # {}

(***************************************************************************)
(* The first command: build the graph, or bring it up to the tree. Only    *)
(* the metered extraction answers graphify's own needs_update flag.        *)
(***************************************************************************)
Rebuild(i, allow) ==
  IF FromScratch(i)
  THEN <<[Step(IF allow THEN "extract" ELSE "update") EXCEPT !.force = "broken" \in i]>>
  ELSE IF "needs-extract" \in i /\ allow THEN <<Step("extract")>>
  ELSE IF i \cap {"drift", "needs-extract", "behind"} # {} THEN <<Step("update")>>
  ELSE <<>>

\* `update` clusters; `extract` stops at graph.json, so it is always followed.
Cluster(i, allow) ==
  LET first == Rebuild(i, allow)
      clustered == first # <<>> /\ first[1].kind = "update"
  IN IF ~clustered /\ (i \cap {"no-community", "no-report"} # {} \/ first # <<>>)
     THEN <<[Step("cluster-only") EXCEPT !.noLabel = TRUE]>>
     ELSE <<>>

Naming(i) == FromScratch(i) \/ i \cap {"unnamed", "no-community"} # {}

\* One label step at most: naming the unnamed ones alone, or every one when hub
\* names have to be replaced, which is not bought again within the cooldown.
Label(i, allow, recent) ==
  LET relabel == "hub-named" \in i /\ ~recent
  IN IF allow /\ (Naming(i) \/ relabel)
     THEN <<[Step("label") EXCEPT !.missingOnly = ~relabel]>>
     ELSE <<>>

\* What will still be wrong when the plan has run.
Unreachable(i, allow, recent) ==
  (IF ~FromScratch(i) /\ ~allow THEN i \cap {"needs-extract"} ELSE {})
  \cup (IF allow \/ ~Naming(i) THEN {}
        ELSE IF FromScratch(i) THEN {"unnamed"} ELSE i \cap {"unnamed", "no-community"})
  \cup (IF allow /\ ~recent THEN {} ELSE i \cap {"hub-named"})

For(g, allow) ==
  LET i == Issues(g)
  IN IF i = {} THEN [steps |-> <<>>, unreachable |-> {}]
     ELSE [steps |-> Rebuild(i, allow) \o Cluster(i, allow) \o Label(i, allow, g.recent),
           unreachable |-> Unreachable(i, allow, g.recent)]

(***************************************************************************)
(* The other indexes' one-step repairs: graft's index of a checkout, the   *)
(* copy in the cross-repository graph, and a root's federation. A member   *)
(* is never created and a root never federated unless the caller asks.     *)
(***************************************************************************)
GraftStep(graft) == IF graft \in {"stale", "broken"} THEN <<Step("graft-build")>> ELSE <<>>
GraftCreateStep(graft) == IF graft = "none" THEN <<Step("graft-build")>> ELSE <<>>
GlobalStep(member) == IF member = "stale" THEN <<Step("global-add")>> ELSE <<>>
JoinStep(g) == IF g.state = "built" THEN <<Step("global-add")>> ELSE <<>>
PruneStep == Step("global-remove")
WorkspaceStep(drifted) == IF drifted THEN <<Step("graft-build")>> ELSE <<>>

(***************************************************************************)
(* What one successful command can leave behind. A clustering renames      *)
(* every community it moved after its hub symbol; a labelling that fills   *)
(* gaps keeps those. An update whose topology did not move rewrites        *)
(* nothing, not even the commit, which the board then stamps itself        *)
(* unless the flag is up.                                                  *)
(***************************************************************************)
Clusterings(comm) == IF comm \in {"empty"} THEN {comm}
                     ELSE IF comm \in {"none", "unnamed"} THEN {"unnamed"}
                     ELSE {comm, "hub"}

Effects(s, g) ==
  CASE s.kind = "extract" ->
         {[NoGraph EXCEPT !.state = "built", !.comm = c, !.report = g.report, !.recent = g.recent] :
            c \in {"none", "empty"} \cup (Communities \cap {g.comm})}
    [] s.kind = "update" ->
         {[g EXCEPT !.state = "built", !.drift = FALSE, !.behind = g.needs /\ g.behind,
                    !.comm = c, !.report = TRUE] :
            c \in Clusterings(g.comm) \cup (IF g.state = "built" THEN {} ELSE {"empty"})}
    [] s.kind = "cluster-only" ->
         {[g EXCEPT !.comm = c, !.report = TRUE] : c \in Clusterings(g.comm)}
    [] s.kind = "label" ->
         {[g EXCEPT !.comm = IF @ \in {"unnamed"} \/ (@ = "hub" /\ ~s.missingOnly) THEN "named" ELSE @,
                    !.recent = TRUE]}
    [] OTHER -> {g}
=============================================================================
