------------------------------ MODULE Autofix ------------------------------
(***************************************************************************)
(* The automatic repair loop: the engine's memory (internal/autofix) and   *)
(* the board's side of it (autoFixTick, autoFixNow, fleetTick and the      *)
(* chains they submit, internal/ui). A pass is captured on the main thread *)
(* from the rows of the last scan, decided on a worker, and submitted back *)
(* on the main thread; the chains run beside everything else.              *)
(*                                                                         *)
(* There is no absolute clock. The code only ever compares an age with the *)
(* cooldown, the backoff or the window, so the state holds ages in ticks,  *)
(* up to the last one that makes a difference.                             *)
(***************************************************************************)
EXTENDS Heal, Integers, SequencesExt, Positions

CONSTANTS
  Order,         \* the repositories, in board order
  Tags,          \* members of the global graph, of what fleetTick repairs
  Enrollable,    \* repositories that are the canonical checkout under a root
  Excluded,      \* repositories with the X flag
  BilledPin,     \* whether the backend pinned for heavy work bills
  MaxRunning, Attempts, Cooldown, MeteredPerDay, Window,
  MaxFleet,      \* bound on the fleet passes in flight
  Scenarios      \* where a behaviour may start: the repositories and fleet subjects,
                 \* the settings to choose from, the kinds of harm that come to the
                 \* checkouts, and bounds on how much of it and on the user's clicks

Aged == Cooldown * Attempts
NoStamp == -1

ASSUME AutofixAssumptions ==
  /\ Order \in Seq(Range(Order))
  /\ \A s \in Scenarios : /\ s.repos \subseteq Range(Order) /\ s.repos \cap s.fleet = {}
                          /\ IsFiniteSet(s.fleet)
                          /\ {"repos", "fleet", "settings", "harm", "press", "pressed"} \subseteq DOMAIN s
  /\ {MaxRunning, Attempts, Cooldown, MeteredPerDay, Window} \subseteq Nat \ {0}
  /\ Window >= Aged

VARIABLES
  world,     \* what is true of a checkout: [graph, graft, member, stamp]
  there,     \* the checkouts a scan finds
  drifted,   \* the fleet's defects: how many checkouts the federation of a root misses,
             \* or that the source of a member is gone
  rows,      \* the board: what the last published scan saw
  scan,      \* what the scan in flight has read, or NoScan
  settling,  \* App.settling
  set,       \* the settings
  seen,      \* Engine.seen
  billed,    \* Engine.billed, as ages
  pass,      \* the pass in flight, which is autofixBusy, or NoPass
  fleet,     \* the fleet passes captured and not planned: the roots that were busy, the settings
  chains,    \* the command chains accepted and not finished
  budget,    \* the scenario, and what is left of its bounds
  spent,     \* history: the ages of the loop's chains that really bill
  quiet      \* history: ticks since the loop last reserved a repository or a root

env == <<world, there, drifted>>
board == <<rows, scan, settling, set>>
engine == <<seen, billed>>
history == <<spent, quiet>>
vars == <<env, board, engine, pass, fleet, chains, budget, history>>

Repos == DOMAIN world
Fleet == DOMAIN drifted
Subjects == Repos \cup Fleet

NoScan == <<>>
NoPass == [phase |-> "none"]
Drop(f, keys) == [k \in DOMAIN f \ keys |-> f[k]]
With(f, key, value) == [k \in DOMAIN f \cup {key} |-> IF k = key THEN value ELSE f[k]]

(***************************************************************************)
(* Signatures and plans (autofix.go)                                       *)
(***************************************************************************)
AllowMetered(pol) == pol.metered \/ pol.local

GraftCode(c, pol) ==
  IF ~pol.graft THEN {}
  ELSE IF c.graft \in {"stale", "broken"} THEN {"graft-" \o c.graft}
  ELSE If(pol.create /\ c.graft = "none", "graft-missing")

GlobalCode(c, pol) ==
  IF c.member = "stale" THEN {"global-stale"}
  ELSE If(/\ pol.enroll /\ c.member = "out" /\ c.repo \in Enrollable
          /\ JoinStep(c.graph) # <<>>, "global-out")

CandSig(c, pol) ==
  Issues(c.graph) \cup GraftCode(c, pol) \cup (IF pol.global THEN GlobalCode(c, pol) ELSE {})

\* A member is merged again whenever the steps before rewrite its graph.
GlobalSteps(c, pol, steps) ==
  IF ~pol.global THEN <<>>
  ELSE IF c.member = "out"
       THEN IF pol.enroll /\ c.repo \in Enrollable THEN JoinStep(c.graph) ELSE <<>>
  ELSE IF steps # <<>> THEN <<Step("global-add")>> ELSE GlobalStep(c.member)

GraftSteps(c, pol) ==
  IF GraftCode(c, pol) = {"graft-missing"} THEN GraftCreateStep(c.graft)
  ELSE IF GraftCode(c, pol) # {} THEN GraftStep(c.graft) ELSE <<>>

PlanFor(c, pol, allow) ==
  LET repair == For(c.graph, allow).steps
  IN repair \o GlobalSteps(c, pol, repair) \o GraftSteps(c, pol)

(***************************************************************************)
(* The engine's memory                                                     *)
(***************************************************************************)
NoRecord == [sig |-> {}, attempts |-> 0, age |-> Aged, running |-> FALSE,
             built |-> NoStamp, declared |-> FALSE]
Forgive(rec) == [NoRecord EXCEPT !.age = rec.age, !.running = rec.running]
Record(mem, key) == IF key \in DOMAIN mem THEN mem[key] ELSE NoRecord

AttemptCap(sig) ==
  IF sig \in {{"behind"}, {"global-stale"}, {"graft-missing"}} THEN 1 ELSE Attempts
Backoff(attempts) == IF attempts < 1 THEN Cooldown ELSE Cooldown * attempts
CoolingDown(rec) == rec.age < Backoff(rec.attempts)

MutRestamped(rec, sig, c) == sig = {"behind"} /\ rec.built # NoStamp
Restamped(rec, sig, c) == sig = {"behind"} /\ rec.built # NoStamp /\ rec.built # c.stamp

MutForgetHealthy(mem, key) == IF Record(mem, key).running THEN mem ELSE Drop(mem, {key})
ForgetHealthy(mem, key) ==
  LET rec == Record(mem, key)
  IN IF rec.running \/ rec.age < Cooldown THEN mem ELSE Drop(mem, {key})

\* A new defect, or a stamp that moved, is a fresh budget and not a fresh clock.
Renewed(rec, sig, moved) ==
  IF rec.sig # sig \/ moved THEN [rec EXCEPT !.attempts = 0, !.declared = FALSE] ELSE rec
Exhausted(rec, sig, moved) == rec.sig = sig /\ ~moved /\ rec.attempts >= AttemptCap(sig)
Reserved(rec, sig, stamp) ==
  [rec EXCEPT !.sig = sig, !.built = stamp, !.attempts = @ + 1, !.age = 0, !.running = TRUE]

MutBudgetSpent(ages) == Len(ages) > MeteredPerDay
BudgetSpent(ages) == Len(ages) >= MeteredPerDay

\* One turn of Plan's loop: acc is what the turns before have made of it.
PlanOne(acc, c, pol) ==
  LET rec == Record(acc.seen, c.repo)
      sig == CandSig(c, pol)
      full == PlanFor(c, pol, AllowMetered(pol))
      capped == Metered(full) /\ ~pol.local /\ BudgetSpent(acc.billed[c.repo])
      plan == IF capped THEN PlanFor(c, pol, FALSE) ELSE full
      bills == Metered(plan) /\ ~pol.local
      moved == Restamped(rec, sig, c)
      new == Renewed(rec, sig, moved)
  IN IF acc.inflight >= pol.max \/ c.excluded \/ c.busy THEN acc
     ELSE IF sig = {} THEN [acc EXCEPT !.seen = ForgetHealthy(@, c.repo)]
     ELSE IF plan = <<>> \/ rec.running \/ Exhausted(rec, sig, moved) THEN acc
     ELSE IF CoolingDown(new) THEN [acc EXCEPT !.seen = With(@, c.repo, new)]
     ELSE [seen |-> With(acc.seen, c.repo, Reserved(new, sig, c.stamp)),
           billed |-> IF bills THEN [acc.billed EXCEPT ![c.repo] = Append(@, 0)] ELSE acc.billed,
           acts |-> Append(acc.acts, [key |-> c.repo, steps |-> plan,
                                      local |-> pol.local /\ Metered(plan)]),
           inflight |-> acc.inflight + 1]

Running(mem) == {k \in DOMAIN mem : mem[k].running}

\* turn[i] is what the first i turns of the loop have made of it.
Plan(mem, bills, cands, pol) ==
  LET turn[i \in 0 .. Len(cands)] ==
        IF i = 0
        THEN [seen |-> mem, billed |-> bills, acts |-> <<>>, inflight |-> Cardinality(Running(mem))]
        ELSE PlanOne(turn[i - 1], cands[i], pol)
  IN turn[Len(cands)]

Stuck(mem, c, pol) ==
  /\ c.repo \in DOMAIN mem
  /\ LET rec == mem[c.repo]
     IN /\ ~rec.running /\ ~rec.declared
        /\ rec.attempts >= AttemptCap(rec.sig)
        /\ ~c.busy
        /\ CandSig(c, pol) = rec.sig
        /\ ~Restamped(rec, rec.sig, c)

Declare(mem, cands, pol) ==
  [k \in DOMAIN mem |->
     [mem[k] EXCEPT !.declared =
        @ \/ \E i \in DOMAIN cands : cands[i].repo = k /\ Stuck(mem, cands[i], pol)]]

Retry(mem, keys) ==
  [k \in {k \in DOMAIN mem : k \notin keys \/ mem[k].running} |->
     IF k \in keys THEN Forgive(mem[k]) ELSE mem[k]]
Reset(mem) == [k \in DOMAIN mem |-> Forgive(mem[k])]
Prune(mem, keep) == Drop(mem, {k \in DOMAIN mem : ~mem[k].running /\ k \notin keep})

\* reserve, and the loops of PlanFleet around it, for one root or member. Nobody
\* else declares a fleet record; FleetDone leaves its age alone.
PlanFleetOne(acc, key, busy, pol) ==
  LET rec == Record(acc.seen, key)
      sig == {"drift:" \o ToString(drifted[key])}
      new == Renewed(rec, sig, FALSE)
  IN IF acc.inflight >= pol.max \/ (key \notin Tags /\ ~pol.graft) THEN acc
     ELSE IF drifted[key] = 0
          THEN IF key \in Tags THEN acc ELSE [acc EXCEPT !.seen = ForgetHealthy(@, key)]
     ELSE IF (key \in busy /\ key \notin Tags) \/ rec.running THEN acc
     ELSE IF Exhausted(rec, sig, FALSE)
          THEN [acc EXCEPT !.seen = With(@, key, [rec EXCEPT !.declared = TRUE])]
     ELSE IF CoolingDown(new) THEN [acc EXCEPT !.seen = With(@, key, new)]
     ELSE [seen |-> With(acc.seen, key, Reserved(new, sig, NoStamp)),
           acts |-> Append(acc.acts, key), inflight |-> acc.inflight + 1]

PlanFleet(mem, busy, pol) ==
  LET keys == SetToSeq(Fleet \ Tags) \o SetToSeq(Fleet \cap Tags)
      turn[i \in 0 .. Len(keys)] ==
        IF i = 0
        THEN [seen |-> mem, acts |-> <<>>, inflight |-> Cardinality(Running(mem))]
        ELSE PlanFleetOne(turn[i - 1], keys[i], busy, pol)
  IN turn[Len(keys)]

(***************************************************************************)
(* The board's side                                                        *)
(***************************************************************************)
Chain(key, steps, owner) == [key |-> key, steps |-> steps, owner |-> owner, live |-> FALSE]

\* A job that is queued or running, by the runner or by the last event, or a
\* rescan that is still being settled. A chain between two jobs is neither.
Busy(key) == key \in settling \/ \E c \in chains : c.key = key /\ c.live

Candidate(r, row) ==
  [repo |-> r, graph |-> row.graph, graft |-> row.graft, member |-> row.member,
   stamp |-> row.stamp, excluded |-> r \in Excluded, busy |-> Busy(r)]
Candidates(view, scope) ==
  LET listed == Picked(Order, {i \in DOMAIN Order : Order[i] \in scope})
  IN [i \in DOMAIN listed |-> Candidate(listed[i], view[listed[i]])]

\* autoFixPolicy probes the local server on the worker, so up is its answer then.
Policy(s, up, max) ==
  [metered |-> s.metered, local |-> s.local /\ up, graft |-> s.graft, create |-> s.create,
   global |-> s.global, enroll |-> s.enroll, max |-> max]

\* autoFixToLocal: the pin wins as soon as metered fixes are on.
ToLocal(act, pol) == act.local /\ ~pol.metered
Bills(act, pol) == Metered(act.steps) /\ BilledPin /\ ~ToLocal(act, pol)

(***************************************************************************)
(* What happens to the checkouts                                           *)
(***************************************************************************)
Harm(w, h) ==
  CASE h = "well" -> w
    [] h = "edit" -> [w EXCEPT !.graph.drift = @ \/ w.graph.state = "built"]
    [] h = "commit" -> [w EXCEPT !.graph.behind = @ \/ w.graph.state = "built"]
    [] h = "flag" -> [w EXCEPT !.graph.needs = @ \/ w.graph.state = "built"]
    [] h = "unname" -> [w EXCEPT !.graph.comm = IF @ = "named" THEN "unnamed" ELSE @]
    [] h = "delete" -> [w EXCEPT !.graph = NoGraph]
    [] h = "graft" -> [w EXCEPT !.graft = "stale"]
    [] h = "ungraft" -> [w EXCEPT !.graft = "none"]

Init ==
  /\ budget \in Scenarios
  /\ world = [r \in budget.repos |->
                Harm([graph |-> HealthyGraph, graft |-> "ok", member |-> "in", stamp |-> 0],
                     budget.start)]
  /\ there = budget.repos
  /\ drifted = [f \in budget.fleet |-> 0]
  /\ rows = world
  /\ scan = NoScan
  /\ settling = {}
  /\ set \in budget.settings
  /\ seen = <<>>
  /\ billed = [r \in Repos |-> <<>>]
  /\ pass = NoPass
  /\ fleet = <<>>
  /\ chains = {}
  /\ spent = [r \in Repos |-> <<>>]
  /\ quiet = [k \in Subjects \ Tags |-> Cooldown]

Harmed(r) ==
  /\ budget.harm > 0
  /\ \E h \in budget.harms \ {"leave"} : world' = [world EXCEPT ![r] = Harm(@, h)]
  /\ world' # world
  /\ budget' = [budget EXCEPT !.harm = @ - 1]
  /\ UNCHANGED <<there, drifted, board, engine, pass, fleet, chains, history>>

LeaveOrReturn(r) ==
  /\ budget.harm > 0 /\ "leave" \in budget.harms
  /\ there' = IF r \in there THEN there \ {r} ELSE there \cup {r}
  /\ budget' = [budget EXCEPT !.harm = @ - 1]
  /\ UNCHANGED <<world, drifted, board, engine, pass, fleet, chains, history>>

FleetDrifts(f) ==
  /\ budget.harm > 0
  /\ drifted' = [drifted EXCEPT ![f] = @ + 1]
  /\ budget' = [budget EXCEPT !.harm = @ - 1]
  /\ UNCHANGED <<world, there, board, engine, pass, fleet, chains, history>>

\* One tick of time.
Older(age, top) == IF age < top THEN age + 1 ELSE age
Trimmed(ages) ==
  Picked([i \in DOMAIN ages |-> ages[i] + 1], {i \in DOMAIN ages : ages[i] + 1 < Window})
Tick ==
  /\ seen' = [k \in DOMAIN seen |-> [seen[k] EXCEPT !.age = Older(@, Aged)]]
  /\ billed' = [r \in Repos |-> Trimmed(billed[r])]
  /\ spent' = [r \in Repos |-> Trimmed(spent[r])]
  /\ quiet' = [k \in DOMAIN quiet |-> Older(quiet[k], Cooldown)]
  /\ UNCHANGED <<env, board, pass, fleet, chains, budget>>

(***************************************************************************)
(* The scan, and autoFixTick, which setRows ends with                      *)
(***************************************************************************)
ScanStarts ==
  /\ scan = NoScan
  /\ scan' = <<[r \in there |-> world[r]]>>
  /\ UNCHANGED <<env, rows, settling, set, engine, pass, fleet, chains, budget, history>>

FleetTick ==
  fleet' = IF set.enroll /\ Fleet # {} /\ Len(fleet) < MaxFleet
           THEN Append(fleet, [busy |-> {f \in Fleet : Busy(f)}, set |-> set]) ELSE fleet

ScanPublished ==
  /\ scan # NoScan
  /\ scan' = NoScan
  /\ rows' = scan[1]
  /\ IF ~set.on \/ pass # NoPass
     THEN UNCHANGED <<pass, fleet>>
     ELSE /\ FleetTick
          /\ pass' = IF scan[1] = <<>> THEN NoPass
                     ELSE [phase |-> "plan", cands |-> Candidates(scan[1], DOMAIN scan[1]), set |-> set,
                           now |-> FALSE]
  /\ UNCHANGED <<env, settling, set, engine, chains, budget, history>>

(***************************************************************************)
(* The worker: Prune and Plan, then Declare, each under the engine's lock  *)
(***************************************************************************)
\* A repository whose record is forgotten because it left the board is as one the
\* loop has never seen; its bill is not forgotten.
Charge(acts, pol, left) ==
  /\ spent' = [r \in Repos |->
       IF \E i \in DOMAIN acts : acts[i].key = r /\ Bills(acts[i], pol)
       THEN Append(spent[r], 0) ELSE spent[r]]
  /\ quiet' = [k \in DOMAIN quiet |-> IF \E i \in DOMAIN acts : acts[i].key = k THEN 0
                                      ELSE IF k \in left THEN Cooldown ELSE quiet[k]]

Keys(cands) == {cands[i].repo : i \in DOMAIN cands}

WorkerPlans ==
  /\ pass.phase = "plan"
  /\ ~pass.now
  /\ \E pol \in {Policy(pass.set, up, MaxRunning) : up \in BOOLEAN},
        kept \in {Prune(seen, Keys(pass.cands) \cup Fleet)} :
       \E out \in {Plan(kept, billed, pass.cands, pol)} :
          /\ seen' = out.seen
          /\ billed' = out.billed
          /\ pass' = [phase |-> "declare", cands |-> pass.cands, acts |-> out.acts, pol |-> pol]
          /\ Charge(out.acts, pol, DOMAIN seen \ DOMAIN kept)
  /\ UNCHANGED <<env, board, fleet, chains, budget>>

WorkerDeclares ==
  /\ pass.phase = "declare"
  /\ seen' = Declare(seen, pass.cands, pass.pol)
  /\ pass' = [phase |-> "submit", acts |-> pass.acts]
  /\ UNCHANGED <<env, board, billed, fleet, chains, budget, history>>

\* autoFixNow: every target at once, nothing pruned and nothing declared; no
\* plan when nothing is broken, or when whatever is broken is busy.
WorkerPlansNow ==
  /\ pass.phase = "plan"
  /\ pass.now
  /\ \E pol \in {Policy(pass.set, up, Len(pass.cands)) : up \in BOOLEAN} :
       LET idle == \E i \in DOMAIN pass.cands :
                     CandSig(pass.cands[i], pol) # {} /\ ~pass.cands[i].busy
       IN \E out \in {IF idle THEN Plan(seen, billed, pass.cands, pol)
                      ELSE [seen |-> seen, billed |-> billed, acts |-> <<>>]} :
          /\ seen' = out.seen
          /\ billed' = out.billed
          /\ pass' = [phase |-> "submit", acts |-> out.acts]
          /\ Charge(out.acts, pol, {})
  /\ UNCHANGED <<env, board, fleet, chains, budget>>

\* runAutoFix. A repository that has left the board gives its slot back.
Released(mem, keys) ==
  [k \in DOMAIN mem |-> IF k \in keys THEN [mem[k] EXCEPT !.running = FALSE, !.age = 0] ELSE mem[k]]

RunAutoFix ==
  /\ pass.phase = "submit"
  /\ pass' = NoPass
  /\ LET gone == {i \in DOMAIN pass.acts : pass.acts[i].key \notin DOMAIN rows}
     IN /\ seen' = Released(seen, {pass.acts[i].key : i \in gone})
        /\ chains' = chains \cup {Chain(pass.acts[i].key, pass.acts[i].steps, "loop") :
                                    i \in DOMAIN pass.acts \ gone}
  /\ UNCHANGED <<env, board, billed, fleet, budget, history>>

FleetPlans ==
  /\ fleet # <<>>
  /\ \E i \in DOMAIN fleet, up \in BOOLEAN :
       \E out \in {PlanFleet(Prune(seen, Repos \cup (Fleet \ Tags) \cup {t \in Fleet : drifted[t] > 0}),
                             fleet[i].busy, Policy(fleet[i].set, up, MaxRunning))} :
          /\ seen' = out.seen
          /\ chains' = chains \cup {Chain(out.acts[n], <<Step("fleet")>>, "loop") : n \in DOMAIN out.acts}
          /\ quiet' = [k \in DOMAIN quiet |-> IF k \in Range(out.acts) THEN 0 ELSE quiet[k]]
          /\ fleet' = RemoveAt(fleet, i)
  /\ UNCHANGED <<env, board, billed, pass, budget, spent>>

(***************************************************************************)
(* The chains. One job at a time, and nothing of the chain is in the       *)
(* runner before its first job and between two of them.                    *)
(***************************************************************************)
NextJob(c) ==
  /\ ~c.live /\ c.steps # <<>>
  /\ chains' = (chains \ {c}) \cup {[c EXCEPT !.live = TRUE]}
  /\ UNCHANGED <<env, board, engine, pass, fleet, budget, history>>

Rewrites(kind) == kind \in {"extract", "update", "cluster-only", "label"}
Rescans(kind) == kind \in {"extract", "update"}

\* What one clean exit can leave: what the command is for, or nothing changed.
Outcomes(s, w) ==
  {w} \cup
  CASE Rewrites(s.kind) ->
         {[w EXCEPT !.graph = g, !.member = IF @ = "in" THEN "stale" ELSE @,
                    !.stamp = IF w.graph.behind /\ ~g.behind THEN @ + 1 ELSE @] :
            g \in Effects(s, w.graph)}
    [] s.kind = "global-add" -> {[w EXCEPT !.member = "in"]}
    [] s.kind = "graft-build" -> {[w EXCEPT !.graft = "ok"]}

\* The event of the job, on the main thread, begins to settle what a rescan left.
JobSucceeds(c) ==
  /\ c.live
  /\ chains' = (chains \ {c}) \cup {[c EXCEPT !.live = FALSE, !.steps = Tail(@)]}
  /\ IF c.key \in Fleet
     THEN /\ \E n \in {0, drifted[c.key]} : drifted' = [drifted EXCEPT ![c.key] = n]
          /\ UNCHANGED <<world, settling>>
     ELSE /\ \E w \in Outcomes(Head(c.steps), world[c.key]) : world' = [world EXCEPT ![c.key] = w]
          /\ settling' = IF Rescans(Head(c.steps).kind) THEN settling \cup {c.key} ELSE settling
          /\ UNCHANGED drifted
  /\ UNCHANGED <<there, rows, scan, set, engine, pass, fleet, budget, history>>

\* A failed or cancelled job, or one the prechecks refuse, stops its chain.
JobFails(c) ==
  /\ c.steps # <<>>
  /\ chains' = (chains \ {c}) \cup {[c EXCEPT !.live = FALSE, !.steps = <<>>]}
  /\ UNCHANGED <<env, board, engine, pass, fleet, budget, history>>

\* The chain's callback: Done, or FleetDone, which leaves the age alone.
ChainDone(c) ==
  /\ c.steps = <<>> /\ ~c.live
  /\ chains' = chains \ {c}
  /\ seen' = IF c.owner = "user" THEN seen
             ELSE IF c.key \in Repos THEN Released(seen, {c.key})
             ELSE [seen EXCEPT ![c.key].running = FALSE]
  /\ UNCHANGED <<env, board, billed, pass, fleet, budget, history>>

\* ackDrift's callback. What it has settled is on disk; the scan it asks for
\* starts at once, or after the one that is already reading.
Settled(r) ==
  /\ r \in settling
  /\ settling' = settling \ {r}
  /\ UNCHANGED <<env, rows, scan, set, engine, pass, fleet, chains, budget, history>>

(***************************************************************************)
(* The user                                                                *)
(***************************************************************************)
Press == budget.press > 0 /\ budget' = [budget EXCEPT !.press = @ - 1, !.pressed = TRUE]
Calm(keys) == quiet' = [k \in DOMAIN quiet |-> IF k \in keys THEN Cooldown ELSE quiet[k]]

\* The Fix button plans afresh, outside the loop, and forgives the record.
FixPressed(r) ==
  /\ Press
  /\ r \in DOMAIN rows
  /\ ~ \E c \in chains : c.key = r /\ c.owner = "user"
  /\ \E allow \in BOOLEAN :
       LET plan == For(world[r].graph, allow).steps
       IN plan # <<>> /\ chains' = chains \cup {Chain(r, plan, "user")}
  /\ seen' = Retry(seen, {r})
  /\ Calm({r})
  /\ UNCHANGED <<env, board, billed, pass, fleet, spent>>

NowPressed ==
  /\ Press
  /\ pass = NoPass
  /\ \E scope \in SUBSET DOMAIN rows \ {{}} :
       /\ seen' = Retry(seen, scope)
       /\ pass' = [phase |-> "plan", cands |-> Candidates(rows, scope), set |-> set, now |-> TRUE]
       /\ Calm(scope)
  /\ UNCHANGED <<env, board, billed, fleet, chains, spent>>

SettingsSaved ==
  /\ Press
  /\ set' \in budget.settings
  /\ seen' = Reset(seen)
  /\ UNCHANGED <<env, rows, scan, settling, billed, pass, fleet, chains, history>>

(***************************************************************************)
(* The whole                                                               *)
(***************************************************************************)
Worker == WorkerPlans \/ WorkerPlansNow \/ WorkerDeclares \/ RunAutoFix
Chains == \E c \in chains : NextJob(c) \/ JobSucceeds(c) \/ JobFails(c) \/ ChainDone(c)

Next ==
  \/ \E r \in Repos : Harmed(r)
  \/ \E r \in Repos : LeaveOrReturn(r)
  \/ \E f \in Fleet : FleetDrifts(f)
  \/ Tick
  \/ ScanStarts \/ ScanPublished
  \/ WorkerPlans \/ WorkerPlansNow \/ WorkerDeclares \/ RunAutoFix
  \/ FleetPlans
  \/ \E c \in chains : NextJob(c)
  \/ \E c \in chains : JobSucceeds(c)
  \/ \E c \in chains : JobFails(c)
  \/ \E c \in chains : ChainDone(c)
  \/ \E r \in settling : Settled(r)
  \/ \E r \in Repos : FixPressed(r)
  \/ NowPressed
  \/ SettingsSaved

Spec == Init /\ [][Next]_vars

\* Time passes, the timer rescans, the worker and the runner get on with it.
Fairness ==
  /\ WF_vars(Tick)
  /\ WF_vars(ScanStarts \/ ScanPublished)
  /\ WF_vars(Worker)
  /\ WF_vars(FleetPlans)
  /\ WF_vars(Chains)
  /\ WF_vars(\E r \in settling : Settled(r))

FairSpec == Spec /\ Fairness

(***************************************************************************)
(* Properties                                                              *)
(***************************************************************************)
Pending == IF pass.phase \in {"declare", "submit"} THEN pass.acts ELSE <<>>
Owned == {c \in chains : c.owner = "loop"}

\* Every slot of the engine's memory is a chain the loop owes or has running, and
\* the other way round, one each: no chain runs unaccounted for, no slot is lost
\* to a Reset, a Retry, a Prune or a repository that left, and no repository has
\* two. Without a click on Auto-fix now there are never more than the maximum.
SlotsMatch ==
  /\ Running(seen) = {Pending[i].key : i \in DOMAIN Pending} \cup {c.key : c \in Owned}
  /\ Cardinality(Running(seen)) = Len(Pending) + Cardinality(Owned)
  /\ ~budget.pressed => Cardinality(Running(seen)) <= MaxRunning

\* In any window no repository has more billed chains than the day's budget,
\* whatever was forgotten, retried or reset meanwhile (DefaultMeteredPerDay).
BilledWithinBudget == \A r \in Repos : Len(spent[r]) <= MeteredPerDay

\* The two bounds of the loop at once: the concurrency and the bill.
BoundsHold == SlotsMatch /\ BilledWithinBudget

\* The loop does not reserve a repository or a root again inside the cooldown,
\* unless the user asked or the repository left the board: a repair that works, a
\* defect that changes and a change of settings are no way round it.
AttemptsSpaced ==
  [][\A k \in DOMAIN quiet :
       k \in Running(seen') \ Running(seen) => quiet[k] = Cooldown]_vars

\* A repository is not given up on while its checkout is in fact repaired: Declare
\* passes over the ones a rescan is still settling for exactly that.
GivesUpOnBroken ==
  [][\A r \in Repos \cap DOMAIN seen' :
       seen'[r].declared /\ ~Record(seen, r).declared /\ r \in there
         => CandSig(Candidate(r, world[r]), pass.pol) # {}]_vars

\* When nothing more happens to it a repository ends repaired and forgotten, or its
\* defect is declared, or there is nothing the settings, or a local model that
\* comes and goes, let the loop do about it.
Wanted(r, up) ==
  LET c == Candidate(r, world[r]) IN PlanFor(c, Policy(set, up, 1), AllowMetered(Policy(set, up, 1)))
Resting(r) ==
  \/ r \notin there \/ r \in Excluded \/ ~set.on
  \/ Record(seen, r).declared <=> Wanted(r, TRUE) # <<>>
  \/ Wanted(r, FALSE) = <<>>
FleetResting(f) == ~set.on \/ ~set.enroll \/ ~set.graft
                   \/ IF drifted[f] = 0 THEN ~Record(seen, f).declared \/ f \in Tags
                      ELSE Record(seen, f).declared
EndsRepairedOrSaid ==
  <>[]((\A r \in Repos : Resting(r)) /\ (\A f \in Fleet : FleetResting(f)))
=============================================================================
