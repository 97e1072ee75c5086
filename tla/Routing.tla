------------------------------ MODULE Routing ------------------------------
(***************************************************************************)
(* Which model a job runs on, as whom, and who is asked before it bills:   *)
(* the pins and overrides (store.Settings, App.paramsFor), the resolution  *)
(* of a blank one (gfy.EffectiveBackend), the argv and the environment     *)
(* composed from the answer (gfy.Argv, jobs.SubmitCmd), the confirm in     *)
(* front of it (App.run, App.confirm), and the two paths that build the    *)
(* job again from its argv alone (retryJobFrom, restoredJob).              *)
(*                                                                         *)
(* A pin is a backend, "" when unset, or "auto"; a backend of "" is left   *)
(* to graphify, which detects one from the environment.                    *)
(***************************************************************************)
EXTENDS SequencesExt, Positions

CONSTANTS Repos,
          Envs,       \* [vendor, ollamaVar, opencode, claude, canStart : BOOLEAN]
          Pins,       \* [backend, heavy, deep, model]: settings the user may save
          Overrides,  \* [backend, model] of one repository
          Overlays,   \* values of GRAPHIFY_CLAUDE_CLI_MODEL, "" when not set
          ConfirmBatchAt,
          MaxFlips, MaxJobs  \* bounds: things saved or flipped, jobs listed

RoutingAssumptions == IsFiniteSet(Repos)

VARIABLES env,        \* what the board's own environment holds
          up,         \* the local model server answers
          pins, override, overlay,
          dialog,     \* the confirm on screen
          jobs,       \* queued, running and finished
          changes

routingVars == <<env, up, pins, override, overlay, dialog, jobs, changes>>

NoDialog == [what |-> "none"]
NoPin == [backend |-> "", model |-> ""]

RoutingInit ==
  /\ env \in Envs /\ up \in BOOLEAN
  /\ pins \in Pins /\ override \in [Repos -> {NoPin}] /\ overlay \in [Repos -> {""}]
  /\ dialog = NoDialog /\ jobs = <<>> /\ changes = 0

-----------------------------------------------------------------------------
\* The kind's own pin, then its weight's (both kinds are Heavy), then the general one.
BackendForKind(kind) ==
  LET Auto(b) == IF b = "auto" THEN "" ELSE b IN
  IF kind = "graft-deep" /\ pins.deep # "" THEN Auto(pins.deep)
  ELSE IF pins.heavy # "" THEN Auto(pins.heavy) ELSE pins.backend

HasVendorAPIKey == env.vendor \/ env.ollamaVar

EffectiveBackend(b) ==
  IF b # "" THEN b
  ELSE IF HasVendorAPIKey THEN ""
  ELSE IF env.opencode THEN "opencode"
  ELSE IF env.claude THEN "claude-cli"
  ELSE IF up THEN "ollama" ELSE ""

IsLocalBackend(b) == b = "ollama"

\* What graft's deep pass can be pointed at; "" when it cannot.
GraftTargetFor(backend) ==
  LET b == IF EffectiveBackend(backend) = "" THEN "ollama" ELSE EffectiveBackend(backend) IN
  IF b = "ollama" \/ (b = "opencode" /\ env.opencode) THEN b ELSE ""

\* The local run needs the server to name a model.
GraftDeepReady(b) == GraftTargetFor(b) # "" /\ (IsLocalBackend(GraftTargetFor(b)) => up)

CostFor(kind, b) ==
  IF kind = "graft-deep" /\ IsLocalBackend(EffectiveBackend(b)) THEN "free" ELSE "metered"

\* Where the process goes: graphify detects a backend it was not given.
Target(kind, b) ==
  IF kind = "graft-deep" THEN GraftTargetFor(b)
  ELSE IF b # "" THEN b
  ELSE IF env.vendor THEN "vendor" ELSE IF env.ollamaVar THEN "ollama" ELSE "none"

Bills(target) == target \notin {"ollama", "none"}

-----------------------------------------------------------------------------
\* paramsFor: the pin, under the repository's override, resolved, and sized to the
\* local server when that is what it resolved to.
ParamsFor(kind, r) ==
  LET b == EffectiveBackend(IF override[r].backend # "" THEN override[r].backend
                            ELSE BackendForKind(kind)) IN
  [backend |-> b,
   model   |-> IF override[r].model # "" THEN override[r].model
               ELSE IF b = "opencode" THEN "default" ELSE pins.model,
   sized   |-> IsLocalBackend(b)]

\* What the action does to the parameters of each row: an extraction nothing, the
\* local sweep names the backend, graft's deep pass the pin it read at the click.
Mutate(mutate, p) ==
  IF mutate = NoPin THEN p
  ELSE [p EXCEPT !.backend = mutate.backend,
                 !.model = IF mutate.model # "" THEN mutate.model ELSE @]

\* The pin says what the action costs, and so does every override; the pin's own
\* answer counts even when every row overrides it, as graft's deep pass puts the
\* pin back.
Costs(kind, rows) ==
  {LET o == override[rows[i]].backend IN CostFor(kind, IF o # "" THEN o ELSE BackendForKind(kind)) :
     i \in DOMAIN rows}
MutCostOf(kind, rows) == IF "metered" \in Costs(kind, rows) THEN "metered" ELSE "free"
CostOf(kind, rows) ==
  IF "metered" \in Costs(kind, rows) THEN "metered" ELSE CostFor(kind, BackendForKind(kind))

\* ClaudeCLIModelEnv: graphify's claude-cli reads its model from a variable only; one
\* the user's overlay sets wins.
ModelVar(r, b, m) == IF overlay[r] # "" THEN overlay[r] ELSE IF b = "claude-cli" THEN m ELSE ""

\* What is read back out of an argv: graft's deep pass names no --backend.
ArgvBackend(job) == IF job.kind = "graft-deep" THEN "" ELSE job.backend

\* PreflightOpenCode, and the precheck of a job on the local server.
Passes(job) ==
  /\ job.backend = "opencode" => env.opencode
  /\ job.local => up \/ env.canStart

\* SubmitCmd; asked and shown are what the person behind it was told.
SubmitCmd(kind, r, p, asked, shown) ==
  [kind    |-> kind, repo |-> r, backend |-> p.backend, model |-> p.model, sized |-> p.sized,
   target  |-> Target(kind, p.backend),
   cost    |-> CostFor(kind, p.backend), local |-> IsLocalBackend(p.backend),
   var     |-> ModelVar(r, p.backend, p.model),
   key     |-> kind = "graft-deep",
   status  |-> "queued", held |-> FALSE, asked |-> asked, shown |-> shown]

Submit(kind, rows, mutate, asked, shown) ==
  LET all == [i \in DOMAIN rows |->
                SubmitCmd(kind, rows[i], Mutate(mutate, ParamsFor(kind, rows[i])), asked, shown)] IN
  /\ Len(jobs) + Len(rows) <= MaxJobs
  /\ jobs' = jobs \o Picked(all, {i \in DOMAIN all : all[i].target # "" /\ Passes(all[i])})

\* run: nothing stands in front of a free action on a few rows; the confirm describes
\* the first row's command, backend and cost.
RunAction(kind, rows, mutate) ==
  /\ dialog = NoDialog
  /\ IF CostOf(kind, rows) = "metered" \/ (Len(rows) > 1 /\ Len(rows) >= ConfirmBatchAt)
     THEN /\ LET sample == Mutate(mutate, ParamsFor(kind, rows[1])) IN
               dialog' = [what |-> "run", kind |-> kind, rows |-> rows, mutate |-> mutate,
                          asked |-> CostFor(kind, sample.backend) = "metered",
                          shown |-> Target(kind, sample.backend)]
          /\ UNCHANGED jobs
     ELSE Submit(kind, rows, mutate, FALSE, "none") /\ UNCHANGED dialog
  /\ UNCHANGED <<env, up, pins, override, overlay, changes>>

Extract(rows) == RunAction("extract", rows, NoPin)

\* The sweep is refused unless the local server is ready.
ExtractLocalAll(rows) ==
  /\ up
  /\ RunAction("extract", rows, [backend |-> "ollama", model |-> pins.model])

DeepPin == [backend |-> GraftTargetFor(BackendForKind("graft-deep")), model |-> "default"]

GraftDeep(rows) ==
  /\ GraftDeepReady(BackendForKind("graft-deep"))
  /\ RunAction("graft-deep", rows, DeepPin)

-----------------------------------------------------------------------------
\* retryJob: the same argv under an environment composed now; what bills asks again.
RetryJobFrom(j) ==
  [j EXCEPT !.var = ModelVar(j.repo, ArgvBackend(j), j.model),
            !.status = "queued", !.held = FALSE]

Retry(i) ==
  /\ jobs[i].status = "done"
  /\ IF jobs[i].kind = "graft-deep"
     THEN /\ GraftDeepReady(BackendForKind("graft-deep"))
          /\ RunAction("graft-deep", <<jobs[i].repo>>, DeepPin)
     ELSE /\ dialog = NoDialog
          /\ LET j == RetryJobFrom(jobs[i]) IN
             IF j.cost = "metered" /\ ~j.local
             THEN dialog' = [what |-> "retry", job |-> [j EXCEPT !.asked = TRUE, !.shown = j.target]]
                  /\ UNCHANGED jobs
             ELSE /\ Len(jobs) < MaxJobs /\ Passes(j)
                  /\ jobs' = Append(jobs, j) /\ UNCHANGED dialog
          /\ UNCHANGED <<env, up, pins, override, overlay, changes>>

Answered ==
  /\ dialog # NoDialog /\ dialog' = NoDialog
  /\ \/ UNCHANGED jobs
     \/ /\ dialog.what = "run"
        /\ Submit(dialog.kind, dialog.rows, dialog.mutate, dialog.asked, dialog.shown)
     \/ /\ dialog.what = "retry" /\ Len(jobs) < MaxJobs /\ Passes(dialog.job)
        /\ jobs' = Append(jobs, dialog.job)
  /\ UNCHANGED <<env, up, pins, override, overlay, changes>>

-----------------------------------------------------------------------------
\* restoredJob: the environment is rebuilt from the argv; what bills comes back held,
\* and so does local work that had not started.
RestoredJob(j) ==
  IF j.status = "done" THEN j
  ELSE [j EXCEPT !.var = ModelVar(j.repo, ArgvBackend(j), j.model),
                 !.key = FALSE, !.status = "queued",
                 !.held = IF j.status = "running" THEN j.cost = "metered" /\ ~j.local
                          ELSE j.held \/ j.cost = "metered" \/ j.local]

\* The local jobs among those that would start are checked against the server.
Relaunch ==
  /\ changes < MaxFlips /\ changes' = changes + 1
  /\ jobs' = [i \in DOMAIN jobs |->
                LET j == RestoredJob(jobs[i]) IN
                [j EXCEPT !.held = @ \/ (j.status = "queued" /\ ~Passes(j))]]
  /\ dialog' = NoDialog
  /\ UNCHANGED <<env, up, pins, override, overlay>>

StartHeld(i) ==
  /\ jobs[i].status = "queued" /\ jobs[i].held
  /\ jobs' = [jobs EXCEPT ![i].held = FALSE, ![i].asked = TRUE, ![i].shown = jobs[i].target]
  /\ UNCHANGED <<env, up, pins, override, overlay, dialog, changes>>

JobMoves(i) ==
  /\ \/ jobs[i].status = "queued" /\ ~jobs[i].held /\ jobs' = [jobs EXCEPT ![i].status = "running"]
     \/ jobs[i].status = "running" /\ jobs' = [jobs EXCEPT ![i].status = "done"]
  /\ UNCHANGED <<env, up, pins, override, overlay, dialog, changes>>

\* The confirm is modal; the server is not its business.
Changed ==
  /\ changes < MaxFlips /\ changes' = changes + 1
  /\ \/ up' = ~up /\ UNCHANGED <<pins, override, overlay>>
     \/ /\ dialog = NoDialog /\ UNCHANGED up
        /\ \/ pins' \in Pins /\ UNCHANGED <<override, overlay>>
           \/ \E r \in Repos : \/ /\ \E o \in Overrides : override' = [override EXCEPT ![r] = o]
                                  /\ UNCHANGED <<pins, overlay>>
                               \/ /\ \E v \in Overlays : overlay' = [overlay EXCEPT ![r] = v]
                                  /\ UNCHANGED <<pins, override>>
  /\ UNCHANGED <<env, dialog, jobs>>

Batches == UNION {SetToSeqs(rs) : rs \in SUBSET Repos \ {{}}}

RoutingNext ==
  \/ \E rows \in Batches : Extract(rows) \/ ExtractLocalAll(rows) \/ GraftDeep(rows)
  \/ \E i \in DOMAIN jobs : Retry(i) \/ StartHeld(i) \/ JobMoves(i)
  \/ Answered \/ Relaunch \/ Changed

RoutingSpec == RoutingInit /\ [][RoutingNext]_routingVars

-----------------------------------------------------------------------------
Waiting(j) == j.status = "queued" /\ ~j.held

\* Nothing that bills is about to start unless somebody was told that it bills,
\* whatever the pins, the overrides and the server were when it was clicked,
\* confirmed, retried or restored (App.run: "the dialog that stands between a
\* click and a bill").
BillsOnlyAsked ==
  \A i \in DOMAIN jobs : Waiting(jobs[i]) /\ Bills(jobs[i].target) => jobs[i].asked

\* A model chosen for a claude-cli job is the one it runs on, or one the overlay names,
\* through retries and restarts: it never falls back to the login's own default.
ModelSurvives ==
  \A i \in DOMAIN jobs : Waiting(jobs[i]) /\ jobs[i].target = "claude-cli" /\ jobs[i].model # ""
                           => jobs[i].var \in {jobs[i].model} \cup (Overlays \ {""})

\* "The backend ... that will actually be used" is the one the confirm named.
BilledAsNamed ==
  \A i \in DOMAIN jobs : Waiting(jobs[i]) /\ Bills(jobs[i].target) => jobs[i].shown = jobs[i].target

\* What runs on the local server is in its lane, with the lease that keeps it up.
LocalIsLeased ==
  \A i \in DOMAIN jobs : Waiting(jobs[i]) /\ jobs[i].target = "ollama" => jobs[i].local

\* An extraction on the local server was sized to its context slot.
SizedToSlot ==
  \A i \in DOMAIN jobs :
    Waiting(jobs[i]) /\ jobs[i].kind = "extract" /\ jobs[i].local => jobs[i].sized

\* graft's deep pass is never dispatched without its credential variable.
DeepHasItsKey ==
  \A i \in DOMAIN jobs : Waiting(jobs[i]) /\ jobs[i].kind = "graft-deep" => jobs[i].key
=============================================================================
