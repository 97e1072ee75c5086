# ggraphify in TLA+

ggraphify is a Go program that keeps the graphify knowledge graphs of many
checkouts up to date: a GTK board shows one row per checkout, a runner
supervises the `graphify` processes that build and label graphs, a repair loop
decides by itself what to run, a lease counter starts and stops the local model
server, and two command-line tools do part of this headless. This directory
holds TLA+ models of it, the TLC runs that check them and the TLAPS proofs about
them. Paths below are relative to the repository's `src/`.

## 1. Inventory

| component | source | state it keeps | operations | hard behaviour | what makes it correct |
|---|---|---|---|---|---|
| Job runner | `internal/jobs/jobs.go` | queue, running set, reservations, lanes, per-job status, hold, pause, lease, process group | Submit, Restore, Release(All), SetLanes, Cancel, Pause, Resume, Close; scheduler, `run`, `reap` | six kinds of goroutine; the lock dropped around every signal and lease call; processes that outlive their leader | one writer per output directory; no billing without a click; leases follow processes; Cancel and Close end |
| Event stream | `emit`, `Close` (`jobs.go`), `pumpJobs`, `onJobEvent` (`internal/ui/ui.go`), the range loop of `cmd/ggraphify-job` | bounded channel, closed flag, the board's rows | emit, receive, close | events emitted after the unlock; a full channel; Close beside a parked send | no send on a closed channel, no lost end, newest job shown |
| Job history | `retire`, `compactRetired`, `dropFullLog` (`jobs.go`) | a ring of finished jobs, a list of full logs | retire | two windows of different size over the same jobs | latest jobs kept, recent failures readable, memory bounded |
| Command chains | `internal/jobs/chain.go` | step, result | SubmitChain | held steps wait for ever; steps fail in the middle | no step ahead of its predecessor, an honest result, no leak |
| Ollama life cycle | `internal/gfy/ollamactl.go`, `local.go`, `internal/ui/local.go` | lease count, idle timer, the record of what was started | Acquire, Suspend, Resume, Release, idle stop, Start/Stop buttons, Shutdown | decisions made under one mutex and carried out without it; two mutexes; servers that die by themselves | the count is the leases out; foreign servers are left alone; nothing outlives the board |
| Session persistence | `internal/ui/session.go` | the job list in the sidecar | persistJobs, restoreJobs | crash or quit with jobs queued, running or paused | nothing billed starts again unasked; what was queued is not lost |
| State sidecar | `internal/store/store.go` | settings, overrides, jobs; debounce timer, `saveErr`, `noSave` | Set*, schedule, Save, Flush, Open | setters that unlock before they schedule; several savers; failed saves nobody retries; a crash anywhere | the file moves forward only; nothing is lost silently; an unparsable file is kept |
| Heal planner | `internal/heal` | none | For and five smaller planners | – | the steps lead to a healthy graph, or the plan says what they cannot reach |
| Autofix engine | `internal/autofix`, `internal/ui/autofix.go`, `autofixnow.go`, `fleet.go` | a record per repository: attempts, clock, verdict, bill | Plan, Declare, Retry, Reset, Prune, fleet joins, the tick | a pass decided on a worker from rows that move on; budgets that a reset may renew | attempts are spaced, the bill is bounded, a defect ends repaired or declared |
| Graph scan, graft index, caches | `internal/graphstate`, `graftstate` | caches with generation stamps, drift baselines | Read, Invalidate, Prune, ackDrift, restamp, the sweeps | a scan overtaken by an invalidation; an edit during a build | nothing superseded is served; a repair clears its row |
| Global graph | `internal/globalgraph`, `internal/ui/globalpane.go`, `actions.go` | the manifest, the rows' membership | add, remove, resync | scans older than the command | at rest the rows say what the manifest does |
| Command building, prechecks, accounts | `internal/gfy/argv.go`, `env.go`, `ready.go`, `internal/jobs/precheck.go` | pins, overrides, overlays | a click to an argv, a cost and an environment; retry and relaunch rebuild it | a pin changed between the confirmation and the start | nothing bills that was not named as billed; the chosen model runs |
| OpenCode gateway | `internal/gfy/opencode*.go` | a proxy on one port, `providers.json` | verify, start or share the proxy, register | boards of different versions on one port and one file | the proxy behind an entry serves its plan; nobody's entry is dropped |
| Readiness | `internal/gfy/local.go`, `internal/ui/backend.go` | the probe's cache, the banner | probe, refresh, invalidate, start, stop | an answer older than the change it is about | nothing older is served; the banner comes down |
| Knowledge index | `internal/knowledge`, `internal/ui/knowledge.go`, `cmd` | `index.json`, a lock file | Sync, Put | several processes | nobody else's entry is dropped |
| Usage reports | `internal/usage` | offsets, pending calls, counters, a saved index | Update, Prune, Save, Load | files that grow, shrink and are replaced | what was read is counted once |
| Ring buffer and log views | `internal/ringbuf`, `internal/ui/jobsview.go`, `textsync.go` | bytes, generation; marks | Write, Compact, repaint | redraws, CRLF cut in two, a view between two writes | the oldest whole lines go and nothing else |
| Discovery | `internal/discover` | the listing and its key | Walk, Invalidate | links, cycles, depth | every checkout within reach is found |
| The board's window | `internal/ui/ui.go`, `columns.go`, `header.go`, `usage.go`, `detail.go`, `query.go`, `dock.go` | rows, list, panes, dock | setRows, filters, onJobEvent, tick | what changes behind a cached view | the view is the data |
| Viewers, global query tool, application log, doctor, layout | `internal/open`, `webview`, `graftart`, `tools`, `applog`, `doctor` | – | – | – | not modelled |

How they meet: the board and `ggraphify-job` call the runner; the runner calls
back through events (a channel) and through its `LocalLease` hook, which is
`AutoOllama.Acquire`; a chain is a caller of the runner with a goroutine of its
own, and the repair loop a caller of chains; a finished job passes through
`retire` and into the sidecar, invalidates the caches of its checkout and brings
a scan; on quit the window persists the jobs, closes the runner, calls
`AutoOllama.Shutdown` and flushes the store.

## 2. Modules

| module | what it models |
|---|---|
| `JobRunner` | The runner. One action is one section under `Runner.mu`, one signal or one lease call. |
| `ExclusiveJobs` | What the runner promises about the files: jobs with one resource take turns, and processes live only in their job's turn. `JobRunner!Implements` is the refinement. |
| `JobEvents` | The event stream, from a transition to the row on the board. |
| `JobHistory` | The ring of finished jobs and the list of full logs. |
| `JobChain` | The goroutine of a chain against the runner as it sees it, with `JobHistory` behind it: it EXTENDS that module, and every end of a job is also its retirement. |
| `Store` | The sidecar file: setters, debounce timer, Save, Flush, Open, crashes. |
| `AutoOllama` | Leases, timer, StartOllama, StopOllama, buttons, exit path and servers. |
| `Heal` | The planner: from a graph's defects to steps, without state. |
| `Autofix` | The repair loop: the engine, the tick and its worker, the fleet, the chains. EXTENDS `Heal`. |
| `GraphScan` | How a row comes by its state: scan, cache, baseline, restamp. |
| `Restart` | The job list across quits, crashes and relaunches, with the clicks that start work again. |
| `JobLog` | The ring buffer and the views over it. |
| `UsageIndex` | The incremental rollup of transcripts. |
| `KnowledgeIndex` | `index.json` and the processes that publish into it. |
| `Gateway` | OpenCode's plans: verification, proxy, providers.json. |
| `GraftIndex` | graft's index, its cache and the sweeps. |
| `GlobalGraph` | The manifest of the global graph, the rows and the Global screen. |
| `Routing` | From pins and overrides to what a job runs on, and who is asked. |
| `Readiness` | The cached probe of the model server and the banner. |
| `Discovery` | The walk for checkouts. |
| `RunnerView` | The runner as the window reads it; EXTENDed by the next two. |
| `Panes`, `Dock` | The Jobs and Query pages; the strip of jobs. |
| `BoardView` | The list with filter, sorter and cursor. |
| `Positions` | The loops that copy some elements of a slice in order, for `Restart`, `Routing`, `Dock` and `Autofix`. |
| `MCParts`, `MCSettling` | Compositions for TLC, below. |
| `MCJobRunner`, `MCJobEvents`, `MCAutoOllama`, `MCIdleOllama`, `MCAutofix` | Constants for TLC; `MCIdleOllama` puts one server under each of its owners. |
| `JobRunnerProofs`, `AutoOllamaProofs`, `JobEventsProofs`, `JobChainProofs`, `StoreProofs`, `AutofixProofs` | Theorems and proofs about the module of that name; `JobChainProofs` has those about `JobHistory` too, `AutoOllamaProofs` one about the owners of `MCIdleOllama`. |
| `PartsProofs` | Theorems about the parts of `MCParts`: `Gateway`, `KnowledgeIndex`, `GraftIndex`, `GlobalGraph`, `Restart`, `Routing`, `Dock`, `UsageIndex`, `JobLog`. |
| `SettlingProofs` | Theorems about the parts of `MCSettling`: `BoardView`, `Panes`, `GraphScan`, `Readiness`, `Discovery`. |

The parts that meet only through their effects are checked together in two
compositions, `MCParts` (safety) and `MCSettling` (with liveness): a variable
`part` says whose behaviour it is, that part's module is an INSTANCE over its own
variables, and the others stand still. The state space is the union of the
parts', not their product. In `MCSettling` the variables of the moving part are
`moving`, and each fairness condition of the composition collects one condition of every
part; since only one part has steps, it is exactly that part's fairness. Where
parts do interact they are in one module: `Autofix` with `Heal`, `JobChain` with
`JobHistory`, `Panes` and `Dock` with `RunnerView`, the scan with its cache and
the event that invalidates it.

### JobRunner and the code

The variables are the fields of `Runner` and `Job`, the program counters of the
goroutines of a job (`run`, `reaper`, `pauser`), its process group (`leader`,
`straggler`, `stopped`) and four history variables that only properties read.

* `Dispatch` is `dispatch` and `pick`: the first queued job that is not held,
  whose lane has room and whose reservation is free. `DispatchNone`, `CheckIdle`,
  `Woken` and `Tick` are the rest of `loop`, with its idle test under a lock of
  its own.
* `TakeLease` … `Finish` follow `run` statement by statement: lease, start,
  wait, terminate what is left of the group, give the lease back, report.
  `WaitReaps` and `WaitReturns` are two actions because `cmd.Wait` reaps the
  leader before it returns and a signal may fall in between.
* `ReaperTerms`, `ReaperSeesGone`, `ReaperKills`, `ReaperSeesExit` are `reap`,
  with both of its channels ready at once where the code allows it.
* `Pause`/`SigStop`/`SuspendLease`/`RecordPause`/`AbandonPause`/`HandOverLane`
  and `Resume`/`ResumeLease`/`SigCont`/`RecordResume` are `setPaused` and
  `handOverLane`, cut where the lock is dropped. At most one toggle per job is
  in flight, as `togglePause` in `ui/actions.go` ensures.
* `CloseBegin` … `CloseReturn` are `Close`, with the snapshot `CancelAll`
  iterates over going stale as it does.
* `LeaderExits` and `StragglerExits` are graphify: it may exit with either
  outcome, ignore SIGTERM, leave children, or run for ever.

Left out here and modelled in `JobEvents`: emits, which block on a full channel
(`JobEvents` shows that they do not block Close). A process group keeps its
identity for good; reuse of its number is not modelled.

### AutoOllama and the code

`a.mu` and `ollamaStart`'s mutex are never held together, so what is read under
one is stale under the other. The model keeps every such read (`seen`, `claim`)
in a variable of the reader. `timer` is the field, `loose` the armed timers it
has lost track of. `Route` is what `ollamaRoute` returns: `detached` (a process
group the board knows by pid) or `unit` (`systemctl --user`). A server that finds
the port taken exits, as Ollama does.

### JobEvents, JobHistory, JobChain and the code

In `JobEvents` a transition leaves its snapshot with the goroutine that made it
(`carries`), which then takes emitMu (`Enter`) and sends (`Send`). `EmitOutput`
is the log nudge, which never waits. `Receive` is `pumpJobs` followed by
`onJobEvent`: GLib runs idle callbacks in order, so the two are one step.
`StopReading` is `ggraphify-job` leaving its range loop. `CancelAll` is one step
here and job by job in `JobRunner`.

`JobHistory` numbers jobs in order of retirement and keeps of each whether it
failed. `JobChain` has the chain's goroutine in full; of the runner it keeps the
status of the chain's jobs and whether the runner is closing. `OtherEnds` is the
end of a job outside the chain.

### Store and the code

A state of the sidecar is represented by the number of the last change it holds;
numbers go on across sessions, 0 is `Defaults()`. `Change` is any setter up to its
unlock, `Schedule` the call that follows; `Main` is the GTK thread, which runs
nearly all of them, `Scanner` the goroutine of a refresh with its
`PruneDriftBaselines`. Setters that return early because nothing changed take no
step. `Fire` starts a goroutine of the timer; `LockSave`, `Snapshot`, `Rename` or
`SaveFails`, and `Record` are `Save` around `save`, which `Main` runs for `Flush`
when the main loop is over. `Crash` is the death of the process at any point; the
loss of a rename in a power failure is not modelled. `Damage` makes the file
unparsable (`Garbled`) or unreadable (`Unreadable`) while no board runs.

### Autofix, Heal and the code

`Autofix` keeps the split of `autoFixTick`: `ScanPublished` captures rows and
policy on the main thread, `WorkerPlans` and `WorkerDeclares` decide beside it, `RunAutoFix`
submits. `seen` is the engine's map with one record per key (attempts, age,
signature, declared, running), `billed` its list of billed starts; both hold ages
in ticks instead of times. `Harm`, `LeaveOrReturn`, `FleetDrifts` and `SettingsSaved` are
what happens around it, `FixPressed` and `NowPressed` the two buttons. Left out:
worktrees whose graft index alone is repaired, the error text in the sidecar,
pins that follow another; a job's end and its event are one step, and `runFix`
plans from the graph as it is at the confirm.

### GraphScan, GraftIndex, GlobalGraph and the code

`GraphScan` follows one checkout: files with a version and a time of change,
graphify reading and writing, `ScanLooks` to `ScanFinds` around the cache's
stamp, `OnJobEvent` and `AckSteps` after a job. mtime granularity, the size cap and
commit-only drift are left out; the static half and the drift of a read are one
step. `GraftIndex` has the same cache over graft's directory, read by the scans
and by the worker, with `SweepGraftDeep` and its confirmation; its TTL by size, the hash budget
and the git check are left out. `GlobalGraph` has the manifest with its tags,
scans that land in the order they end, and the queue of add and remove commands;
`mergeChecked` and `runList` are left out.

### Restart, Routing, Gateway, Readiness and the code

`Restart` is `persistJobs`, `trimJobs`, `restoredJob` and `resumeInterrupted`
with the clicks before and after; a job starts whenever it is queued and not
held (the lanes are `JobRunner`'s) and a save may come at any time (the file is
`Store`'s). `Routing` composes a job as `paramsFor`, `CostFor`, `Argv` and `SubmitCmd`
do and rebuilds it as `retryJobFrom` and `restoredJob` do. The update and label
commands, `ollama-cloud` and `openai-compatible` pins, account choice and the
network preflight are left out. `Gateway` has boards and headless runs of two
versions around one port and one file; the user's edits during a submit and the
forwarding of bodies are left out. `Readiness` is `ProbeLocal` with its epoch
and background refresh, `StartOllama` and `StopOllama` as the callers that
invalidate, and `backendVerdict`; two cache keys are one.

### The indexes, the log, the walk and the window

`UsageIndex` numbers lines by the time they were written. A pass is cut where it
leaves the files alone: the stat and the tail's print are one step (`Looks`), the
read and the print of the new tail another (`Reads`), and a transcript may grow or be
rewritten between the two. A call that has waited longer than `PendingTTL` is given
up when a pass starts. Two fields are history that only the properties read: `late`,
the calls given up, and `torn`, that a transcript was rewritten between a look and
its read. The listing cache, graft session counters and the cap of 256 waiting calls
(`maxPending`) are left out. `KnowledgeIndex` has any processes that sync what their
scan covers and any that put the one entry they built, under the flock. `JobLog` keeps bytes as numbers, with LF and CR
as themselves. `Discovery` walks depth first with links and `visited`, a stack
standing for the recursion; names, origins and heads are left out, and `still`,
which only properties read, says that nothing changed during a walk. `BoardView` has one action per callback of the
list; column widths, the search text and batch selection are left out. `Panes` and `Dock` EXTEND
`RunnerView`; held jobs and lane changes are left out of both. In `Panes` every change
of state is announced (`emit`); events of different jobs arrive in any order, those of
one job in the order they were sent: that they may not is what `JobEvents` and the run
`row_stuck` are about.

## 3. Runs

`tlc -config X.cfg M` for the pairs below. The first nine pass.

| run | module, cfg | instance | properties |
|---|---|---|---|
| `pair` | MCJobRunner, pair.cfg | two local extractions of one checkout, two local lanes, stragglers, 3 gestures | `OutputExclusive`, `LeaseCoversProcess`, `PauseMatchesProcess`, `LeaseReturned`, `NothingOutlivesClose` |
| `billed` | MCJobRunner, billed.cfg | two billed jobs, metered lane 1 or 2, 3 gestures | `LaneBound`, `NeverUnasked`, `NoLostWakeup` |
| `exclusive` | MCJobRunner, exclusive.cfg | `global add` and `global remove` of two checkouts, two free lanes, stragglers, 2 gestures | `Implements` |
| `ends` | MCJobRunner, ends.cfg | one local job, 5 gestures, fairness | `CancelEnds`, `CloseReturns` |
| `idle` | MCIdleOllama, idle.cfg | five owners of the server: the board with one job, with two, with the buttons, on the systemd route, and the headless command; fairness | `CountsLeases`, `NothingOutlivesOwner`, `NeverStopsForeign`, `IdleStopsOnBoard` |
| `rows` | MCJobEvents, rows.cfg | two jobs of one checkout, one of them restored, a channel of one slot, one toggle, fairness | `NeverSendsOnClosed`, `NewestShown`, `EventsEnd` |
| `autofix` | MCAutofix, autofix.cfg | eight scenarios of harm, settings and clicks; up to two repositories, or one with a root and a member, for one slot; fairness | `BoundsHold`, `AttemptsSpaced`, `EndsRepairedOrSaid` |
| `parts` | MCParts, parts.cfg | the nine parts below | `LogTells`, `NeverBilledUnasked`, `QueueSurvives`, `ReadIsCounted`, `NoneDropped`, `AcceptedIsServed`, `CachedIsCurrent`, `MembershipShown`, `RoutingTells`, `DockTells` |
| `settling` | MCSettling, settling.cfg | the seven parts below, fairness | `ChainTells`, `HistoryKept`, `SavedOrSaid`, `WindowTells`, `ScanKeeps`, `FileKept`, `ChainEnds`, `EventuallySaved`, `WindowSettles` |
| `stays_up` | MCAutoOllama, stays_up.cfg | two jobs | `StaysUpForLeases` is violated |
| `row_stuck` | MCJobEvents, row_stuck.cfg | one job | `NoRowStuck` is violated |
| `billed_cap` | MCAutofix, billed_cap.cfg | one repository, metered fixes and the local model both on, a billed pin | `BilledWithinBudget` is violated |

The parts of `parts`: a log of 6 bytes with up to 5 writes; two jobs of two
checkouts, a sidecar that keeps one finished job, one crash; a transcript over 4
ticks with a retention of 3 and a `PendingTTL` of 1; an index of two
checkouts of which the scans of the board and of `ggraphify-scan` both cover one, and
a job that puts the entry of either; a board and a peer of either version with two plans and two
submits; two checkouts with two runs of graft; two repositories with a tag each and 3
commands; two machines, three sets of pins, one change; two jobs in the dock.
The parts of `settling`: a chain of 3 steps among 7 jobs with a ring of 4 and 2 full logs; 2
changes of the state file with two callbacks; one checkout with two files, of
three different allowances of edits, commits, builds and moves; two jobs on a page; two
paths with a filter, a group and a sorter and two moves of the world; four
directories with a link aside and a link up; two back ends and two changes.

### Bounds, and why they are enough

* `MaxGestures` bounds the clicks on Pause, Resume, Cancel, SetLanes and Close
  together. Submit, Release and Restore bound themselves. Three gestures with
  two jobs are a pause, its resume and a cancel or close, which puts each
  goroutine of a job against each of the others; `ends` has five because a
  single job may be paused and resumed twice before it is cancelled and closed.
  The safety properties hold for any number of gestures by proof.
* Two jobs suffice for the reservations and the lanes because every rule of
  `pick` relates a job to the set of the others, never to a third through a
  second; the proofs remove the bound.
* Two servers let a second start replace the record of a first. `MaxTakes`
  bounds the leases, `MaxClicks` the buttons.
* A channel of one slot makes every send able to wait; a larger one only
  delays that. `MaxToggles` bounds the pause clicks; each click only adds an
  event of a job that runs.
* Seven retirements through a ring of four wrap it after it has filled and fill
  the list of two full logs in all of its positions, behind every chain of three
  steps. The program has 200 and 10, and `HoldsTheLatest` is proved for every size.
* Three steps give a chain a first, a middle and a last one; its proofs hold for
  any length.
* Two changes let one be on disk and one in a snapshot or in memory;
  two callbacks and Flush are three savers in line for `saveMu`. Crashes,
  restarts and failures are not bounded, and the proofs are for any number.
* In `autofix` the cooldown is 1 tick, a window 3, the budget 1 billed chain, the
  cap 2 attempts: each limit can be reached, passed and forgotten again within the
  harms a scenario allows. The scenarios exist because their product is out of
  reach; each says which rules it sets against each other.
* A ring of 6 bytes is shorter than two of the pieces and longer than the others,
  so that a write evicts nothing, a line, or everything.
* A chain of four directories with depth 3 has a checkout at, above and below the
  limit, reached directly and through the link, and a cycle where the last of them is
  walked into; the proof is for any tree, options and depth.
* Two versions, two plans and two processes give the proxy an owner that does not
  serve what the other asks for, and one that leaves.
* Two jobs and two events on their way let the end of the older job pass the event of
  the newer, and both pass a tick or a change of page (`MaxEvents` stands for the
  channel's slots); the proof is for any number of either.
* One edit or commit and one build set every overlap of an edit, a build, a
  scan and an acknowledgement; the allowances keep them apart from moves of the checkout.

The cfgs set `CHECK_DEADLOCK FALSE` because the program does stop: after Close
has returned or the exit path has ended, and when the bounds are used up.

### Fairness

Assumed: goroutines get to run (weak fairness of each of the runner's
goroutines, of the lease holders' calls, of the chain, of the savers, of the consumer while it
reads); grace periods end, because they are timers; timers and the window's
ticks fire; a scan, a probe or a pass that has begun ends, and graphify ends where a repair
is in question; a server told
to terminate exits; Close is called by the one goroutine that then finishes it. `JobEvents`
adds that a running job of a closed runner ends, which is what `ends` shows of
`JobRunner`.
`Send` has strong fairness: Go queues the senders parked on a channel and serves
them in order, so one of them is not overtaken for ever by output events, whose
non-blocking send cannot pass a queue of waiting senders. `Ages` (a cached entry
grows older than its time to live) and `Forget` (the walk's cache is dropped by
the periodic full refresh) have it because time passes whatever else goes on.

Not assumed: that anybody clicks, that a process ever ends by itself or reacts
to SIGTERM, that a held job is released, that a job of a chain ends, that the
consumer goes on reading, that the scheduler's kick arrives.

## 4. What the runs show

* **No two writers.** Reservation alone would not do it: a leader may leave
  children writing. `OutputExclusive` speaks of living processes and holds
  because `run` empties the group before it reports. `Implements` says the same
  as a refinement: between its turn's begin and end a job is alone.
* **Leases follow processes.** A process that needs the server and can execute
  holds a lease in every window of a pause and a resume, and no job is reported
  finished with one out, whatever toggle was in flight at its exit.
* **Money.** No billed job starts that nobody submitted or released since the
  program started; `handOverLane` never passes the metered lane.
* **Lanes.** A lane exceeds its highest limit only by jobs resumed into it. That
  much is what `Pause`'s comment concedes; see the divergences.
* **The scheduler needs no tick.** `NoLostWakeup`: it never sleeps without a
  pending wake-up while it could start a job or leave.
* **Cancel and Close end**, from every phase, for a process that ignores
  SIGTERM, with a channel nobody reads and emits parked on it.
* **Model server.** The count is the number of leases out under any order of
  suspends, resumes and releases; a server its user started survives on the
  detached route; nothing outlives a board with one job or the headless command,
  and an idle server is stopped.
* **Events.** No send on the closed channel, no lost end, no row of an older job.
* **History.** Index arithmetic of the ring, and the two windows on full logs.
* **Sidecar.** The file on disk never goes back, whoever saves last, through
  crashes and restarts; a quit loses nothing it does not report; a change made
  while a save is running is saved by the next one; a file that does not parse
  is kept.
* **Chains.** No step ahead, an honest report, no goroutine left once the runner
  closes.
* **The repair loop.** Its slots are its chains; billed chains stay within the
  day's budget as long as the local model is off (see the findings); no repository is
  attempted twice within the cooldown, whatever was repaired, forgotten or
  changed in between; and every defect the settings allow it to repair ends
  repaired or declared, with clicks, overtaken restamps and checkouts that leave.
* **Rows.** Nothing read before an invalidation is kept after it, in either
  cache; a repair nobody disturbs clears its row, through the acknowledgement and
  the scan that follow it.
* **Relaunch.** One consent covers one start, over crashes, retries and a bounded
  list; queued work survives a quit.
* **Files shared by processes.** No entry of another is dropped, in the knowledge
  index and in providers.json; an accepted submit has a proxy that serves its plan.
* **Billing.** What is confirmed as free does not bill for as long as it waits, and the chosen model survives
  a retry and a relaunch.
* **The walk.** One row for each directory however many links lead to it, a row for
  nothing else, and, where no directory is met at two depths, a row for every
  checkout within the depth.
* **Views.** Log, list, panes, dock, membership and banner show what they were
  told, and come to show what is there.

### Findings

`stays_up`: `idleStop`, and `give` for a pause, decide to stop with the count at
zero under `a.mu` and call `StopOllama` after dropping it. A lease taken in
between finds the server answering, starts none, and loses it (`ollamactl.go`
444), against "While at least one lease is out the server stays up".

`row_stuck`: Submit, Release, handOverLane and setPaused emit after dropping the
lock, so their event can enter the channel behind the job's terminal one, and
`onJobEvent` accepts an older event of the same job (`ui.go` 1157). The row stays
"queued" or "running" until the next full redraw.

`billed_cap`: `Plan` counts a chain against the day's budget only with the local
model off, and `autoFixToLocal` leaves a billed pin alone when metered fixes are
on. With both on the chain bills and is not counted (`autofix.go` 545 against
48-49).

Stated in the modules as properties, refuted by TLC on the part's own instance,
and without a run here (a run can be had by naming the property in a cfg):

* `AutoOllama!IdleStops` with two jobs: the give that comes last may have read
  the record before the other's start was recorded and arms no timer
  (`ollamactl.go` 401 against 176-177 and 400). A click on Start whose server is
  slow to answer, and a start beside a server that does not answer yet, leave a
  server nobody remembers.
* `GraphScan!FreshIsTrue`: the baseline taken after a run acknowledges drift that
  the run did not see, and the row says fresh (`drift.go` 81-110 against 59-61 and
  85-87).
* `Restart!PausedStaysHeld`: onJobEvent returns on a pause before persistJobs
  (`ui.go` 1165-1188 against `session.go` 239), and a crash forgets it.
* `UsageIndex!CountedOnce`: `ggraphify-scan` and the board list different accounts
  and save into one index, after which events are counted again (against
  `transcript.go` 41-43). With one program TLC finds it to hold, rewrites between a
  look and its read included.
* `UsageIndex!FailureSurvives`: a pending call "has to survive between scans"
  (`failure.go` 274), and one that waits longer than two hours does not: the pass
  that reads its failed result counts no failure. The comment on `pendingTTL`
  (`failure.go` 284-287) accepts that for a session that ended; it also happens to
  one whose answer comes late.
* `UsageIndex!RewritesNoticed`: a transcript that does not carry its print any more
  "was rewritten, not appended to" (`transcript.go` 36-39) and starts over. The
  print is compared before the read (`index.go` 400-428), so a rewrite between the
  two goes unnoticed: the read goes on from the old offset in the new file, and
  the print taken at its end fits. Lines before that offset which no pass had read
  are never counted. It takes a line written, another behind it, and a rewrite that
  drops the one that had been read.
* `JobLog!RenderedExactly`: `appendDelta` compares only the edges of a text
  (`textsync.go` 57-59).
* `Discovery!WalkFindsAll`: `walkRoot` marks a directory as seen at whatever depth it
  is met first (`discover.go` 279). Met first at the depth limit its children are cut
  off; met again nearer to a root it is skipped, and a checkout within the depth has no
  row. With depth 2 a root inside another is enough (top, and top/aa, with the checkout
  top/aa/bb/cc), or a link that sorts before the directory it leads to (top/aa/link to
  top/bb, with the checkout top/bb/cc): against "Walk finds every checkout under
  opts.Roots" (225) and "each is walked independently" (78).
* `Autofix!GivesUpOnBroken`: a checkout repaired between the capture of a pass and its verdict is
  declared.
* `Gateway!FindsItsGateway`: restoredJob does not call EnsureOpenCodeProvider
  (`opencode.go` 927-930). `RunsTheCheckedModel`: the entry may be rewritten for
  another model before the job starts (1342-1344). `PricedAsRun`: likewise its price.
* `GraftIndex!SweepsOnlyNeeded`: the filter at the click reads the rows of the
  last scan (`ui/graft.go` 363-366).
* `GlobalGraph!NothingReplacedUnasked`: the repair loop adds without the clash
  question (`ui/autofix.go` 454 against `README.md` 192-194).
* `Routing`: what a confirm names is what bills (`BilledAsNamed`, `actions.go`
  233-239), a local run is in the local lane with its lease (`LocalIsLeased`,
  `jobs.go` 83-90), an extraction is sized to the server's slot (`SizedToSlot`,
  `gfy/local.go` 214-222) and a deep pass has its key (`DeepHasItsKey`, `session.go`
  203-213). Each fails when a pin, an overlay or the server changes between the
  resolution and the start, or on the way through a retry or a relaunch.
* `Readiness!BannerTells`: a pin that stops working while no check is due is not
  said (`ui/backend.go` 41 and 150-154 against `README.md` 842-847).
* `Panes!AnswerSettles`: a question that ends without output after the last look
  stays "running…" (`query.go` 246 against `README.md` 726-728). `SavedWhereAsked`: the
  answer is saved beside the selected row (`query.go` 291-304).

Read in the code and in earlier forms of these models (the other properties are
stated so that they hold in their presence):

* Pausing a billed job frees the metered lane, and resuming it makes two billed
  processes run under a limit of one (`jobs.go` 1349, against the package
  comment at 12-15; `Pause`'s own comment accepts it).
* `handOverLane` (1087) may lift a hold for a lane the scheduler has filled
  since the pause was recorded, against its comment at 1052-1061.
* A pause that races a cancel stops the group after the reaper's SIGCONT, and
  the SIGKILL falls on a stopped process (948, against 1558-1562).
* `take` does not make a second taker wait for the server the first is starting
  (`ollamactl.go` 358, against 320-322).
* On the unit route the record names the unit and not the server, so a server
  its user started can be stopped (137, against 22).
* A server pinned after `give` read the flag is stopped by a pause (418, against
  398-400).
* Two starts record one pid, so a server slow to answer can outlive the board
  (66, against 475-476).
* `Open` takes every error of `ReadFile` for a missing file, so a state file that
  exists and cannot be read is replaced by the first save (`store.go` 760, in the
  spirit of the comment at 753-756). `NeverClobbers` is of unparsable files.
* `SaveError` is there "so the UI can toast it rather than silently losing
  preferences" (`store.go` 1265) and nothing in the repository but its tests calls
  it; a failed save reaches the log only if it was Flush's.
* A cancelled job in its grace period is persisted as running;
  the processes of a board that was killed are in groups of their own and survive
  it, beside the restored job (`jobs.go` 761, `session.go` 27).
* Reuse of a process id in the milliseconds between a `Wait` and the cleared
  record (`jobs.go` 969, `ollamactl.go` 148) is outside the models.
* Stop all cancels one snapshot; a chain between two steps submits its next one
  (`jobs.go` 1114).
* A chain may report "did not run: the job runner closed" for a step that has
  run: `select` may take either ready channel (`chain.go` 72).

## 5. What is proved

All theorems are of the form `Spec => []P`, `Spec => [][A]_vars` or
`Spec => AbsSpec`, for every value of the constants that satisfies the module's
assumptions: finitely many jobs, limits that are positive, names that differ.

| theorem | property |
|---|---|
| `JobRunnerProofs!TypeCorrect` | `TypeOK` |
| `JobRunnerProofs!ExclusionCorrect` | `OutputExclusive` |
| `JobRunnerProofs!ConsentCorrect` | `NeverUnasked` |
| `JobRunnerProofs!LanesCorrect` | `LaneBound` |
| `JobRunnerProofs!LeaseCorrect` | `LeaseReturned` |
| `JobRunnerProofs!CloseCorrect` | `NothingOutlivesClose` |
| `JobRunnerProofs!CoverCorrect` | `LeaseCoversProcess` |
| `JobRunnerProofs!PauseCorrect` | `PauseMatchesProcess` |
| `JobRunnerProofs!WakeupCorrect` | `NoLostWakeup` |
| `JobRunnerProofs!ImplementsPromise` | `Implements` |
| `AutoOllamaProofs!CountCorrect` | `CountsLeases` |
| `AutoOllamaProofs!OwnershipCorrect` | `NeverStopsForeign`, on the detached route |
| `AutoOllamaProofs!OwnerCorrect` | `NothingOutlivesOwner`: the board with one job, on either route, and the headless command |
| `JobEventsProofs!SendsCorrect` | `NeverSendsOnClosed` |
| `JobEventsProofs!NewestCorrect` | `NewestShown` |
| `JobChainProofs!HistoryCorrect` | `HoldsTheLatest`, of `JobHistory` alone |
| `JobChainProofs!HistoryKeeps` | `HistoryKept`, of `JobHistory` alone |
| `JobChainProofs!ChainHistoryCorrect` | `HoldsTheLatest`, behind any chain |
| `JobChainProofs!ChainHistoryKeeps` | `HistoryKept`, behind any chain |
| `JobChainProofs!OrderCorrect` | `NeverAhead` |
| `JobChainProofs!ReportCorrect` | `ReportsTruth` |
| `JobChainProofs!TellsCorrect` | `ChainTells`, the two together |
| `StoreProofs!ForwardCorrect` | `NeverGoesBack` |
| `StoreProofs!ClobberCorrect` | `NeverClobbers` |
| `StoreProofs!UnsavedCorrect` | `UnsavedIsSaid` |
| `StoreProofs!FlushCorrect` | `FlushKeeps` |
| `StoreProofs!FileCorrect` | `FileKept`: the first two together |
| `StoreProofs!SavedCorrect` | `SavedOrSaid`: the other two together |
| `AutofixProofs!SpacedCorrect` | `AttemptsSpaced` |
| `AutofixProofs!SlotsCorrect` | `SlotsMatch` |
| `AutofixProofs!BoundsCorrect` | `BoundsHold`, if no settings have metered fixes and the local model both on, or the pinned back end does not bill |
| `PartsProofs!AcceptedCorrect` | `AcceptedIsServed` (`Gateway`) |
| `PartsProofs!NoneDroppedCorrect` | `NoneDropped` (`Gateway`, `KnowledgeIndex`) |
| `PartsProofs!CacheCorrect` | `CachedIsCurrent` (`GraftIndex`) |
| `PartsProofs!MembershipCorrect` | `MembershipShown` (`GlobalGraph`) |
| `PartsProofs!UnaskedCorrect` | `NeverBilledUnasked` (`Restart`) |
| `PartsProofs!QueueCorrect` | `QueueSurvives` (`Restart`) |
| `PartsProofs!RoutingCorrect` | `RoutingTells` (`Routing`) |
| `PartsProofs!DockCorrect` | `DockTells` (`Dock`) |
| `PartsProofs!ReadCorrect` | `ReadIsCounted` (`UsageIndex`), if the programs list the same accounts; its exceptions are below |
| `PartsProofs!LogCorrect` | `LogTells` (`JobLog`) |
| `SettlingProofs!WindowCorrect` | `WindowTells` (`BoardView`, `Panes`, `GraphScan`, `Readiness`) |
| `SettlingProofs!CursorCorrect` | `CursorKept` (`BoardView`) |
| `SettlingProofs!WalkCorrect` | `WalkTells` (`Discovery`), over any tree, links and cycles included |
| `SettlingProofs!ScanCorrect` | `ScanKeeps`, the two together |

**JobRunner.** The inductive invariant is a conjunction of named parts, each
with its own step lemma:

* `Structure` ties the bookkeeping together: which statuses a queued, a running
  and an unknown job have, where `run` is for each, and that a group has no
  living member before its start or after `reapGroup`. Without it
  `OutputExclusive` is not inductive: nothing would stop a job that is over from
  having a process.
* `Reserved`: a running job that needs a key is the one recorded for it. With
  `Structure` it gives `OutputExclusive`, since living processes belong to
  running jobs.
* `Consented`: whatever is queued, not held and billed was asked for. It is the
  part of `NeverUnasked` that survives until dispatch.
* `LaneInv`: `LaneBound`, and no limit above its peak. Resume and pause change
  the set counted, hence the subset lemma `LaneShrinks`.
* `LeaseInv`: past `ReturnLease` the lease is back, and a late toggle cannot take
  it again, because `Retake` only takes a suspended one.
* `CloseInv`: the scheduler has exited only if nothing is running and the runner
  is closed.
* `PauseInv` is the joint phase of `run`, `pauser` and `reaper`. `Follows` says,
  for a living leader nobody is ending, what `paused`, `stopped` and the lease
  are at each point of a pause and of a resume; the rest says that there is no
  toggle before the process. The order of the calls is what makes it inductive:
  a pause stops the group before it suspends the lease, a resume takes the lease
  back before it continues the group. `CoverCorrect` and `PauseCorrect` are its
  two readings.
* `WakeInv`: while the scheduler is on its way to sleep without a pending
  wake-up, `pick` would find nothing. Every step that gives `pick` something to
  find ends in a kick. A hand-over is the exception, in the property too: the
  pause is on record, which frees its lane, and the kick comes after the hold is
  lifted.

`ImplementsPromise` maps each action to a step of `ExclusiveJobs` or a stutter:
dispatch is Begin, start is Spawn, the death of a group's last member is Die,
finishing or dropping is End.

**AutoOllama.** `CountInv` says that the count is the number of jobs that hold a
lease or are on their way to give one back, and that the way back is only taken
from a lease no longer held; the proof counts by adding and removing one element
of a finite set. `OursInv` says that on the detached route whatever is recorded,
claimed or about to be recorded is a server the board started, hence a signal
never reaches another.

`LifeInv` is about an owner with one job, whose `give` is therefore over before
its next `take`. `Remembered`: a living server of the job's is the one recorded,
or the claim it is about to record, and none is left where the job starts anew.
`Waiting`: a timer or its callback is pending, and the exit path runs, only when
the job has given its lease back for good, so neither meets a start halfway.
`Stopped`: whoever is past its claim stops the server on record, and when it
forgets it no server of the job's is left. The owners of `MCIdleOllama` differ in
how a server is started, in what `give` does with the count at zero and in what a
user may start; `AnyNext` allows each of them all three, `BoardSteps`, `UnitSteps`
and `OneShotSteps` put the next-state relations of the owners under it, and one
step lemma serves all. TLC checked the invariant for the three owners first.

**JobEvents.** `EventInv`: nobody is between emitMu and its send once the channel
is closed, because `Close` takes the write side of that lock and whoever enters
later sees it closed; and the row of a job is about one at least as new, or an
event of the job is on its way (`Told`). Events of one job may overtake each
other (that is `row_stuck`); what the proof shows is that none of an older job
can displace a newer one, because the row compares ids.

**JobHistory** (in `JobChainProofs`)**.** `RingInv` says which job sits in which slot: slot `i` of a full
ring holds the latest job congruent to it, from which the members of the ring
are the latest `History` jobs. `LogInv` adds the list of full logs: it names, in
order, failures the ring still has and whose logs are whole; a failure of the
ring that it does not name is older than all it names, and then it is full; and
no other log within reach of the ring is whole.

**JobChain.** `ChainInv`: what is counted has succeeded, nothing beyond the next
step exists, and the outcome read is one that no longer changes, because the
runner moves a job only before its end. `ChainHistoryCorrect` first shows that
every behaviour of `JobChain` is one of `JobHistory`, and `ChainHistoryKeeps`
uses the same.

**Store.** `Sole`: whoever is between `LockSave` and `Record` has `saveMu`.
`Ordered`: the disk is behind every snapshot in flight, and that behind the
store; with `Sole` it is what keeps the file from going back. `Pending`: what is
not on disk is on its way, or an error is or will be recorded; the second half of
it, that a saver with an older snapshot is followed by another save, is what
keeps its success from clearing an error about a newer change. `Owing` carries
what Flush promised through savers that finish after it. `Refused` is the
session-long ban of `noSave`.

**Autofix.** `AutofixInv` has four parts. `Shape` is what stands still in a
behaviour and what a pass has in each phase. `Slots` is `SlotsMatch` without the
counting: the running records are the keys pending in the pass and those of the
loop's chains, no two of them the same. `Clock` relates the engine's clock to
the history variable `quiet`: inside the cooldown no record is older than the
last reservation (`Late`). That is where a repair that works would otherwise be
a way round the cooldown, and what `ForgetHealthy`'s test of the age is for.
`Bounded` is the ledger of bills. `Turn` says of the memory in the middle of a
plan what the plan has reserved so far, that each had gone its cooldown, and
that the rest is as `Clock` has it; `PlanOneKeeps` and `PlanFleetOneKeeps` are
one turn of the loops, `PlanKeeps` and `PlanFleetKeeps` the loops.
`SlotsCorrect` counts by bijections. `BoundsCorrect` needs `BillInv` as well:
what is really billed is what `Plan` has counted. Its hypothesis excludes the
settings of the finding `billed_cap`, where that is false, and nothing else.

The proof of `AttemptsSpaced` refuted an earlier form of the model: a checkout
that leaves the board loses its record to `Prune`, comes back as new, and may be
repaired inside its cooldown. The code means it so (a checkout that is gone owes
nothing, and its bill is kept); the history variable of the model had not
allowed for it. `Charge` now does, and the property says so.

**The parts.** One invariant each; a step of another part changes nothing of it.

* `ProxyInv` (`Gateway`): a process that owns the proxy is on the port; what a
  submit asks for is served by its own version until it has an answer, and by
  what answered from then on; a draft of providers.json is the file as it is,
  because the lock is held from the read to the rename.
* `KnowledgeInv`: whoever has a draft has the flock, and the draft has the entry
  of every checkout no scan covers, unless its graph was removed; a checkout with
  an entry has a graph or had one removed, which is why a scan that drops entries
  without a graph drops nobody else's.
* `GraftInv` is the stamp argument: what a read took from the cache or derived
  is as new as the last invalidation unless the stamp has moved since it was
  taken, and then it is not stored. `Earlier` (no stamp is from the future) makes
  that inductive across Prune and Clear.
* `GlobalInv`: the rows are right, or a scan with the present manifest is in
  flight, or the scan in flight will be followed by another (`dirty`).
* `RestartInv`: a billed job that is queued and not held has a consent that no
  other job has, in the list, in the sidecar and in what was saved; `trimJobs`
  and `restoredJob` keep numbers apart.
* `RoutingInv` (`Routed`, `Told`): every job's cost, lane and environment agree
  with its target, and a billed job that waits was named as billed; retry and
  relaunch rebuild a job with these relations or not at all.
* `UsageInv` (`UsageIndex`): every rollup there is mirrors the transcripts. That is
  said (`Mirrors`) of the counters against the lines up to the last one read: a
  call that counts is counted once, a failure as often as its call unless the call
  was given up, a counted call whose result has not been read is pending or was given
  up, and nothing beyond is counted. `StateOf`
  is what is remembered of a file, which a rewrite may have made false: then only
  the number of the last call read, `Through`, keeps the pass that starts over
  from counting again. `Held` is the memory a program will have once its pass is
  folded in; it mirrors too, so the pass can be interrupted, and `LookAt` says
  from where the file being read goes on. The counters of all files are one
  function, and `LinesWell` what keeps files from disturbing each other: a line is
  numbered by its time. Two more parts follow what a pass may lose. A call
  moves from the waiting to the given up only while it has no result read, which
  `Carries` says of a pass under way, and only after `PendingTTL`, which `Sane` says
  of every rollup. And `Mirrors` and `StateOf` are claimed of `Whole` transcripts
  alone, those never rewritten between a pass's look and its read; the others keep
  their types and disturb nobody, their calls having numbers of their own.
  What `ReadCorrect` does not cover is this, all of it: programs that list
  different accounts (its hypothesis `OneList`; there the finding `CountedOnce` makes
  it false); the failure of a call given up after `PendingTTL` (`FailureSurvives`);
  a transcript once rewritten between a look and its read (`RewritesNoticed`); and
  more than `maxPending` calls waiting at a time, which the module does not have.
  The second and the third are exceptions in `ReadIsCounted` itself. TLC
  checks `ReadIsCounted` with one program and one transcript; the invariant has no
  run of its own.
* `DockInv` (`Dock`): the key kept is the key of what is drawn. So when a rebuild
  is skipped, what is drawn and what would be drawn have the same headers in the
  same places and the same job in each row between them; all that can differ is a
  row's text, and that a tick renews. `Listing` is the fact about `DockEntries`
  this takes: no job is listed twice with different texts, or the renewal by job
  number would have a choice.
* `LogInv` (`JobLog`): the buffer holds the end of the screen's text, and its count
  is of the line ends before that (`Holds`); it owes a carriage return when the
  screen does. Within a write the two are apart, for the code puts a run of bytes
  whole and folds a CRLF one byte early: after k bytes the buffer is `Ahead` of the
  screen by the rest of the run or by the line feed, and by the erasure the next
  byte brings (`Kept`). A put that evicts, an erasure and a compaction each keep
  `Holds`; an erasure does even where the buffer's only line was cut, because then
  the line the screen erases begins before what is held. `Watching` is the order of
  the watcher's reads: the status before the generation before the text.
* `ViewInv` (`BoardView`): the list is what drawing the shown paths from the
  present rows, uses, busy set and column gives, after every step that changes
  one of them; and under the gap chip the paths shown are those that match.
  `CursorInv` adds that the cursor is on a listed row, and that rows listed are in
  the chosen folder, which exists.
* `PaneInv` (`Panes`): the question that runs and the one answered are the last
  asked, for another question forgets the answer. `EventInv`: the last event of a
  job on its way shows the job as it is (`Arrives`), and once none is the thread knows
  that snapshot or one of a newer job of the repository, which `Newer` never gives up
  for an older; a visible Jobs page shows what the thread knows. With no event on its
  way the known job is therefore the newest (`EventsTold`).
* `ScanInv` (`GraphScan`) is `GraftInv`'s argument: a scan whose stamp is still
  the present one saw every drop, and one whose stamp is not does not store.
* `ProbeInv` (`Readiness`): a measurement that carries the present epoch was made
  after the last invalidation, and no other is stored.
* `WalkInv` (`Discovery`) speaks of any `R` that holds at each depth what is there
  (`IsReach`), the property of `Reached` itself; so nothing has to be said of a
  recursive function in the next state. `WalkSound`: what the stack holds within the
  depth is at that depth, and every row is of something boarded there.
  `WalkComplete`: the roots have been visited or are on the stack, a visited
  directory has the row it is due, and all that is entered from it has been visited
  or is on the stack one deeper (`Met`). With an empty stack that spreads over all
  depths. A visit at one depth settles the others only under `OneDepth`: whatever is
  walked into is at one depth, as it is without links to directories elsewhere and
  without a root inside another. That is the hypothesis `AtOneDepth` in the property,
  and `WalkFindsAll` is what is false without it; a link to a checkout, or to
  another leaf, is within it.

**How loops and sequences are proved about.** The provers have no induction over
data, and some operators of the library have no definition they can use. What
the theorems need of either is had as follows. A loop of the code is a recursive
function over the positions (`turn` in `Plan` and `PlanFleet`, `Consumed` in
`WriteTo`, `Below` and `Reached` in `Discovery`); that one exists is proved by extending it a position at a time, and
the induction over naturals it takes (`Successors`) by the smallest
counterexample. A loop that copies part
of a slice is `Picked`, which says by position what `SelectSeq` says by
recursion.

**Assumptions of constants that the proofs added**, and why the program meets them:
the repositories `Routing` sweeps are finitely many; the
name "none" that stands for no source of an entry is no repository's, and those
for nobody and for a stranger on the port are no process's; the job that every owner of
`MCIdleOllama` has (`OwnJob`) is one of the jobs; the order of the board is a
sequence; a scenario of `Autofix` has all of its fields and finitely many roots; a
call of `UsageIndex` waits no longer than an event counts (two hours against ninety
days).

**Only model-checked.**

* Everything under fairness (`CancelEnds`, `CloseReturns`, `IdleStopsOnBoard`,
  `EventsEnd`, `EndsRepairedOrSaid`, `ChainEnds`, `EventuallySaved`,
  `WindowSettles`), which the prover does not do.

## 6. Not modelled, and what is left

Layout, widgets, help, keys, animations and charts of the window (`internal/ui`
beside the files named above); the parsing of graph.json, of ignore files and of
other tools' configuration; the wording of argument lists and reports;
`applog`, `doctor`, the viewers and the query tool beside the program: they have
no state two steps could disagree about, or only move bytes. Power failures
that lose a rename are outside the models of the files. In the compositions the
parts do not move together; where a part reads another (the sidecar behind
`Restart`, the lanes behind `RunnerView`, the server behind `Routing`) it takes
whatever the other could give it.

Left for later: a composition of `Restart` with `JobRunner`, a relaunch onto the
processes of a board that was killed.
