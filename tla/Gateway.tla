------------------------------ MODULE Gateway ------------------------------
(***************************************************************************)
(* The OpenCode plans (internal/gfy opencode.go, opencodeproxy.go): a      *)
(* submit asks the gateway about the model, brings up the loopback proxy   *)
(* or shares the one another ggraphify serves, and registers the plan in   *)
(* graphify's providers.json, which the job reads when it starts.          *)
(*                                                                         *)
(* The processes are boards and headless runs of different versions; one   *)
(* port and one file stand between them.                                   *)
(***************************************************************************)
EXTENDS Naturals, FiniteSets, Sequences

CONSTANTS Processes,
          Plans,
          Served,    \* Served[v]: the plans that version v lists in its probe body
          Go,        \* the plan whose path every version serves
          Models,
          NoModel,   \* a request, or an entry, that names none
          Default,   \* Default[b]: the board's model for plan b, NoModel before Zen's catalogue
          MaxRuns    \* bound: MaxRuns[p] is how many p has queued or run

Nobody == "nobody"
Stranger == "stranger"

GatewayAssumptions ==
  /\ Served \in [DOMAIN Served -> SUBSET Plans] /\ Go \in Plans
  /\ Default \in [Plans -> Models \cup {NoModel}]
  /\ NoModel \notin Models /\ MaxRuns \in [Processes -> Nat]
  /\ {Nobody, Stranger} \cap Processes = {}

NoEntry == [model |-> NoModel, price |-> NoModel, hand |-> FALSE]

VARIABLES version,   \* the build a process runs
          holder,    \* who listens on the port
          pc,        \* where a process is in SubmitCmd
          req,       \* what it submits: [plan, model, checked]
          root,      \* proxyState: "none", "shared" or "owned"
          listed,    \* proxyState.plans of a shared proxy
          via,       \* what the proxy served when StartOpenCodeProxy answered
          verdicts,  \* the verdict cache: <<plan, model, ok>>
          refused,   \* <<plan, model>> that the gateway refuses
          file,      \* providers.json, by plan
          flock, draft,
          queue,     \* jobs waiting, which a relaunch restores
          runs       \* jobs started: what they found

gatewayVars == <<version, holder, pc, req, root, listed, via, verdicts, refused, file, flock, draft,
                 queue, runs>>

NoRequest == [plan |-> Go, model |-> NoModel, checked |-> NoModel]
NoDraft == [b \in {} |-> NoEntry]

GatewayInit ==
  /\ version \in [Processes -> DOMAIN Served]
  /\ holder \in {Nobody, Stranger}
  /\ pc = [p \in Processes |-> "idle"]
  /\ req = [p \in Processes |-> NoRequest]
  /\ root = [p \in Processes |-> "none"] /\ listed = [p \in Processes |-> {}]
  /\ via = [p \in Processes |-> {}]
  /\ verdicts = [p \in Processes |-> {}] /\ refused = {}
  /\ \E other \in Plans : file = [b \in Plans |-> [NoEntry EXCEPT !.hand = (b = other)]]
  /\ flock = {} /\ draft = [p \in Processes |-> NoDraft]
  /\ queue = [p \in Processes |-> <<>>] /\ runs = {}

-----------------------------------------------------------------------------
Serves(p) == Served[version[p]]

ModelFor(b, model) == IF model # NoModel THEN model ELSE Default[b]

Known(p, b, m) == \E ok \in BOOLEAN : <<b, m, ok>> \in verdicts[p]

\* VerifyOpenCodeModel: a verdict is cached when the gateway answered; one that
\* cannot be reached lets the job through and leaves nothing behind.
Asks(p, b, m) ==
  \/ Known(p, b, m) /\ UNCHANGED verdicts
  \/ ~Known(p, b, m) /\ verdicts' = [verdicts EXCEPT ![p] = @ \cup {<<b, m, <<b, m>> \notin refused>>}]
  \/ ~Known(p, b, m) /\ UNCHANGED verdicts

\* PreflightOpenCode, before anything else of SubmitCmd (and of a retry).
Preflight(p, b, model) ==
  LET m == ModelFor(b, model) IN
  /\ pc[p] = "idle" /\ b \in Serves(p) \cup {Go}
  /\ Len(queue[p]) + Cardinality({r \in runs : r.by = p}) < MaxRuns[p]
  /\ m # NoModel /\ Asks(p, b, m)
  /\ <<b, m, FALSE>> \notin verdicts'[p]
  /\ req' = [req EXCEPT ![p] = [plan |-> b, model |-> model, checked |-> m]]
  /\ pc' = [pc EXCEPT ![p] = "proxy"]
  /\ UNCHANGED <<version, holder, root, listed, via, refused, file, flock, draft, queue, runs>>

\* It expires after openCodeVerdictTTL.
VerdictExpires(p) ==
  /\ verdicts[p] # {}
  /\ \E v \in verdicts[p] : verdicts' = [verdicts EXCEPT ![p] = @ \ {v}]
  /\ UNCHANGED <<version, holder, pc, req, root, listed, via, refused, file, flock, draft, queue, runs>>

GatewayChanges ==
  /\ \E bm \in Plans \X Models : refused' = IF refused = {} THEN {bm} ELSE {}
  /\ UNCHANGED <<version, holder, pc, req, root, listed, via, verdicts, file, flock, draft, queue, runs>>

-----------------------------------------------------------------------------
\* StartOpenCodeProxy, which proxyStart makes one at a time.

SharedProxyServes(plans, b) == b = Go \/ b \in plans

Answers(p) == holder \in Processes \ {p}

Registers(p) == pc' = [pc EXCEPT ![p] = "lock"] /\ via' = [via EXCEPT ![p] = Serves(holder') \cup {Go}]
Refuses(p) == /\ pc' = [pc EXCEPT ![p] = "idle"] /\ req' = [req EXCEPT ![p] = NoRequest]
              /\ UNCHANGED via

\* The plan list is asked for again on every call.
MutListed(p) == IF root[p] = "shared" THEN listed[p] ELSE Serves(holder)
Listed(p) == Serves(holder)

StartOpenCodeProxy(p) ==
  /\ pc[p] = "proxy"
  /\ \/ root[p] = "owned" /\ UNCHANGED <<holder, req, root, listed>> /\ Registers(p)
     \/ \* listening fails, or the shared one is probed again
        /\ root[p] # "owned" /\ Answers(p) /\ UNCHANGED holder
        /\ IF SharedProxyServes(Listed(p), req[p].plan)
           THEN /\ Registers(p) /\ root' = [root EXCEPT ![p] = "shared"] /\ UNCHANGED req
                /\ listed' = [listed EXCEPT ![p] = Listed(p)]
           ELSE /\ Refuses(p) /\ UNCHANGED root
                /\ listed' = [listed EXCEPT ![p] = IF root[p] = "shared" THEN Listed(p) ELSE @]
        /\ UNCHANGED holder
     \/ \* it no longer answers: bind the port here, in the same call
        /\ root[p] = "shared" /\ ~Answers(p) /\ root' = [root EXCEPT ![p] = "none"]
        /\ listed' = [listed EXCEPT ![p] = {}] /\ UNCHANGED <<holder, req, pc, via>>
     \/ /\ root[p] = "none" /\ holder = Nobody /\ holder' = p
        /\ Registers(p) /\ root' = [root EXCEPT ![p] = "owned"] /\ UNCHANGED <<req, listed>>
     \/ /\ root[p] = "none" /\ holder = Stranger
        /\ Refuses(p) /\ UNCHANGED <<holder, root, listed>>
  /\ UNCHANGED <<version, verdicts, refused, file, flock, draft, queue, runs>>

-----------------------------------------------------------------------------
\* EnsureOpenCodeProvider: the read-modify-write of providers.json.

LockFree(p) == flock = {}

LockProviders(p) ==
  /\ pc[p] = "lock" /\ LockFree(p)
  /\ flock' = flock \cup {p} /\ draft' = [draft EXCEPT ![p] = file]
  /\ pc' = [pc EXCEPT ![p] = "write"]
  /\ UNCHANGED <<version, holder, req, root, listed, via, verdicts, refused, file, queue, runs>>

\* A blank model keeps the one that is registered; what the board does not
\* manage, and the other plans, are written back as they were read.
Managed(entry, b, model) ==
  LET kept == IF model = NoModel THEN entry.model ELSE model
      m == ModelFor(b, kept)
  IN [entry EXCEPT !.model = m, !.price = m]

WriteFileAtomic(p) ==
  LET b == req[p].plan
      entry == Managed(draft[p][b], b, req[p].model)
  IN /\ pc[p] = "write"
     /\ file' = IF entry = draft[p][b] THEN file ELSE [draft[p] EXCEPT ![b] = entry]
     /\ flock' = flock \ {p} /\ draft' = [draft EXCEPT ![p] = NoDraft]
     /\ queue' = [queue EXCEPT ![p] = Append(@, req[p])]
     /\ req' = [req EXCEPT ![p] = NoRequest] /\ pc' = [pc EXCEPT ![p] = "idle"]
     /\ UNCHANGED <<version, holder, root, listed, via, verdicts, refused, runs>>

-----------------------------------------------------------------------------
\* graphify reads the entry when the job starts: --model wins, then the entry's.
JobStarts(p) ==
  /\ queue[p] # <<>> /\ queue' = [queue EXCEPT ![p] = Tail(@)]
  /\ LET j == Head(queue[p])
         entry == file[j.plan]
     IN runs' = runs \cup
          {[by |-> p, plan |-> j.plan, checked |-> j.checked, price |-> entry.price,
            model |-> IF j.model # NoModel THEN j.model ELSE entry.model,
            served |-> holder \in Processes /\ j.plan \in Serves(holder) \cup {Go}]}
  /\ UNCHANGED <<version, holder, pc, req, root, listed, via, verdicts, refused, file, flock, draft>>

\* The process goes: its proxy with it. A relaunch, of this version or another,
\* restores what was queued and nothing else of this.
Restarts(p) ==
  /\ \E v \in DOMAIN Served : version' = [version EXCEPT ![p] = v]
  /\ holder' = IF holder = p THEN Nobody ELSE holder
  /\ pc' = [pc EXCEPT ![p] = "idle"] /\ req' = [req EXCEPT ![p] = NoRequest]
  /\ root' = [root EXCEPT ![p] = "none"] /\ listed' = [listed EXCEPT ![p] = {}]
  /\ via' = [via EXCEPT ![p] = {}] /\ verdicts' = [verdicts EXCEPT ![p] = {}]
  /\ flock' = flock \ {p} /\ draft' = [draft EXCEPT ![p] = NoDraft]
  /\ UNCHANGED <<refused, file, queue, runs>>

StrangerLeaves ==
  /\ holder = Stranger /\ holder' = Nobody
  /\ UNCHANGED <<version, pc, req, root, listed, via, verdicts, refused, file, flock, draft, queue, runs>>

GatewayNext ==
  \/ \E p \in Processes :
       \/ \E b \in Plans, m \in Models \cup {NoModel} : Preflight(p, b, m)
       \/ VerdictExpires(p) \/ StartOpenCodeProxy(p) \/ LockProviders(p) \/ WriteFileAtomic(p)
       \/ JobStarts(p) \/ Restarts(p)
  \/ GatewayChanges \/ StrangerLeaves

GatewaySpec == GatewayInit /\ [][GatewayNext]_gatewayVars

-----------------------------------------------------------------------------
\* A submit goes on only behind a proxy that serves its plan, however the boards
\* that share the port come, go and differ in version: "a board that inherited it
\* and wrote an entry pointing at a path it does not serve would have produced a
\* run that failed every chunk" (openCodeProbePlans).
AcceptedIsServed ==
  \A p \in Processes : pc[p] \in {"lock", "write"} => req[p].plan \in via[p]

\* "Two submits for different plans would otherwise drop each other's entries":
\* no submit takes from the file what another, or a user's hand, put there.
KeptProviders ==
  \A b \in Plans : /\ file[b].hand => file'[b].hand
                   /\ file[b].model # NoModel => file'[b].model # NoModel
ProvidersKept == [][KeptProviders]_gatewayVars

\* A job that starts finds behind its entry a proxy that serves its plan: "the
\* proxy has to exist before the entry claims it does" (EnsureOpenCodeProvider).
FindsItsGateway == \A r \in runs : r.served

\* "The model checked and named is the one that runs" (OpenCodeReadyWith).
RunsTheCheckedModel == \A r \in runs : r.model = r.checked

\* The entry carries the price of the model that runs (EnsureOpenCodeProvider).
PricedAsRun == \A r \in runs : r.price = r.model
=============================================================================
