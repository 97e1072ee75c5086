---------------------------- MODULE GlobalGraph ----------------------------
(***************************************************************************)
(* The cross-repository graph: the manifest that graphify keeps of it      *)
(* (internal/globalgraph), what the board's rows and the Global screen     *)
(* say of it, and the membership commands that the board, the screen and   *)
(* the auto-fix loop queue (internal/ui actions.go, globalpane.go).        *)
(*                                                                         *)
(* A repository is its graph; Tag is the directory's own name, which two   *)
(* checkouts under different roots may share.                              *)
(***************************************************************************)
EXTENDS Naturals, Sequences, FiniteSets, SequencesExt

CONSTANTS Repos, Tags,
          Base,      \* Base[r]: the tag of a repository that is not a member
          Enrolls,   \* the auto-fix loop also enrols repositories in no graph
          Events     \* bound: builds, membership commands

GlobalAssumptions == Base \in [Repos -> Tags] /\ Events \in Nat /\ "none" \notin Repos

NoEntry == [src |-> "none", hash |-> 0, at |-> 0]
NoMember == [in |-> FALSE, tag |-> "", stale |-> FALSE]
NoDialog == [kind |-> "none", steps |-> <<>>]

VARIABLES manifest,  \* the entry of each tag
          graph,     \* [hash, built] of each repository's graph
          time,      \* builds and commands so far, which date them
          scan,      \* the manifest a scan in flight was given, or {}
          dirty,     \* a refresh was asked for while one was in flight
          rows,      \* Global of each row
          pane,      \* what the Global screen lists, by tag
          ticked,    \* checkedTags
          dialog,    \* a confirm on screen
          chains     \* commands queued, by chain: they hold one resource

globalVars == <<manifest, graph, time, scan, dirty, rows, pane, ticked, dialog, chains>>

GlobalInit ==
  /\ manifest = [t \in Tags |-> NoEntry]
  /\ graph = [r \in Repos |-> [hash |-> 0, built |-> 0]] /\ time = 0
  /\ scan = {} /\ dirty = FALSE
  /\ rows = [r \in Repos |-> NoMember]
  /\ pane = manifest /\ ticked = {} /\ dialog = NoDialog /\ chains = <<>>

-----------------------------------------------------------------------------
\* A build moves the graph's time, and its hash when it changed anything.
Builds(r) ==
  /\ time < Events /\ time' = time + 1
  /\ \E moved \in BOOLEAN :
       graph' = [graph EXCEPT ![r] = [hash |-> IF moved THEN time + 1 ELSE @.hash,
                                      built |-> time + 1]]
  /\ UNCHANGED <<manifest, scan, dirty, rows, pane, ticked, dialog, chains>>

\* Two tags may name one graph: the newest add speaks for it.
Entries(m, r) == {t \in Tags : m[t].src = r}
ByGraph(m, r) == CHOOSE t \in Entries(m, r) : \A u \in Entries(m, r) : m[u].at <= m[t].at

MemberOf(m, r) ==
  IF Entries(m, r) = {} THEN NoMember
  ELSE LET t == ByGraph(m, r) IN
       [in |-> TRUE, tag |-> t,
        stale |-> graph[r].built > m[t].at /\ graph[r].hash # m[t].hash]

GlobalTag(r) == IF rows[r].in THEN rows[r].tag ELSE Base[r]

-----------------------------------------------------------------------------
\* The cache reads again when the file's stat has moved.
Load == manifest

\* refresh: the manifest is read before the scan starts, once for every row.
MutScanIsDirty == dirty
ScanIsDirty == TRUE

Refresh ==
  IF scan # {} THEN dirty' = ScanIsDirty /\ UNCHANGED scan
  ELSE scan' = {Load} /\ UNCHANGED dirty

ScanTick ==
  /\ Refresh
  /\ UNCHANGED <<manifest, graph, time, rows, pane, ticked, dialog, chains>>

\* setRows, and reloadIfChanged when the screen is open; then the scan owed.
ScanLands ==
  /\ scan # {}
  /\ \E m \in scan : rows' = [r \in Repos |-> MemberOf(m, r)]
  /\ pane' \in {pane, Load}
  /\ IF dirty THEN scan' = {Load} /\ dirty' = FALSE
     ELSE scan' = {} /\ UNCHANGED dirty
  /\ UNCHANGED <<manifest, graph, time, ticked, dialog, chains>>

-----------------------------------------------------------------------------
Adds(r, asked) == [add |-> TRUE, src |-> r, tag |-> GlobalTag(r), asked |-> asked]
Removes(t) == [add |-> FALSE, src |-> "none", tag |-> t, asked |-> TRUE]

Outstanding == FoldSeq(LAMBDA c, n : n + Len(c), 0, chains)

\* Always through a chain: the steps run one after another, and those of two
\* chains take turns.
SubmitGlobalChain(steps) ==
  /\ time + Outstanding + Len(steps) <= Events
  /\ chains' = Append(chains, steps)

\* The tag is another graph's, or two of the batch want it.
GlobalTagClashes(rs) ==
  \/ \E r \in rs : Load[GlobalTag(r)].src \notin {"none", r}
  \/ \E r, s \in rs : r # s /\ GlobalTag(r) = GlobalTag(s)

\* The membership switch, and Add on the Global screen: one add goes at once,
\* several after a question, a clash after one that says what is replaced.
GlobalAdd(rs) ==
  /\ dialog = NoDialog /\ rs # {}
  /\ IF Cardinality(rs) = 1 /\ ~GlobalTagClashes(rs)
     THEN /\ SubmitGlobalChain([i \in 1..1 |-> Adds(CHOOSE r \in rs : TRUE, FALSE)])
          /\ UNCHANGED dialog
     ELSE /\ \E order \in SetToSeqs(rs) :
               dialog' = [kind  |-> "add",
                          steps |-> [i \in DOMAIN order |-> Adds(order[i], GlobalTagClashes(rs))]]
          /\ UNCHANGED chains
  /\ UNCHANGED <<manifest, graph, time, scan, dirty, rows, pane, ticked>>

GlobalToggle == \E rs \in SUBSET Repos : GlobalAdd({r \in rs : ~rows[r].in})

\* Ticks outlive a reload of the list.
Tick(t) ==
  /\ pane[t] # NoEntry /\ ticked' = IF t \in ticked THEN ticked \ {t} ELSE ticked \cup {t}
  /\ UNCHANGED <<manifest, graph, time, scan, dirty, rows, pane, dialog, chains>>

CheckedMembers == {t \in ticked : Load[t] # NoEntry}

\* Re-add: members with a row, with no question.
ResyncChecked ==
  /\ dialog = NoDialog
  /\ LET rs == {r \in Repos : \E t \in CheckedMembers : Load[t].src = r} IN
       /\ rs # {}
       /\ \E order \in SetToSeqs(rs) :
            SubmitGlobalChain([i \in DOMAIN order |-> Adds(order[i], FALSE)])
  /\ UNCHANGED <<manifest, graph, time, scan, dirty, rows, pane, ticked, dialog>>

RemoveChecked ==
  /\ dialog = NoDialog /\ CheckedMembers # {}
  /\ \E order \in SetToSeqs(CheckedMembers) :
       dialog' = [kind |-> "remove", steps |-> [i \in DOMAIN order |-> Removes(order[i])]]
  /\ UNCHANGED <<manifest, graph, time, scan, dirty, rows, pane, ticked, chains>>

GlobalRemove(rs) ==
  /\ dialog = NoDialog /\ rs # {} /\ \A r \in rs : rows[r].in
  /\ \E order \in SetToSeqs(rs) :
       dialog' = [kind |-> "remove", steps |-> [i \in DOMAIN order |-> Removes(GlobalTag(order[i]))]]
  /\ UNCHANGED <<manifest, graph, time, scan, dirty, rows, pane, ticked, chains>>

Answered ==
  /\ dialog # NoDialog /\ dialog' = NoDialog
  /\ \/ SubmitGlobalChain(dialog.steps)
     \/ UNCHANGED chains
  /\ ticked' = IF dialog.kind = "remove" /\ chains' # chains
               THEN ticked \ {dialog.steps[i].tag : i \in DOMAIN dialog.steps} ELSE ticked
  /\ UNCHANGED <<manifest, graph, time, scan, dirty, rows, pane>>

\* The auto-fix loop re-adds a member that is behind and, in a nominated root,
\* enrols a repository that is in no graph; its steps ask nothing.
AutoFixAdds(r) ==
  /\ rows[r].stale \/ (Enrolls /\ ~rows[r].in)
  /\ SubmitGlobalChain(<<Adds(r, FALSE)>>)
  /\ UNCHANGED <<manifest, graph, time, scan, dirty, rows, pane, ticked, dialog>>

-----------------------------------------------------------------------------
\* graphify global add prunes what is under the tag, then merges; one whose hash
\* has not moved is skipped.
After(step) ==
  IF ~step.add THEN [manifest EXCEPT ![step.tag] = NoEntry]
  ELSE IF manifest[step.tag].src = step.src /\ manifest[step.tag].hash = graph[step.src].hash
       THEN manifest
       ELSE [manifest EXCEPT ![step.tag] =
               [src |-> step.src, hash |-> graph[step.src].hash, at |-> time + 1]]

\* A step of one of the chains: its event drops the memo and scans again; a failure
\* ends the chain, whose end does the same and reloads the screen.
Steps(i) ==
  /\ time' = time + 1
  /\ \/ manifest' = After(Head(chains[i])) /\ chains' =
          IF Len(chains[i]) = 1 THEN RemoveAt(chains, i)
          ELSE [chains EXCEPT ![i] = Tail(@)]
     \/ UNCHANGED manifest /\ chains' = RemoveAt(chains, i)
  /\ IF scan # {} THEN dirty' = ScanIsDirty /\ UNCHANGED scan
     ELSE scan' = {manifest'} /\ UNCHANGED dirty
  /\ pane' = IF Len(chains') < Len(chains) THEN manifest' ELSE pane
  /\ UNCHANGED <<graph, rows, ticked, dialog>>

GlobalNext ==
  \/ \E r \in Repos : Builds(r) \/ AutoFixAdds(r)
  \/ ScanTick \/ ScanLands \/ GlobalToggle \/ ResyncChecked \/ RemoveChecked \/ Answered
  \/ \E rs \in SUBSET Repos : GlobalRemove(rs)
  \/ \E t \in Tags : Tick(t)
  \/ \E i \in DOMAIN chains : Steps(i)

GlobalSpec == GlobalInit /\ [][GlobalNext]_globalVars

-----------------------------------------------------------------------------
\* When nothing is outstanding and no scan is in flight, every row says of its
\* membership what the manifest does, however the commands, their failures and the
\* scans before them interleaved.
MembershipShown ==
  chains = <<>> /\ scan = {} =>
    \A r \in Repos : /\ rows[r].in = MemberOf(manifest, r).in
                     /\ rows[r].tag = MemberOf(manifest, r).tag

\* No add takes another repository's nodes out of the graph unless somebody was
\* asked: "Adding under a tag that is already taken by a different graph is
\* [behind a confirm] too" (README).
NothingReplacedUnasked ==
  [][\A i \in DOMAIN chains :
       LET step == Head(chains[i]) IN
       (Steps(i) /\ step.add /\ manifest'[step.tag].src # manifest[step.tag].src)
         => manifest[step.tag].src = "none" \/ step.asked]_globalVars
=============================================================================
