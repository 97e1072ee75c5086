----------------------------- MODULE UsageIndex -----------------------------
(***************************************************************************)
(* The usage rollup (internal/usage): transcripts that Claude Code appends *)
(* to and now and then rewrites, read from where the last pass stopped,    *)
(* folded into counters, and saved in a file that the board and            *)
(* ggraphify-scan -usage share.                                            *)
(*                                                                         *)
(* A line is numbered by the time it was written.  It is a tool call, or   *)
(* the result of an earlier one.  Offsets and sizes count lines.           *)
(***************************************************************************)
EXTENDS Integers, SequencesExt

CONSTANTS Transcripts,  \* the files
          Programs,     \* the processes that keep a rollup
          Headless,     \* those that update it once and save it once
          Lists,        \* Lists[p]: the transcripts under the accounts that p lists
          Retain,       \* how far back an event counts
          PendingTTL,   \* how long a call waits for its result
          MaxTime       \* bound: lines and rewrites

UsageAssumptions ==
  /\ Headless \subseteq Programs /\ MaxTime \in Nat
  /\ Retain \in Nat /\ PendingTTL \in 0 .. Retain
  /\ Lists \in [Programs -> SUBSET Transcripts]

Times == 1 .. MaxTime
NoState == [seen |-> 0]       \* of a transcript the rollup does not remember
Down == [up |-> FALSE]
NoPass == [left |-> {}, busy |-> FALSE]
NoLook == [file |-> <<>>]

\* Two fields only the properties read: a transcript's torn, that it was
\* rewritten under a pass that had looked at it and not yet read it; a rollup's
\* late, the calls it gave up waiting for.
VARIABLES transcript,  \* [lines, half, at, torn]: complete lines, an unfinished last one, mtime
          now,
          index,       \* Index of each program, or Down; readAt: pendingCall.Seen
          pass,        \* the Update in progress, or NoPass
          saving,      \* encoded rollups on their way to the file
          rollup       \* usage.json

usageVars == <<transcript, now, index, pass, saving, rollup>>

Cold == [up |-> TRUE, files |-> [f \in Transcripts |-> NoState],
         counts |-> [n \in Times |-> 0], fails |-> [n \in Times |-> 0],
         pending |-> {}, readAt |-> [n \in Times |-> 0], late |-> {}]

UsageInit ==
  /\ transcript = [f \in Transcripts |-> [lines |-> <<>>, half |-> FALSE, at |-> 0,
                                          torn |-> FALSE]]
  /\ now = 0
  /\ index = [p \in Programs |-> Down] /\ pass = [p \in Programs |-> NoPass]
  /\ saving = [p \in Programs |-> {}]
  /\ rollup = Cold

-----------------------------------------------------------------------------
(* Claude Code, which is not part of the program. *)

Call(n) == [n |-> n, what |-> "call", of |-> n]
Result(n, of, failed) == [n |-> n, what |-> IF failed THEN "fail" ELSE "ok", of |-> of]

Open(f) == {l.of : l \in {l \in ToSet(transcript[f].lines) : l.what = "call"}}
             \ {l.of : l \in {l \in ToSet(transcript[f].lines) : l.what # "call"}}

NewLine(f, n) == {Call(n)} \cup {Result(n, of, failed) : of \in Open(f), failed \in BOOLEAN}

\* A line is written, or finished, or left half written.
Appends(f) ==
  /\ now < MaxTime /\ now' = now + 1
  /\ \/ \E l \in NewLine(f, now + 1) :
          transcript' = [transcript EXCEPT ![f] = [lines |-> Append(@.lines, l), half |-> FALSE,
                                                   at |-> now + 1, torn |-> @.torn]]
     \/ ~transcript[f].half
        /\ transcript' = [transcript EXCEPT ![f].half = TRUE, ![f].at = now + 1]
  /\ UNCHANGED <<index, pass, saving, rollup>>

\* Rewritten with its oldest lines gone, whatever a pass is doing.
Rewrites(f) ==
  /\ now < MaxTime /\ now' = now + 1
  /\ \E k \in 1 .. Len(transcript[f].lines) :
       transcript' = [transcript EXCEPT ![f] =
         [lines |-> SubSeq(@.lines, k, Len(@.lines)), half |-> @.half, at |-> now + 1,
          torn |-> @.torn \/ \E p \in Programs : pass[p].busy /\ pass[p].look.file = <<f>>]]
  /\ UNCHANGED <<index, pass, saving, rollup>>

-----------------------------------------------------------------------------
(* Update. *)

Since == now - Retain
Size(t) == Len(t.lines) + (IF t.half THEN 1 ELSE 0)
TailPrint(t, off) == IF off \in 1 .. Len(t.lines) THEN t.lines[off].n ELSE 0

\* The calls that have waited too long when an Update starts.
Expired(x, began) == {n \in x.pending : x.readAt[n] < began - PendingTTL}

UpdateStarts(p) ==
  /\ index[p].up /\ ~pass[p].busy
  /\ pass' = [pass EXCEPT ![p] = [busy |-> TRUE, left |-> {f \in Lists[p] : transcript[f].at > 0},
                                  look |-> NoLook, since |-> Since,
                                  files |-> [f \in Transcripts |-> NoState],
                                  calls |-> {}, fails |-> {},
                                  pending |-> index[p].pending \ Expired(index[p], now)]]
  /\ UNCHANGED <<transcript, now, index, saving, rollup>>

\* Where to resume, and from when on a line counts: a transcript that shrank,
\* or no longer carries what was read, starts over after what it contributed.
MutResume(st, t, since) ==
  IF st = NoState THEN [off |-> 0, since |-> since]
  ELSE IF Size(t) < st.offset \/ (st.tail # 0 /\ TailPrint(t, st.offset) # st.tail)
  THEN [off |-> 0, since |-> since]
  ELSE [off |-> st.offset, since |-> since]

Resume(st, t, since) ==
  IF st = NoState THEN [off |-> 0, since |-> since]
  ELSE IF Size(t) < st.offset \/ (st.tail # 0 /\ TailPrint(t, st.offset) # st.tail)
  THEN [off |-> 0, since |-> IF st.through > 0 /\ since <= st.through THEN st.through + 1
                             ELSE since]
  ELSE [off |-> st.offset, since |-> since]

Done(p, f) == [pass[p] EXCEPT !.left = @ \ {f}]

\* The stat: a transcript too old to count is forgotten, one that did not move
\* keeps its state, any other is read.
Looks(p, f) ==
  /\ pass[p].busy /\ pass[p].look = NoLook /\ f \in pass[p].left
  /\ LET t  == transcript[f]
         st == index[p].files[f]
     IN pass' = [pass EXCEPT ![p] =
          IF t.at < pass[p].since THEN Done(p, f)
          ELSE IF st # NoState /\ st.size = Size(t) /\ st.at = t.at
          THEN [Done(p, f) EXCEPT !.files[f] = st]
          ELSE [@ EXCEPT !.look = [file |-> <<f>>, at |-> t.at, size |-> Size(t),
                                   resume |-> Resume(st, t, pass[p].since),
                                   through |-> IF st = NoState THEN 0 ELSE st.through]]]
  /\ UNCHANGED <<transcript, now, index, saving, rollup>>

\* scanTranscript: every complete line from the offset on.
Reads(p) ==
  /\ pass[p].busy /\ pass[p].look # NoLook
  /\ LET look  == pass[p].look
         f     == look.file[1]
         t     == transcript[f]
         lines == {l \in ToSet(SubSeq(t.lines, look.resume.off + 1, Len(t.lines))) :
                     l.n >= look.resume.since}
         calls == {l.n : l \in {l \in lines : l.what = "call"}}
         asked == pass[p].pending \cup calls
         end   == IF look.resume.off > Len(t.lines) THEN look.resume.off ELSE Len(t.lines)
     IN pass' = [pass EXCEPT ![p] =
          [Done(p, f) EXCEPT
             !.look = NoLook,
             !.calls = @ \cup calls,
             !.fails = @ \cup ({l.of : l \in {l \in lines : l.what = "fail"}} \cap asked),
             !.pending = asked \ {l.of : l \in {l \in lines : l.what # "call"}},
             !.files[f] = [seen |-> 1, size |-> look.size, at |-> look.at, offset |-> end,
                           tail |-> TailPrint(t, end), through |-> Max(calls \cup {look.through})]]]
  /\ UNCHANGED <<transcript, now, index, saving, rollup>>

Bump(counts, ns) == [n \in Times |-> IF n \in ns /\ counts[n] < 2 THEN counts[n] + 1 ELSE counts[n]]

\* prune: the days, the transcripts and the waiting calls out of the window.
Prune(x, since) ==
  [x EXCEPT !.counts = [n \in Times |-> IF n < since THEN 0 ELSE @[n]],
            !.fails = [n \in Times |-> IF n < since THEN 0 ELSE @[n]],
            !.files = [f \in Transcripts |-> IF @[f] # NoState /\ @[f].at < since THEN NoState ELSE @[f]],
            !.pending = {n \in @ : x.readAt[n] >= since}]

\* When the pass began, the time it gives every call it reads.
Began(p) == pass[p].since + Retain

\* What was not listed this time is not remembered.
Folds(p) ==
  /\ pass[p].busy /\ pass[p].left = {} /\ pass[p].look = NoLook
  /\ index' = [index EXCEPT ![p] =
       Prune([up |-> TRUE, files |-> pass[p].files,
              counts |-> Bump(@.counts, pass[p].calls), fails |-> Bump(@.fails, pass[p].fails),
              pending |-> pass[p].pending,
              readAt |-> [n \in Times |-> IF n \in pass[p].calls THEN Began(p) ELSE @.readAt[n]],
              late |-> (@.late \cup Expired(@, Began(p))) \ pass[p].calls],
             pass[p].since)]
  /\ pass' = [pass EXCEPT ![p] = NoPass]
  /\ UNCHANGED <<transcript, now, saving, rollup>>

-----------------------------------------------------------------------------
(* Load and Save, and the processes. *)

Launch(p) ==
  /\ ~index[p].up
  /\ index' = [index EXCEPT ![p] = rollup]
  /\ UNCHANGED <<transcript, now, pass, saving, rollup>>

\* Encoded under the lock, written by a rename later: saves may overtake.
Encodes(p) ==
  /\ index[p].up /\ p \notin Headless /\ saving[p] = {} /\ index[p] # rollup
  /\ saving' = [saving EXCEPT ![p] = @ \cup {index[p]}]
  /\ UNCHANGED <<transcript, now, index, pass, rollup>>

Renames(p) ==
  /\ \E x \in saving[p] : rollup' = x /\ saving' = [saving EXCEPT ![p] = @ \ {x}]
  /\ UNCHANGED <<transcript, now, index, pass>>

\* The window closes: a save of its own, beside one that may be in flight and
\* may still land after it; a crash saves nothing.
Quits(p) ==
  /\ index[p].up
  /\ \/ rollup' \in {index[p]} \cup saving[p]
     \/ UNCHANGED rollup
  /\ index' = [index EXCEPT ![p] = Down] /\ pass' = [pass EXCEPT ![p] = NoPass]
  /\ saving' = [saving EXCEPT ![p] = {}]
  /\ UNCHANGED <<transcript, now>>

UsageNext ==
  \/ \E f \in Transcripts : Appends(f) \/ Rewrites(f)
  \/ \E p \in Programs : \/ Launch(p) \/ UpdateStarts(p) \/ \E f \in Transcripts : Looks(p, f)
                         \/ Reads(p) \/ Folds(p) \/ Encodes(p) \/ Renames(p) \/ Quits(p)

UsageSpec == UsageInit /\ [][UsageNext]_usageVars

-----------------------------------------------------------------------------
\* "The events it still carries are not counted twice" (FileState.Through):
\* however a transcript grew, was rewritten and was read by which program, a
\* call counts once and so does its failure.
CountedOnce ==
  \A p \in Programs : index[p].up =>
    \A n \in Times : index[p].counts[n] <= 1 /\ index[p].fails[n] <= 1

\* The lines a rollup says it has read, of a transcript that has not moved since.
ReadLines(x, f) ==
  IF x.files[f] # NoState /\ x.files[f].at = transcript[f].at
  THEN ToSet(SubSeq(transcript[f].lines, 1, x.files[f].offset)) ELSE {}

\* They are in its counters, each call and each failed result of a call once: but
\* for the failure of a call it gave up, as it may only after PendingTTL, but for a
\* transcript once rewritten between a pass's look and its read, and as long as no
\* more than maxPending calls wait at a time.
ReadIsCounted ==
  \A p \in Programs : index[p].up /\ ~pass[p].busy =>
    LET x == index[p] IN
    /\ \A n \in x.late : x.readAt[n] + PendingTTL < now
    /\ \A f \in Transcripts : ~transcript[f].torn =>
         \A l \in ReadLines(x, f) : l.of >= Since =>
           /\ l.what = "call" => x.counts[l.n] = 1
           /\ l.what = "fail" => x.fails[l.of] = IF l.of \in x.late THEN 0 ELSE x.counts[l.of]

\* A call "has to survive between scans" (pendingCall): no failure is lost because
\* its result is read late.
FailureSurvives ==
  \A p \in Programs, f \in Transcripts : index[p].up /\ ~pass[p].busy =>
    \A l \in ReadLines(index[p], f) :
      l.of >= Since /\ l.what = "fail" => index[p].fails[l.of] = index[p].counts[l.of]

\* A transcript that no longer carries what was read "was rewritten, not appended
\* to" (FileState.Tail), and is not resumed: no line is lost to a rewrite.
RewritesNoticed ==
  \A p \in Programs, f \in Transcripts : index[p].up /\ ~pass[p].busy =>
    \A l \in ReadLines(index[p], f) :
      l.n >= Since /\ l.what = "call" => index[p].counts[l.n] = 1
=============================================================================
