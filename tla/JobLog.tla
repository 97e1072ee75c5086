------------------------------- MODULE JobLog -------------------------------
(***************************************************************************)
(* A job's log: the bounded ring buffer its process writes into            *)
(* (internal/ringbuf), the jobs dialog that repaints from it on a tick and *)
(* on a selection, and the one-shot watcher of a dialog (ui/jobsview.go,   *)
(* ui/textsync.go).  Bytes are numbers: LF and CR are themselves, the      *)
(* others ordinary text.  Every buffer call is one step because it holds   *)
(* the buffer's mutex; a viewer makes two of them per repaint, and the     *)
(* writer may run in between.                                              *)
(***************************************************************************)
EXTENDS Integers, FiniteSets, Sequences

CONSTANTS Cap,          \* the buffer's budget, in bytes
          TrimFraction, \* an eviction reclaims Cap \div TrimFraction
          MarkEdge,     \* how many bytes of each end a text mark keeps
          RetiredBytes, \* what a retired job's log is compacted to
          Chunks,       \* what the process may write in one call
          Views         \* bound: what is looked at, and the process's writes

LF == 10
CR == 13
NoteByte == 100         \* the elision note; it carries the number of lines

JobLogAssumptions ==
    /\ Cap \in Nat \ {0} /\ TrimFraction \in Nat \ {0} /\ MarkEdge \in Nat \ {0}
    /\ RetiredBytes \in Nat
    /\ Chunks \subseteq Seq(Nat)
    /\ Views \subseteq [dialog : BOOLEAN, watched : BOOLEAN, writes : Nat]

VARIABLES ring,     \* the Buf: text, lines dropped, generation, pending CR
          screen,   \* what an endless terminal would show of the same bytes
          process,  \* "running", "done" or "retired"
          look,  \* what is open, and the writes left to the process
          pane,     \* the jobs dialog's log view
          watcher,  \* the one-shot view that follows the job to its end
          main      \* what the GTK thread has read and not yet painted

logVars == <<ring, screen, process, look, pane, watcher, main>>

-----------------------------------------------------------------------------
(* The buffer. *)

LowWater == IF Cap - Cap \div TrimFraction < 1 THEN 1 ELSE Cap - Cap \div TrimFraction

Lines(s) == Cardinality({i \in DOMAIN s : s[i] = LF})

From(s, i) == SubSeq(s, i, Len(s))

\* The first line end at or after a position, or the position itself when
\* what follows is one enormous line.
LineEnd(s, from) ==
    LET ends == {i \in from + 1 .. Len(s) : s[i] = LF}
    IN  IF ends = {} THEN from ELSE CHOOSE i \in ends : \A j \in ends : i <= j

\* Bytes are appended after whole lines have been evicted off the front of
\* what would be held.
Put(b, q) ==
    LET all == b.text \o q
        cut == IF Len(all) > Cap THEN LineEnd(all, Len(all) - LowWater) ELSE 0
    IN  [b EXCEPT !.text = From(all, cut + 1),
                  !.dropped = @ + Lines(SubSeq(all, 1, cut))]

\* The text without its unterminated last line.
Erased(s) ==
    LET ends == {i \in DOMAIN s : s[i] = LF}
    IN  IF ends = {} THEN <<>> ELSE SubSeq(s, 1, CHOOSE i \in ends : \A j \in ends : j <= i)

EraseLine(b) == [b EXCEPT !.text = Erased(@)]

\* Where the text from a position of a chunk on ends: before the next carriage return.
RunEnd(p, i) ==
    LET returns == {j \in i .. Len(p) : p[j] = CR}
    IN  IF returns = {} THEN Len(p) ELSE (CHOOSE j \in returns : \A k \in returns : j <= k) - 1

\* One position of a chunk: a carriage return erases the line it returns to
\* once something else than a line feed follows, waits when nothing follows
\* yet, and is dropped from a CRLF; any other run of bytes is put whole.
Consume(b, p, i) ==
    LET ends(j) == j > 1 /\ p[j - 1] = CR
        folded  == p[i] = LF /\ ends(i)
        starts  == i = 1 \/ ends(i) \/ (p[i - 1] = LF /\ ends(i - 1))
    IN  CASE p[i] = CR /\ i = Len(p) -> [b EXCEPT !.pending = TRUE]
          [] p[i] = CR /\ i < Len(p) -> IF p[i + 1] = LF THEN Put(b, <<LF>>) ELSE EraseLine(b)
          [] p[i] # CR /\ ~folded /\ starts -> Put(b, SubSeq(p, i, RunEnd(p, i)))
          [] OTHER -> b

\* The positions of a chunk one after the other.
Consumed(b, p) ==
    LET after[i \in 0 .. Len(p)] == IF i = 0 THEN b ELSE Consume(after[i - 1], p, i)
    IN  after[Len(p)]

Opened(b) == [b EXCEPT !.gen = @ + 1, !.pending = FALSE]

\* A call of Write: an empty one is not a write, and a carriage return held
\* over from the last call is settled by the first byte of this one.
MutWriteTo(b, p) ==
    IF p = <<>> THEN b
    ELSE Consumed(Opened(IF b.pending THEN EraseLine(b) ELSE b), p)

WriteTo(b, p) ==
    IF p = <<>> THEN b
    ELSE Consumed(Opened(IF b.pending /\ p[1] # LF THEN EraseLine(b) ELSE b), p)

\* A retired job's log keeps its newest bytes, cut at a line boundary.
CompactTo(b, n) ==
    LET at  == Len(b.text) - n
        cut == IF at <= 0 THEN 0
               ELSE IF b.text[at] = LF THEN at ELSE LineEnd(b.text, at)
    IN  IF n = 0 \/ cut = 0 THEN b
        ELSE [b EXCEPT !.text = From(@, cut + 1),
                       !.dropped = @ + Lines(SubSeq(b.text, 1, cut)),
                       !.gen = @ + 1]

String(b) == IF b.dropped = 0 THEN b.text ELSE <<NoteByte + b.dropped>> \o b.text

-----------------------------------------------------------------------------
(* A text view that appends what was added and redraws on anything else. *)

NoMark == [n |-> -1, head |-> <<>>, tail |-> <<>>]

Edge(s) == IF Len(s) < MarkEdge THEN Len(s) ELSE MarkEdge

MarkOf(s) == [n |-> Len(s), head |-> SubSeq(s, 1, Edge(s)),
              tail |-> SubSeq(s, Len(s) - Edge(s) + 1, Len(s))]

\* The new text is taken for the old one with something appended.
Extends(m, s) ==
    /\ m # NoMark
    /\ Len(s) >= m.n
    /\ SubSeq(s, 1, Len(m.head)) = m.head
    /\ SubSeq(s, m.n - Len(m.tail) + 1, m.n) = m.tail

Update(v, s) ==
    [v EXCEPT !.shown = IF Extends(v.mark, s) THEN @ \o From(s, v.mark.n + 1) ELSE s,
              !.given = s, !.mark = MarkOf(s)]

-----------------------------------------------------------------------------
LogInit ==
    /\ ring = [text |-> <<>>, dropped |-> 0, gen |-> 0, pending |-> FALSE]
    /\ screen = [text |-> <<>>, pending |-> FALSE]
    /\ process = "running"
    /\ look \in Views
    /\ pane = [shown |-> <<>>, given |-> <<>>, mark |-> NoMark, gen |-> 0]
    /\ watcher = [on |-> look.watched, shown |-> <<>>, gen |-> 0]
    /\ main = [at |-> "idle"]

\* The endless terminal, one byte at a time.
Terminal(t, c) ==
    LET kept == IF t.pending /\ c # LF THEN Erased(t.text) ELSE t.text
    IN  [text |-> IF c = CR THEN kept ELSE Append(kept, c), pending |-> c = CR]

Shown(t, p) ==
    LET after[i \in 0 .. Len(p)] == IF i = 0 THEN t ELSE Terminal(after[i - 1], p[i])
    IN  after[Len(p)]

\* The process writes; os/exec's copying goroutine calls Write.
Writes(p) ==
    /\ process = "running" /\ look.writes > 0
    /\ look' = [look EXCEPT !.writes = @ - 1]
    /\ ring' = WriteTo(ring, p)
    /\ screen' = Shown(screen, p)
    /\ UNCHANGED <<process, pane, watcher, main>>

Ends ==
    /\ process = "running"
    /\ process' = "done"
    /\ UNCHANGED <<ring, screen, look, pane, watcher, main>>

Retires ==
    /\ process = "done"
    /\ process' = "retired"
    /\ ring' = CompactTo(ring, RetiredBytes)
    /\ UNCHANGED <<screen, look, pane, watcher, main>>

\* A row is selected, or an event rebuilds the list: the text is painted
\* first and the generation read after it.
SelectPaints(otherJob) ==
    /\ main.at = "idle" /\ look.dialog
    /\ pane' = Update(IF otherJob THEN [pane EXCEPT !.mark = NoMark] ELSE pane, String(ring))
    /\ main' = [at |-> "select"]
    /\ UNCHANGED <<ring, screen, process, look, watcher>>

SelectReadsGen ==
    /\ main.at = "select"
    /\ pane' = [pane EXCEPT !.gen = ring.gen]
    /\ main' = [at |-> "idle"]
    /\ UNCHANGED <<ring, screen, process, look, watcher>>

\* The dialog's tick: the generation first, then the text when it has moved.
TickReadsGen ==
    /\ main.at = "idle" /\ look.dialog
    /\ pane.gen # ring.gen
    /\ pane' = [pane EXCEPT !.gen = ring.gen]
    /\ main' = [at |-> "tick"]
    /\ UNCHANGED <<ring, screen, process, look, watcher>>

TickPaints ==
    /\ main.at = "tick"
    /\ pane' = Update(pane, String(ring))
    /\ main' = [at |-> "idle"]
    /\ UNCHANGED <<ring, screen, process, look, watcher>>

\* The watcher's tick takes the job's snapshot, then the generation, then the
\* text, and stops itself when the snapshot was of a finished job.
WatchTakesSnapshot ==
    /\ main.at = "idle" /\ watcher.on
    /\ main' = [at |-> "watch", last |-> process # "running"]
    /\ UNCHANGED <<ring, screen, process, look, pane, watcher>>

WatchReadsGen ==
    /\ main.at = "watch"
    /\ main' = [at |-> IF ring.gen = watcher.gen THEN "watched" ELSE "watchtext",
                last |-> main.last]
    /\ watcher' = [watcher EXCEPT !.gen = ring.gen]
    /\ UNCHANGED <<ring, screen, process, look, pane>>

WatchPaints ==
    /\ main.at \in {"watchtext", "watched"}
    /\ watcher' = [watcher EXCEPT !.on = ~main.last,
                                  !.shown = IF main.at = "watched" THEN @ ELSE String(ring)]
    /\ main' = [at |-> "idle"]
    /\ UNCHANGED <<ring, screen, process, look, pane>>

LogNext ==
    \/ \E p \in Chunks : Writes(p)
    \/ Ends \/ Retires
    \/ \E other \in BOOLEAN : SelectPaints(other)
    \/ SelectReadsGen \/ TickReadsGen \/ TickPaints
    \/ WatchTakesSnapshot \/ WatchReadsGen \/ WatchPaints

LogSpec == LogInit /\ [][LogNext]_logVars

-----------------------------------------------------------------------------
\* However the process's output is cut into writes, and whatever carriage
\* returns it redraws its progress with, the buffer holds the end of what a
\* terminal without a limit would show, within its budget, and the note over
\* it counts exactly the lines that are missing (ringbuf.Write, put, Compact).
LosesOnlyOldest ==
    LET gone == Len(screen.text) - Len(ring.text)
    IN  /\ Len(ring.text) <= Cap
        /\ gone >= 0
        /\ ring.text = From(screen.text, gone + 1)
        /\ ring.dropped = Lines(SubSeq(screen.text, 1, gone))

\* A watcher that has stopped shows the whole of the finished log: it read
\* the job's status before it read the log (watchInto); a compaction that
\* came later may have shortened the log under it.
WatchedToTheEnd ==
    look.watched /\ ~watcher.on =>
        watcher.shown = String(ring) \/ process = "retired"

\* textSync: "The rendered content is always exactly s" (ui/textsync.go:57).
RenderedExactly == pane.shown = pane.given

=============================================================================
