------------------------------- MODULE Store -------------------------------
(***************************************************************************)
(* The board's sidecar file (internal/store/store.go): the setters, the    *)
(* debounce timer, Save under saveMu with its temporary file and rename,   *)
(* Flush at the end of App.Run (internal/ui/ui.go), a crash of the board   *)
(* between any two steps, and Open. The contents are abstracted to the     *)
(* number of the change they hold: changes are numbered through every      *)
(* session, 0 stands for the defaults. A crash is that of the process, not *)
(* of the machine.                                                         *)
(***************************************************************************)
EXTENDS Naturals

CONSTANTS
  Main,        \* the GTK thread, which also runs Flush on the way out
  Scanner,     \* the goroutine of a refresh, which prunes baselines
  Callbacks,   \* the goroutines of the debounce timer: bounds how many at once
  NoSaver,     \* nobody holds saveMu
  Absent,      \* there is no state file
  Garbled,     \* there is one and it does not parse
  Unreadable,  \* there is one and reading it fails
  MaxChanges   \* bound on the changes made

ASSUME StoreAssumption ==
  /\ MaxChanges \in Nat
  /\ Absent \notin Nat /\ Garbled \notin Nat /\ Unreadable \notin Nat
  /\ Absent # Garbled /\ Absent # Unreadable /\ Garbled # Unreadable
  /\ Main # Scanner /\ Main \notin Callbacks /\ NoSaver \notin Callbacks \cup {Main}

Setters == {Main, Scanner}
Savers == Callbacks \cup {Main}
Damaged == {Garbled, Unreadable}

VARIABLES
  board,   \* "down", "up", or "quit": the main loop is over and Flush runs
  changes, \* how many changes were made in all sessions
  mem,     \* Store.s: the latest change it holds
  file,    \* state.json
  aside,   \* the latest garbled file is kept as state.json.corrupt-<timestamp>
  noSave,  \* Store.noSave
  saveErr, \* Store.saveErr is not nil
  timer,   \* Store.timer: "nil", "armed" or "fired"
  setter,  \* "idle", or "changed": about to call schedule
  holder,  \* who holds saveMu
  pc,      \* where each saver is in Save
  snap,    \* the change in each saver's snapshot
  owed     \* what the store held when Flush began

session == <<board, mem, noSave, saveErr, timer, setter, holder, pc, snap, owed>>
vars == <<session, changes, file, aside>>

\* What a process that is not running is taken to hold.
Idle ==
  /\ mem' = 0 /\ noSave' = FALSE /\ saveErr' = FALSE /\ timer' = "nil"
  /\ setter' = [s \in Setters |-> "idle"] /\ owed' = 0
  /\ holder' = NoSaver /\ pc' = [s \in Savers |-> "idle"] /\ snap' = [s \in Savers |-> 0]

Init ==
  /\ board = "down" /\ changes = 0 /\ file = Absent /\ aside = FALSE
  /\ mem = 0 /\ noSave = FALSE /\ saveErr = FALSE /\ timer = "nil"
  /\ setter = [s \in Setters |-> "idle"] /\ owed = 0
  /\ holder = NoSaver /\ pc = [s \in Savers |-> "idle"] /\ snap = [s \in Savers |-> 0]

-----------------------------------------------------------------------------
(***************************************************************************)
(* Open. A file that does not parse is renamed aside, or, where that       *)
(* fails, never saved over; any error of ReadFile counts as no file.       *)
(***************************************************************************)
Refuses(moved) == file = Garbled /\ ~moved

\* What is not loaded keeps its default.
Loaded == IF file \in Nat THEN file ELSE 0

Open ==
  /\ board = "down" /\ board' = "up" /\ mem' = Loaded
  /\ \E moved \in BOOLEAN :
       /\ moved => file = Garbled
       /\ file' = IF moved THEN Absent ELSE file
       /\ aside' = (moved \/ aside)
       /\ noSave' = Refuses(moved) /\ saveErr' = Refuses(moved)
  /\ UNCHANGED <<changes, timer, setter, holder, pc, snap, owed>>

\* A setter changes the state under mu, and calls schedule after unlocking.
Change(s) ==
  /\ board = "up" \/ (board = "quit" /\ s = Scanner)
  /\ setter[s] = "idle" /\ changes < MaxChanges
  /\ changes' = changes + 1 /\ mem' = changes + 1
  /\ setter' = [setter EXCEPT ![s] = "changed"]
  /\ UNCHANGED <<board, file, aside, noSave, saveErr, timer, holder, pc, snap, owed>>

\* schedule: a timer that exists is reset, whether it is pending or has fired.
MutScheduled == IF timer = "nil" THEN "armed" ELSE timer
Scheduled == "armed"

Schedule(s) ==
  /\ board # "down" /\ setter[s] = "changed"
  /\ setter' = [setter EXCEPT ![s] = "idle"]
  /\ timer' = Scheduled
  /\ UNCHANGED <<board, changes, mem, file, aside, noSave, saveErr, holder, pc, snap, owed>>

\* The debounce is over: a goroutine of its own calls Save.
Fire(c) ==
  /\ timer = "armed" /\ timer' = "fired"
  /\ pc[c] = "idle" /\ pc' = [pc EXCEPT ![c] = "save"]
  /\ UNCHANGED <<board, changes, mem, file, aside, noSave, saveErr, setter, holder, snap, owed>>

-----------------------------------------------------------------------------
(***************************************************************************)
(* Save.                                                                   *)
(***************************************************************************)
MutSaveMuFree == TRUE
SaveMuFree == holder = NoSaver

LockSave(s) ==
  /\ pc[s] = "save" /\ SaveMuFree
  /\ holder' = s /\ pc' = [pc EXCEPT ![s] = "locked"]
  /\ UNCHANGED <<board, changes, mem, file, aside, noSave, saveErr, timer, setter, snap, owed>>

\* The state is marshalled under mu, or not at all.
Snapshot(s) ==
  /\ pc[s] = "locked"
  /\ IF noSave
     THEN pc' = [pc EXCEPT ![s] = "failed"] /\ UNCHANGED snap
     ELSE pc' = [pc EXCEPT ![s] = "taken"] /\ snap' = [snap EXCEPT ![s] = mem]
  /\ UNCHANGED <<board, changes, mem, file, aside, noSave, saveErr, timer, setter, holder, owed>>

\* The temporary file is written, synced and renamed over state.json.
Rename(s) ==
  /\ pc[s] = "taken"
  /\ file' = snap[s] /\ pc' = [pc EXCEPT ![s] = "renamed"]
  /\ UNCHANGED <<board, changes, mem, aside, noSave, saveErr, timer, setter, holder, snap, owed>>

\* Or one of those steps fails; the temporary file is removed.
SaveFails(s) ==
  /\ pc[s] = "taken"
  /\ pc' = [pc EXCEPT ![s] = "failed"]
  /\ UNCHANGED <<board, changes, mem, file, aside, noSave, saveErr, timer, setter, holder, snap, owed>>

MutOutcome(s) == FALSE \* only a success is recorded
Outcome(s) == pc[s] = "failed"

\* Save records its outcome and gives saveMu back. Main is Flush.
Record(s) ==
  /\ pc[s] \in {"renamed", "failed"}
  /\ saveErr' = Outcome(s) /\ holder' = NoSaver
  /\ pc' = [pc EXCEPT ![s] = IF s = Main THEN "flushed" ELSE "idle"]
  /\ UNCHANGED <<board, changes, mem, file, aside, noSave, timer, setter, snap, owed>>

-----------------------------------------------------------------------------
\* Flush stops the timer and saves, whether or not a save was pending.
Flushes == "save"

Flush ==
  /\ board = "up" /\ setter[Main] = "idle"
  /\ board' = "quit" /\ timer' = "nil" /\ owed' = mem
  /\ pc' = [pc EXCEPT ![Main] = Flushes]
  /\ UNCHANGED <<changes, mem, file, aside, noSave, saveErr, setter, holder, snap>>

\* App.Run returns, and every goroutine ends with the process.
Exit ==
  /\ board = "quit" /\ pc[Main] = "flushed" /\ board' = "down"
  /\ Idle /\ UNCHANGED <<changes, file, aside>>

\* The process dies; a temporary file may stay behind, which nobody reads.
Crash ==
  /\ board # "down" /\ board' = "down"
  /\ Idle /\ UNCHANGED <<changes, file, aside>>

\* Somebody edits the file, or a disk does, while no board runs.
Damage ==
  /\ board = "down" /\ file \in Nat
  /\ file' \in Damaged /\ aside' = FALSE
  /\ UNCHANGED <<session, changes>>

Saving(s) == LockSave(s) \/ Snapshot(s) \/ Rename(s) \/ SaveFails(s) \/ Record(s)

Next ==
  \/ Open \/ Flush \/ Exit \/ Crash \/ Damage
  \/ \E s \in Setters : Change(s) \/ Schedule(s)
  \/ \E c \in Callbacks : Fire(c)
  \/ \E s \in Savers : Saving(s)

Spec == Init /\ [][Next]_vars

\* Goroutines get to run and the timer fires; nothing else need happen.
FairSpec ==
  /\ Spec
  /\ \A s \in Setters : WF_vars(Schedule(s))
  /\ WF_vars(\E c \in Callbacks : Fire(c))
  /\ \A s \in Savers : WF_vars(Saving(s))

-----------------------------------------------------------------------------
\* The type of every variable.
TypeOK ==
  /\ board \in {"down", "up", "quit"} /\ changes \in 0..MaxChanges /\ mem \in Nat
  /\ file \in Nat \cup {Absent} \cup Damaged
  /\ aside \in BOOLEAN /\ noSave \in BOOLEAN /\ saveErr \in BOOLEAN
  /\ timer \in {"nil", "armed", "fired"} /\ setter \in [Setters -> {"idle", "changed"}]
  /\ holder \in Savers \cup {NoSaver}
  /\ pc \in [Savers -> {"idle", "save", "locked", "taken", "renamed", "failed", "flushed"}]
  /\ snap \in [Savers -> Nat] /\ owed \in Nat

\* A newer state on disk is never replaced by an older one, whichever of the
\* timer's goroutines and Flush saves last, and across crashes and restarts.
GoesForward == file \in Nat /\ file' \in Nat => file' >= file
NeverGoesBack == [][GoesForward]_vars

\* A file that did not parse is replaced only once it has been moved aside.
KeepsGarbled == file = Garbled /\ file' # Garbled => aside'
NeverClobbers == [][KeepsGarbled]_vars

\* What happens to the file in any step: it neither goes back to an older state
\* nor loses one that nobody could read.
FileKept == [][GoesForward /\ KeepsGarbled]_vars

\* When nothing is under way or pending, the disk has what the board shows, or
\* SaveError says otherwise: a failed save is not retried, but it is not silent.
Settled ==
  /\ board = "up" /\ timer # "armed"
  /\ \A s \in Setters : setter[s] = "idle"
  /\ \A s \in Savers : pc[s] = "idle"
UnsavedIsSaid == Settled => file = mem \/ saveErr \/ mem = 0

\* What was changed up to n is on disk.
Safe(n) == file \in Nat /\ file >= n

\* A quit keeps everything the board had when it began to flush, or says that it
\* did not, even with a save of the timer under way in the same moment.
FlushKeeps == pc[Main] = "flushed" => saveErr \/ Safe(owed)

\* Nothing goes unsaved in silence, in a session or at its end.
SavedOrSaid == UnsavedIsSaid /\ FlushKeeps

\* Every change reaches the disk, or its save has failed, or the board went
\* down first: a change is not forgotten between a running save and its timer.
EventuallySaved ==
  \A n \in 1..MaxChanges : mem = n ~> Safe(n) \/ saveErr \/ board = "down"
=============================================================================
