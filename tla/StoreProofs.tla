---------------------------- MODULE StoreProofs ----------------------------
(***************************************************************************)
(* The sidecar file, for any number of the timer's goroutines and of       *)
(* changes.                                                                *)
(***************************************************************************)
EXTENDS Store, TLAPS

\* Where a saver is while it has saveMu.
Holds(s) == pc[s] \in {"locked", "taken", "renamed", "failed"}

\* saveMu is a lock, and a board that is down has nobody in Save
\* and no timer.
Sole ==
  /\ \A s \in Savers : Holds(s) => holder = s
  /\ board = "down" => timer = "nil" /\ \A s \in Savers : pc[s] = "idle"
  /\ board # "quit" => pc[Main] = "idle"

\* The disk is behind the store, and a snapshot between the two.
Ordered ==
  /\ mem <= changes /\ (file \in Nat => file <= changes)
  /\ board # "down" /\ file \in Nat => file <= mem
  /\ \A s \in Savers :
       /\ pc[s] \in {"taken", "renamed"} => snap[s] <= mem
       /\ pc[s] = "taken" /\ file \in Nat => file <= snap[s]
       /\ pc[s] = "renamed" => file = snap[s]

\* A garbled file under a running board forbids every save.
Refused ==
  /\ board # "down" /\ file = Garbled => noSave
  /\ noSave => \A s \in Savers : pc[s] \notin {"taken", "renamed"}

\* A save is to come that will snapshot what the store holds now.
Coming ==
  \/ timer = "armed" \/ \E s \in Setters : setter[s] = "changed"
  \/ \E s \in Savers : pc[s] \in {"save", "locked"}

\* While the board is up, what is not on disk is on its way, or an error is
\* recorded or about to be; the saver that will clear the error has the latest
\* state, or another save follows it.
Pending ==
  board = "up" =>
    /\ \/ mem = 0 \/ file = mem \/ saveErr \/ Coming
       \/ \E s \in Savers : pc[s] = "failed" \/ (pc[s] = "taken" /\ snap[s] = mem)
    /\ \A s \in Savers : pc[s] \in {"taken", "renamed"} => snap[s] = mem \/ Coming

\* Whoever saves in Flush, or after it, snapshots at least what it owes.
Owing ==
  board = "quit" =>
    /\ owed <= mem
    /\ pc[Main] \in {"taken", "renamed"} => snap[Main] >= owed
    /\ pc[Main] = "flushed" =>
         /\ saveErr \/ Safe(owed)
         /\ \A s \in Savers : pc[s] \in {"taken", "renamed"} => snap[s] >= owed

StoreInv == TypeOK /\ Sole /\ Ordered /\ Refused /\ Pending /\ Owing

\* The first session starts from no file.
LEMMA InitStore == Init => StoreInv
<1> SUFFICES ASSUME Init PROVE StoreInv
  OBVIOUS
<1> USE DEF Init
<1>1. TypeOK
  <2>1. setter \in [Setters -> {"idle", "changed"}]
    OBVIOUS
  <2>2. pc \in [Savers -> {"idle", "save", "locked", "taken", "renamed", "failed", "flushed"}]
    OBVIOUS
  <2>3. snap \in [Savers -> Nat]
    OBVIOUS
  <2>4. board \in {"down", "up", "quit"} /\ changes \in 0..MaxChanges /\ mem \in Nat /\ owed \in Nat
    BY StoreAssumption
  <2>5. file \in Nat \cup {Absent} \cup Damaged
    OBVIOUS
  <2>6. aside \in BOOLEAN /\ noSave \in BOOLEAN /\ saveErr \in BOOLEAN
    OBVIOUS
  <2>7. timer \in {"nil", "armed", "fired"} /\ holder \in Savers \cup {NoSaver}
    OBVIOUS
  <2> HIDE DEF Init
  <2> QED
    BY <2>1, <2>2, <2>3, <2>4, <2>5, <2>6, <2>7 DEF TypeOK
<1>2. Sole
  BY DEF Sole, Holds, Savers
<1>3. Ordered
  BY StoreAssumption DEF Ordered
<1>4. Refused /\ Pending /\ Owing
  BY DEF Refused, Pending, Owing
<1> QED
  BY <1>1, <1>2, <1>3, <1>4 DEF StoreInv

\* What Idle assigns has its type.
LEMMA IdleTypes ==
  Idle => /\ mem' \in Nat /\ noSave' \in BOOLEAN /\ saveErr' \in BOOLEAN /\ owed' \in Nat
          /\ timer' \in {"nil", "armed", "fired"}
          /\ setter' \in [Setters -> {"idle", "changed"}]
          /\ holder' \in Savers \cup {NoSaver}
          /\ pc' \in [Savers -> {"idle", "save", "locked", "taken", "renamed", "failed", "flushed"}]
          /\ snap' \in [Savers -> Nat]
<1>1. Idle => mem' \in Nat /\ owed' \in Nat
  BY DEF Idle
<1>2. Idle => noSave' \in BOOLEAN /\ saveErr' \in BOOLEAN
  BY DEF Idle
<1>3. Idle => timer' \in {"nil", "armed", "fired"}
  BY DEF Idle
<1>4. Idle => setter' \in [Setters -> {"idle", "changed"}]
  BY DEF Idle
<1>5. Idle => holder' \in Savers \cup {NoSaver}
  BY DEF Idle
<1>6. Idle =>
        pc' \in [Savers -> {"idle", "save", "locked", "taken", "renamed", "failed", "flushed"}]
  BY DEF Idle
<1>7. Idle => snap' \in [Savers -> Nat]
  BY DEF Idle
<1> QED
  BY <1>1, <1>2, <1>3, <1>4, <1>5, <1>6, <1>7

\* Every action keeps the types.
LEMMA TypeStep == TypeOK /\ [Next]_vars => TypeOK'
<1> SUFFICES ASSUME TypeOK, [Next]_vars PROVE TypeOK'
  OBVIOUS
<1> USE StoreAssumption DEF TypeOK, Damaged
<1>1. Open => TypeOK'
  BY DEF Open, Loaded, Refuses
<1>2. Flush => TypeOK'
  BY DEF Flush, Flushes, Savers
<1>3. Exit => TypeOK'
  BY IdleTypes DEF Exit
<1>4. Crash => TypeOK'
  BY IdleTypes DEF Crash
<1>5. Damage => TypeOK'
  BY DEF Damage, session
<1>6. ASSUME NEW s \in Setters, Change(s) PROVE TypeOK'
  BY <1>6 DEF Change
<1>7. ASSUME NEW s \in Setters, Schedule(s) PROVE TypeOK'
  BY <1>7 DEF Schedule, Scheduled
<1>8. ASSUME NEW c \in Callbacks, Fire(c) PROVE TypeOK'
  BY <1>8 DEF Fire, Savers
<1>9. ASSUME NEW s \in Savers, LockSave(s) PROVE TypeOK'
  BY <1>9 DEF LockSave, SaveMuFree
<1>10. ASSUME NEW s \in Savers, Snapshot(s) PROVE TypeOK'
  BY <1>10 DEF Snapshot
<1>11. ASSUME NEW s \in Savers, Rename(s) PROVE TypeOK'
  BY <1>11 DEF Rename
<1>12. ASSUME NEW s \in Savers, SaveFails(s) PROVE TypeOK'
  BY <1>12 DEF SaveFails
<1>13. ASSUME NEW s \in Savers, Record(s) PROVE TypeOK'
  BY <1>13 DEF Record, Outcome
<1>14. UNCHANGED vars => TypeOK'
  BY DEF vars, session
<1> QED
  BY <1>1, <1>2, <1>3, <1>4, <1>5, <1>6, <1>7, <1>8, <1>9, <1>10, <1>11, <1>12, <1>13, <1>14 DEF Next, Saving

\* Only a saver that found saveMu free has it.
LEMMA SoleStep ==
  TypeOK /\ Sole /\ [Next]_vars => Sole'
<1> SUFFICES ASSUME TypeOK, Sole, [Next]_vars PROVE Sole'
  OBVIOUS
<1> USE StoreAssumption DEF TypeOK, Sole, Holds, Savers
<1>1. Open => Sole'
  BY DEF Open, Loaded
<1>2. Flush => Sole'
  BY DEF Flush, Flushes
<1>3. Exit => Sole'
  BY DEF Exit, Idle
<1>4. Crash => Sole'
  BY DEF Crash, Idle
<1>5. Damage => Sole'
  BY DEF Damage, session
<1>6. ASSUME NEW s \in Setters, Change(s) PROVE Sole'
  BY <1>6 DEF Change
<1>7. ASSUME NEW s \in Setters, Schedule(s) PROVE Sole'
  BY <1>7 DEF Schedule
<1>8. ASSUME NEW c \in Callbacks, Fire(c) PROVE Sole'
  BY <1>8 DEF Fire
<1>9. ASSUME NEW s \in Savers, LockSave(s) PROVE Sole'
  BY <1>9 DEF LockSave, SaveMuFree
<1>10. ASSUME NEW s \in Savers, Snapshot(s) PROVE Sole'
  BY <1>10 DEF Snapshot
<1>11. ASSUME NEW s \in Savers, Rename(s) PROVE Sole'
  BY <1>11 DEF Rename
<1>12. ASSUME NEW s \in Savers, SaveFails(s) PROVE Sole'
  BY <1>12 DEF SaveFails
<1>13. ASSUME NEW s \in Savers, Record(s) PROVE Sole'
  BY <1>13 DEF Record
<1>14. UNCHANGED vars => Sole'
  BY DEF vars, session
<1> QED
  BY <1>1, <1>2, <1>3, <1>4, <1>5, <1>6, <1>7, <1>8, <1>9, <1>10, <1>11, <1>12, <1>13, <1>14 DEF Next, Saving

\* A snapshot is taken, and renamed, by the one saver that has saveMu.
LEMMA OrderedStep ==
  TypeOK /\ Sole /\ Ordered /\ [Next]_vars => Ordered'
<1> SUFFICES ASSUME TypeOK, Sole, Ordered, [Next]_vars PROVE Ordered'
  OBVIOUS
<1> USE StoreAssumption DEF TypeOK, Sole, Holds, Ordered, Savers, Damaged
<1>1. Open => Ordered'
  BY DEF Open, Loaded
<1>2. Flush => Ordered'
  BY DEF Flush, Flushes
<1>3. Exit => Ordered'
  BY DEF Exit, Idle
<1>4. Crash => Ordered'
  BY DEF Crash, Idle
<1>5. Damage => Ordered'
  BY DEF Damage, session
<1>6. ASSUME NEW s \in Setters, Change(s) PROVE Ordered'
  BY <1>6 DEF Change
<1>7. ASSUME NEW s \in Setters, Schedule(s) PROVE Ordered'
  BY <1>7 DEF Schedule
<1>8. ASSUME NEW c \in Callbacks, Fire(c) PROVE Ordered'
  BY <1>8 DEF Fire
<1>9. ASSUME NEW s \in Savers, LockSave(s) PROVE Ordered'
  BY <1>9 DEF LockSave, SaveMuFree
<1>10. ASSUME NEW s \in Savers, Snapshot(s) PROVE Ordered'
  BY <1>10 DEF Snapshot
<1>11. ASSUME NEW s \in Savers, Rename(s) PROVE Ordered'
  BY <1>11 DEF Rename
<1>12. ASSUME NEW s \in Savers, SaveFails(s) PROVE Ordered'
  BY <1>12 DEF SaveFails
<1>13. ASSUME NEW s \in Savers, Record(s) PROVE Ordered'
  BY <1>13 DEF Record
<1>14. UNCHANGED vars => Ordered'
  BY DEF vars, session
<1> QED
  BY <1>1, <1>2, <1>3, <1>4, <1>5, <1>6, <1>7, <1>8, <1>9, <1>10, <1>11, <1>12, <1>13, <1>14 DEF Next, Saving

\* Only a damaged file makes Open refuse, and the refusal lasts the session.
LEMMA RefusedStep ==
  TypeOK /\ Sole /\ Refused /\ [Next]_vars => Refused'
<1> SUFFICES ASSUME TypeOK, Sole, Refused, [Next]_vars PROVE Refused'
  OBVIOUS
<1> USE StoreAssumption DEF TypeOK, Sole, Refused, Savers, Damaged
<1>1. Open => Refused'
  BY DEF Open, Loaded, Refuses
<1>2. Flush => Refused'
  BY DEF Flush, Flushes
<1>3. Exit => Refused'
  BY DEF Exit, Idle
<1>4. Crash => Refused'
  BY DEF Crash, Idle
<1>5. Damage => Refused'
  BY DEF Damage, session
<1>6. ASSUME NEW s \in Setters, Change(s) PROVE Refused'
  BY <1>6 DEF Change
<1>7. ASSUME NEW s \in Setters, Schedule(s) PROVE Refused'
  BY <1>7 DEF Schedule
<1>8. ASSUME NEW c \in Callbacks, Fire(c) PROVE Refused'
  BY <1>8 DEF Fire
<1>9. ASSUME NEW s \in Savers, LockSave(s) PROVE Refused'
  BY <1>9 DEF LockSave, SaveMuFree
<1>10. ASSUME NEW s \in Savers, Snapshot(s) PROVE Refused'
  BY <1>10 DEF Snapshot
<1>11. ASSUME NEW s \in Savers, Rename(s) PROVE Refused'
  BY <1>11 DEF Rename
<1>12. ASSUME NEW s \in Savers, SaveFails(s) PROVE Refused'
  BY <1>12 DEF SaveFails
<1>13. ASSUME NEW s \in Savers, Record(s) PROVE Refused'
  BY <1>13 DEF Record
<1>14. UNCHANGED vars => Refused'
  BY DEF vars, session
<1> QED
  BY <1>1, <1>2, <1>3, <1>4, <1>5, <1>6, <1>7, <1>8, <1>9, <1>10, <1>11, <1>12, <1>13, <1>14 DEF Next, Saving

\* A change is followed by its schedule, that by its save.
LEMMA PendingStep ==
  TypeOK /\ Sole /\ Ordered /\ Pending /\ [Next]_vars => Pending'
<1> SUFFICES ASSUME TypeOK, Sole, Ordered, Pending, [Next]_vars PROVE Pending'
  OBVIOUS
<1> USE StoreAssumption DEF TypeOK, Sole, Holds, Ordered, Pending, Coming, Savers, Setters, Damaged
<1>1. Open => Pending'
  BY DEF Open, Loaded
<1>2. Flush => Pending'
  BY DEF Flush, Flushes
<1>3. Exit => Pending'
  BY DEF Exit, Idle
<1>4. Crash => Pending'
  BY DEF Crash, Idle
<1>5. Damage => Pending'
  BY DEF Damage, session
<1>6. ASSUME NEW s \in Setters, Change(s) PROVE Pending'
  BY <1>6 DEF Change
<1>7. ASSUME NEW s \in Setters, Schedule(s) PROVE Pending'
  BY <1>7 DEF Schedule, Scheduled
<1>8. ASSUME NEW c \in Callbacks, Fire(c) PROVE Pending'
  BY <1>8 DEF Fire
<1>9. ASSUME NEW s \in Savers, LockSave(s) PROVE Pending'
  BY <1>9 DEF LockSave, SaveMuFree
<1>10. ASSUME NEW s \in Savers, Snapshot(s) PROVE Pending'
  BY <1>10 DEF Snapshot
<1>11. ASSUME NEW s \in Savers, Rename(s) PROVE Pending'
  BY <1>11 DEF Rename
<1>12. ASSUME NEW s \in Savers, SaveFails(s) PROVE Pending'
  BY <1>12 DEF SaveFails
<1>13. ASSUME NEW s \in Savers, Record(s) PROVE Pending'
  BY <1>13 DEF Record, Outcome
<1>14. UNCHANGED vars => Pending'
  BY DEF vars, session
<1> QED
  BY <1>1, <1>2, <1>3, <1>4, <1>5, <1>6, <1>7, <1>8, <1>9, <1>10, <1>11, <1>12, <1>13, <1>14 DEF Next, Saving

\* Nothing snapshotted before Flush began is renamed after Flush saved.
LEMMA OwingStep ==
  TypeOK /\ Sole /\ Ordered /\ Owing /\ [Next]_vars => Owing'
<1> SUFFICES ASSUME TypeOK, Sole, Ordered, Owing, [Next]_vars PROVE Owing'
  OBVIOUS
<1> USE StoreAssumption DEF TypeOK, Sole, Holds, Ordered, Owing, Safe, Savers, Setters, Damaged
<1>1. Open => Owing'
  BY DEF Open, Loaded
<1>2. Flush => Owing'
  BY DEF Flush, Flushes
<1>3. Exit => Owing'
  BY DEF Exit, Idle
<1>4. Crash => Owing'
  BY DEF Crash, Idle
<1>5. Damage => Owing'
  BY DEF Damage, session
<1>6. ASSUME NEW s \in Setters, Change(s) PROVE Owing'
  BY <1>6 DEF Change
<1>7. ASSUME NEW s \in Setters, Schedule(s) PROVE Owing'
  BY <1>7 DEF Schedule
<1>8. ASSUME NEW c \in Callbacks, Fire(c) PROVE Owing'
  BY <1>8 DEF Fire
<1>9. ASSUME NEW s \in Savers, LockSave(s) PROVE Owing'
  BY <1>9 DEF LockSave, SaveMuFree
<1>10. ASSUME NEW s \in Savers, Snapshot(s) PROVE Owing'
  BY <1>10 DEF Snapshot
<1>11. ASSUME NEW s \in Savers, Rename(s) PROVE Owing'
  BY <1>11 DEF Rename
<1>12. ASSUME NEW s \in Savers, SaveFails(s) PROVE Owing'
  BY <1>12 DEF SaveFails
<1>13. ASSUME NEW s \in Savers, Record(s) PROVE Owing'
  <2> USE <1>13 DEF Record, Outcome
  <2>1. CASE s = Main
    <3>1. pc[Main] = "failed" => saveErr'
      BY <2>1
    <3>2. board = "quit" /\ pc[Main] = "renamed" => Safe(owed)'
      BY <2>1
    <3>3. \A x \in Savers : pc'[x] \notin {"taken", "renamed"}
      BY <2>1
    <3>4. pc[Main] \in {"renamed", "failed"} /\ pc'[Main] = "flushed"
      BY <2>1
    <3> QED
      BY <2>1, <3>1, <3>2, <3>3, <3>4
  <2>2. CASE s # Main
    BY <2>2
  <2> QED
    BY <2>1, <2>2
<1>14. UNCHANGED vars => Owing'
  BY DEF vars, session
<1> QED
  BY <1>1, <1>2, <1>3, <1>4, <1>5, <1>6, <1>7, <1>8, <1>9, <1>10, <1>11, <1>12, <1>13, <1>14 DEF Next, Saving

\* StoreInv is inductive.
LEMMA StoreInvariant == Spec => []StoreInv
<1>1. StoreInv /\ [Next]_vars => StoreInv'
  BY TypeStep, SoleStep, OrderedStep, RefusedStep, PendingStep, OwingStep DEF StoreInv
<1> QED
  BY InitStore, <1>1, PTL DEF Spec

-----------------------------------------------------------------------------
\* Every variable keeps its type.
THEOREM TypeCorrect == Spec => []TypeOK
<1>1. StoreInv => TypeOK
  BY DEF StoreInv
<1> QED
  BY StoreInvariant, <1>1, PTL

\* Whatever is on disk is never replaced by an older state, for any number of
\* concurrent savers, crashes and restarts: the rename is done by the holder of
\* saveMu, whose snapshot is no older than the disk.
THEOREM ForwardCorrect == Spec => NeverGoesBack
<1>1. StoreInv /\ [Next]_vars => GoesForward
  <2> SUFFICES ASSUME StoreInv, [Next]_vars PROVE GoesForward
    OBVIOUS
  <2> USE StoreAssumption DEF StoreInv, TypeOK, Ordered, GoesForward
  <2>1. ASSUME NEW s \in Savers, Rename(s) PROVE GoesForward
    BY <2>1 DEF Rename
  <2>2. Open => GoesForward
    BY DEF Open, Loaded
  <2>3. Damage => GoesForward
    BY DEF Damage, Damaged
  <2>4. UNCHANGED file => GoesForward
    OBVIOUS
  <2>5. (\E s \in Savers : Rename(s)) \/ Open \/ Damage \/ UNCHANGED file
    BY DEF Next, Saving, vars, Flush, Exit, Crash, Change, Schedule, Fire, LockSave,
           Snapshot, SaveFails, Record
  <2> QED
    BY <2>1, <2>2, <2>3, <2>4, <2>5
<1>2. StoreInv /\ [Next]_vars => [GoesForward]_vars
  BY <1>1
<1> QED
  BY StoreInvariant, <1>2, PTL DEF Spec, NeverGoesBack

\* A state file that does not parse is never saved over before it is kept.
THEOREM ClobberCorrect == Spec => NeverClobbers
<1>1. StoreInv /\ [Next]_vars => KeepsGarbled
  <2> SUFFICES ASSUME StoreInv, [Next]_vars PROVE KeepsGarbled
    OBVIOUS
  <2> USE StoreAssumption DEF StoreInv, TypeOK, Sole, Refused, KeepsGarbled
  <2>1. ASSUME NEW s \in Savers, Rename(s) PROVE KeepsGarbled
    BY <2>1 DEF Rename
  <2>2. Open => KeepsGarbled
    BY DEF Open, Loaded
  <2>3. Damage => KeepsGarbled
    BY DEF Damage, session
  <2>4. UNCHANGED file => KeepsGarbled
    OBVIOUS
  <2>5. (\E s \in Savers : Rename(s)) \/ Open \/ Damage \/ UNCHANGED file
    BY DEF Next, Saving, vars, Flush, Exit, Crash, Change, Schedule, Fire, LockSave,
           Snapshot, SaveFails, Record
  <2> QED
    BY <2>1, <2>2, <2>3, <2>4, <2>5
<1>2. StoreInv /\ [Next]_vars => [KeepsGarbled]_vars
  BY <1>1
<1> QED
  BY StoreInvariant, <1>2, PTL DEF Spec, NeverClobbers

\* A store at rest is on disk or says that it is not.
THEOREM UnsavedCorrect == Spec => []UnsavedIsSaid
<1>1. StoreInv => UnsavedIsSaid
  BY DEF StoreInv, Pending, Coming, UnsavedIsSaid, Settled
<1> QED
  BY StoreInvariant, <1>1, PTL

\* A clean quit loses nothing it does not report.
THEOREM FlushCorrect == Spec => []FlushKeeps
<1>1. StoreInv => FlushKeeps
  BY StoreAssumption DEF StoreInv, TypeOK, Sole, Owing, FlushKeeps, Savers
<1> QED
  BY StoreInvariant, <1>1, PTL
\* The file goes forward and is never written over unread, whatever the step.
THEOREM FileCorrect == Spec => FileKept
<1> QED
  BY ForwardCorrect, ClobberCorrect, PTL DEF FileKept, NeverGoesBack, NeverClobbers

\* Nothing goes unsaved in silence.
THEOREM SavedCorrect == Spec => []SavedOrSaid
<1> QED
  BY UnsavedCorrect, FlushCorrect, PTL DEF SavedOrSaid
=============================================================================
