---------------------------- MODULE MCIdleOllama ----------------------------
(***************************************************************************)
(* The life of a server under each of its owners: the board, which stops   *)
(* an idle server after a grace period, with the server a process of its   *)
(* own or a systemd unit, and the headless job command, which has one      *)
(* lease and stops its server on the way out.                              *)
(***************************************************************************)
EXTENDS MCAutoOllama

\* The job that every owner has.
ASSUME OwnJob == a \in Job

VARIABLE owner  \* "board", "shared", "clicked", "unit" or "headless"

UnitBoard == INSTANCE AutoOllama WITH Route <- "unit"
OneShotJob == INSTANCE AutoOllama WITH OneShot <- TRUE

\* What is left of the bounds. The buttons are pressed in behaviours of their own,
\* and two jobs share the server in others; elsewhere the second job is one that
\* found the lifecycle switched off.
Spent == [board |-> [takes |-> 1, clicks |-> MaxClicks],
          shared |-> [takes |-> 1, clicks |-> MaxClicks],
          clicked |-> [takes |-> 1, clicks |-> 0],
          unit |-> [takes |-> 0, clicks |-> MaxClicks],
          headless |-> [takes |-> MaxTakes - 1, clicks |-> MaxClicks]]

OwnedInit ==
  /\ owner \in DOMAIN Spent
  /\ takes = Spent[owner].takes /\ clicks = Spent[owner].clicks
  /\ n = 0 /\ timer = "nil" /\ loose = 0
  /\ started = NoServer /\ pinned = FALSE
  /\ lease = [j \in Job |-> IF j = a \/ owner = "shared" THEN "new" ELSE "inert"]
  /\ now = [j \in Job |-> FALSE]
  /\ seen = [x \in Actor |-> FALSE] /\ claim = [x \in Actor |-> NoServer]
  /\ pc = [x \in Actor |-> "idle"]
  /\ server = [s \in Server |-> "none"] /\ origin = [s \in Server |-> "nobody"]
  /\ asked = {}

OwnedNext ==
  /\ \/ owner \in {"board", "shared", "clicked"} /\ Next
     \/ owner = "unit" /\ UnitBoard!Next
     \/ owner = "headless" /\ OneShotJob!Next
  /\ UNCHANGED owner

\* The fairness of the three is one formula, over the actions of each.
OwnedSpec ==
  OwnedInit /\ [][OwnedNext]_<<vars, owner>> /\ Fairness

\* IdleStops and NothingOutlivesBoard, for the owners they hold for. The headless
\* command has no idle timer. A click on Start whose server is slow to answer leaves
\* one that nobody pinned and no timer waits for, and two jobs can leave one that no
\* timer waits for either (AutoOllama!IdleStops). A start beside a server
\* that does not answer yet records its own, which finds the port taken and exits,
\* and nobody remembers the first.
IdleStopsOnBoard == owner \in {"board", "unit"} => IdleStops
NothingOutlivesOwner == owner \in {"board", "unit", "headless"} => NothingOutlivesBoard
=============================================================================
