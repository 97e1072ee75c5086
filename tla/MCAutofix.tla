---------------------------- MODULE MCAutofix ----------------------------
(***************************************************************************)
(* Instances of Autofix for TLC. The passing run starts in every scenario  *)
(* of Kept; those of the run that expects a violation stand alone.         *)
(***************************************************************************)
EXTENDS Autofix

CONSTANTS r1, r2, w, t

TwoRepos == <<r1, r2>>

Free == [on |-> TRUE, metered |-> FALSE, local |-> FALSE, graft |-> FALSE, create |-> FALSE,
         global |-> FALSE, enroll |-> FALSE]
Local == [Free EXCEPT !.local = TRUE]
Billed == [Free EXCEPT !.metered = TRUE]
BilledAndLocal == [Billed EXCEPT !.local = TRUE]
Graft == [Free EXCEPT !.graft = TRUE]
Whole == [Graft EXCEPT !.create = TRUE, !.global = TRUE, !.enroll = TRUE]

Plain == [start |-> "well", repos |-> {r1}, fleet |-> {}, settings |-> {Free},
          harms |-> {"edit"}, harm |-> 1, press |-> 0, pressed |-> FALSE]

Kept ==
  { \* the budget of billed chains, with every click, and a checkout that leaves
    [Plain EXCEPT !.settings = {Billed}, !.harms = {"unname", "leave"}, !.harm = 2, !.press = 1],
    \* a local model that comes and goes, and its setting
    [Plain EXCEPT !.settings = {Free, Local}, !.harms = {"unname"}, !.press = 1],
    \* free repairs again and again
    [Plain EXCEPT !.harm = 2],
    [Plain EXCEPT !.harms = {"delete", "flag"}],
    \* commits that overtake the restamp, and the copy in the global graph
    [Plain EXCEPT !.settings = {Whole}, !.start = "commit", !.harms = {"commit"}],
    \* two repositories for one slot
    [Plain EXCEPT !.settings = {Graft}, !.start = "graft", !.harm = 0, !.repos = {r1, r2}],
    \* a repository, a root and a member for one slot
    [Plain EXCEPT !.settings = {Whole}, !.harms = {"ungraft"}, !.fleet = {w}],
    [Plain EXCEPT !.settings = {Whole}, !.harms = {}, !.harm = 2, !.fleet = {w, t}] }

LocalAndBilled ==
  {[Plain EXCEPT !.settings = {BilledAndLocal}, !.harms = {"unname"}, !.harm = 2]}
=============================================================================
