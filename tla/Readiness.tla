----------------------------- MODULE Readiness -----------------------------
(***************************************************************************)
(* Whether the configured backend is ready: the cached probe of the local  *)
(* model server (gfy.ProbeLocal: a value past its time is still answered   *)
(* while one background probe replaces it), the start and stop that drop   *)
(* it (StartOllama, StopOllama, InvalidateLocalProbe), and the banner that *)
(* says a pin has stopped working (ui/backend.go).                         *)
(***************************************************************************)
EXTENDS Naturals

CONSTANTS Backends,   \* what may be pinned; "ollama" is the local one
          Ready,      \* of the others, those with a credential
          MaxFlips    \* bound: server, pin

None == [epoch |-> 0, up |-> FALSE, at |-> 0, pc |-> "none"]
NoProbe == [up |-> FALSE, at |-> 0, known |-> FALSE]
Callers == {"check", "starter"}

VARIABLES up,          \* the server answers
          time,        \* changes so far, which date a measurement
          cache,       \* probeCache.m
          fresh,       \* ... younger than probeTTL
          epoch, refreshing, floor,  \* floor: time at the last invalidation
          probes,      \* the probe each caller, or the background one, is at
          answer,      \* what ProbeLocal returned to each caller
          starter,     \* StartOllama
          pin, check, banner  \* check: the pin a verdict is being found for

readinessVars ==
  <<up, time, cache, fresh, epoch, refreshing, floor, probes, answer, starter, pin, check, banner>>
server == <<up, time>>
probing == <<cache, fresh, epoch, refreshing, floor, probes, answer>>
window == <<pin, check, banner>>

ReadinessInit ==
  /\ up \in BOOLEAN /\ time = 0
  /\ cache = NoProbe /\ fresh = FALSE /\ epoch = 0 /\ refreshing = FALSE /\ floor = 0
  /\ probes = [c \in Callers \cup {"background"} |-> None]
  /\ answer = [c \in Callers |-> NoProbe]
  /\ starter = "idle"
  /\ pin \in Backends /\ check = pin /\ banner = FALSE  \* the window asks as it opens

-----------------------------------------------------------------------------
ServerMoves ==
  /\ time < MaxFlips /\ time' = time + 1 /\ up' = ~up
  /\ UNCHANGED <<probing, starter, window>>

Waits(c) == probes[c].pc = "none" /\ ~answer[c].known
Probing(e) == [None EXCEPT !.pc = "started", !.epoch = e]

\* ProbeLocal: fresh; past its time, with a refresh started unless one is in flight;
\* or a probe of its own.
ProbeLocal(c) ==
  /\ Waits(c)
  /\ IF cache.known
     THEN /\ answer' = [answer EXCEPT ![c] = cache]
          /\ IF fresh \/ refreshing THEN UNCHANGED <<probes, refreshing>>
             ELSE probes' = [probes EXCEPT !["background"] = Probing(epoch)] /\ refreshing' = TRUE
     ELSE probes' = [probes EXCEPT ![c] = Probing(epoch)] /\ UNCHANGED <<answer, refreshing>>

Measures(c) ==
  /\ probes[c].pc = "started"
  /\ probes' = [probes EXCEPT ![c].pc = "measured", ![c].up = up, ![c].at = time]
  /\ UNCHANGED <<server, cache, fresh, epoch, refreshing, floor, answer, starter, window>>

\* A measurement that an invalidation overtook is returned and not kept.
Keeps(c) == probes[c].epoch = epoch

Refreshed(c) == refreshing /\ c # "background"

ProbeStored(c) ==
  /\ probes[c].pc = "measured"
  /\ LET p == [up |-> probes[c].up, at |-> probes[c].at, known |-> TRUE] IN
       /\ IF Keeps(c) THEN cache' = p /\ fresh' = TRUE ELSE UNCHANGED <<cache, fresh>>
       /\ answer' = IF c \in Callers THEN [answer EXCEPT ![c] = p] ELSE answer
  /\ probes' = [probes EXCEPT ![c] = None] /\ refreshing' = Refreshed(c)
  /\ UNCHANGED <<server, epoch, floor, starter, window>>

Expires ==
  /\ fresh /\ fresh' = FALSE
  /\ UNCHANGED <<server, cache, epoch, refreshing, floor, probes, answer, starter, window>>

Invalidate ==
  /\ cache' = NoProbe /\ fresh' = FALSE /\ epoch' = epoch + 1 /\ floor' = time'
  /\ UNCHANGED <<refreshing, probes>>

-----------------------------------------------------------------------------
\* StartOllama asks anew, starts the server, and asks anew until it answers or the
\* deadline passes; StopOllama, and the settings page's own check, drop the value.
StartOllama ==
  /\ starter = "idle" /\ epoch < MaxFlips /\ starter' = "asks"
  /\ UNCHANGED <<server, answer, window>> /\ Invalidate

StarterAsks ==
  /\ starter \in {"asks", "polls"} /\ ProbeLocal("starter")
  /\ UNCHANGED <<server, cache, fresh, epoch, floor, starter, window>>

StarterAnswered ==
  /\ answer["starter"].known /\ answer' = [answer EXCEPT !["starter"] = NoProbe]
  /\ IF answer["starter"].up
     THEN starter' = "idle" /\ UNCHANGED <<server, cache, fresh, epoch, floor, refreshing, probes>>
     ELSE \/ /\ starter = "asks" /\ starter' = "polls" /\ time < MaxFlips
             /\ time' = time + 1 /\ up' = TRUE /\ epoch < MaxFlips /\ Invalidate
          \/ /\ starter = "polls" /\ UNCHANGED <<server, starter>>
             /\ epoch < MaxFlips /\ Invalidate
          \/ starter' = "idle" /\ UNCHANGED <<server, cache, fresh, epoch, floor, refreshing, probes>>
  /\ UNCHANGED window

StopOllama ==
  /\ starter = "idle" /\ up /\ time < MaxFlips /\ epoch < MaxFlips
  /\ time' = time + 1 /\ up' = FALSE /\ Invalidate
  /\ UNCHANGED <<answer, starter, window>>

-----------------------------------------------------------------------------
\* checkBackend: one at a time, of the pin as it is now.
CheckBackend == check' = IF check = "none" THEN pin' ELSE check

PinSaved ==
  /\ time < MaxFlips /\ time' = time + 1 /\ pin' \in Backends \ {pin} /\ CheckBackend
  /\ UNCHANGED <<up, probing, starter, banner>>

\* The verdict of another backend than the local one waits for nothing.
VerdictAsks ==
  /\ check = "ollama" /\ ProbeLocal("check")
  /\ UNCHANGED <<server, cache, fresh, epoch, floor, starter, window>>

ShowBackendVerdict ==
  /\ check # "none" /\ (check = "ollama" => answer["check"].known)
  /\ banner' = IF check = "ollama" THEN ~answer["check"].up ELSE check \notin Ready
  /\ check' = "none" /\ answer' = [answer EXCEPT !["check"] = NoProbe]
  /\ UNCHANGED <<server, cache, fresh, epoch, refreshing, floor, probes, starter, pin>>

\* The tick asks again, slowly, while the banner shows.
Rechecks ==
  /\ banner /\ check = "none" /\ UNCHANGED pin /\ CheckBackend
  /\ UNCHANGED <<server, probing, starter, banner>>

ReadinessNext ==
  \/ ServerMoves \/ Expires \/ StartOllama \/ StarterAsks \/ StarterAnswered \/ StopOllama
  \/ PinSaved \/ VerdictAsks \/ ShowBackendVerdict \/ Rechecks
  \/ \E c \in DOMAIN probes : Measures(c) \/ ProbeStored(c)

\* Time passes, the main loop turns, and a probe has a time limit.
ReadinessFairness ==
  /\ WF_readinessVars(Expires) /\ WF_readinessVars(Rechecks)
  /\ WF_readinessVars(VerdictAsks) /\ WF_readinessVars(ShowBackendVerdict)
  /\ \A c \in Callers \cup {"background"} :
       WF_readinessVars(Measures(c)) /\ WF_readinessVars(ProbeStored(c))

ReadinessSpec == ReadinessInit /\ [][ReadinessNext]_readinessVars /\ ReadinessFairness

-----------------------------------------------------------------------------
\* Nothing measured before an invalidation is answered after it: "a background
\* refresh started before an invalidation must not store its result after one".
NothingOlder == cache.known => cache.at >= floor

\* A banner comes down when its backend is ready and stays so, although the
\* answers come from a cache that is behind and a check is refused while one runs.
PinReady == IF pin = "ollama" THEN up ELSE pin \in Ready
BannerComesDown == (banner /\ PinReady) ~> (~banner \/ ~PinReady)

\* A pin that does not work is said out loud.
BannerTells == (~PinReady /\ ~banner) ~> (banner \/ PinReady)
=============================================================================
