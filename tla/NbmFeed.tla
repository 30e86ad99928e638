------------------------------- MODULE NbmFeed -------------------------------
(***************************************************************************)
(* The NOAA bucket as the viewer sees it, and what one cycle discovery may *)
(* report about it (backend/app/api/endpoints/runs.py).                    *)
(*                                                                         *)
(* A cycle is posted one forecast hour at a time, in any order, while      *)
(* discoveries are under way.  A discovery is a long series of HTTP probes *)
(* and so reads different objects at different times; Discoveries states   *)
(* its possible results from the feed at its start and at its end.  The    *)
(* module CycleDiscovery models the probes one by one and checks that each *)
(* of its results is one of these.                                         *)
(***************************************************************************)
EXTENDS Naturals, FiniteSets

CONSTANTS
    Cycles,   \* the NBM cycles of the look-back window; a larger one is newer
    Hours,    \* the forecast hours a discovery probes
    Window,   \* the core window f001..f0NN whose presence makes a cycle complete
    InitialFeed,  \* what the bucket holds when the fleet first starts
    NoRun     \* discover_latest_run returned None

Feed == [Cycles -> SUBSET Hours]
Run  == [cycle : Cycles, hours : SUBSET Hours]

ASSUME FeedAssumption ==
    /\ Cycles \subseteq Nat
    /\ Hours \subseteq Nat
    /\ 1 \in Hours
    /\ Window \subseteq Hours
    /\ InitialFeed \in Feed
    /\ NoRun \notin Run

VARIABLE posted   \* posted[c]: the forecast hours of cycle c now in the bucket

FeedInit == posted = InitialFeed

\* NOAA posts one more forecast hour of a cycle; nothing is withdrawn within
\* the 24 hours a discovery looks back.
PostHour(c, h) ==
    /\ h \notin posted[c]
    /\ posted' = [posted EXCEPT ![c] = @ \cup {h}]

(***************************************************************************)
(* The results of a discovery that began when the bucket held `before' and *)
(* ends when it holds `after'.  Candidates are walked newest first; one is *)
(* passed over only when its f001 gate was not there at the start, or a    *)
(* probe failed: _index_exists answers False to every error, throttling    *)
(* included.  The hours of the reported cycle are those posted before, and *)
(* any posted meanwhile; a failed probe may drop any of them.              *)
(***************************************************************************)

\* Mutant: a cycle counts when all of its hours are posted.
PassedOverUntilFull(before, c, glitch) == glitch \/ before[c] # Hours

PassedOver(before, c, glitch) == glitch \/ 1 \notin before[c]

Discoveries(before, after, glitch) ==
    { r \in Run :
        /\ 1 \in after[r.cycle]
        /\ r.hours # {}
        /\ r.hours \subseteq after[r.cycle]
        /\ glitch \/ before[r.cycle] \cup {1} \subseteq r.hours
        /\ \A d \in Cycles : d > r.cycle => PassedOver(before, d, glitch) }
    \cup { r \in {NoRun} : \A c \in Cycles : PassedOver(before, c, glitch) }

\* Mutant: only the last hour of the window is looked for.
IsCompleteByLast(hours) ==
    \E h \in hours : \A g \in Window : g <= h

\* poll_active_cycle and latest_run: window.issubset(available_forecast_hours)
IsComplete(hours) == Window \subseteq hours
=============================================================================
