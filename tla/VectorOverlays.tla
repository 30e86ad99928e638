--------------------------- MODULE VectorOverlays ---------------------------
(***************************************************************************)
(* The line overlays of the map (frontend/components/map/                  *)
(* VectorOverlays.tsx), the chips that switch them (OverlayControls.tsx)   *)
(* and the one-shot fetch of the NWS warning areas, whose promise is kept  *)
(* for the session.  The page outlives the map, which its error boundary   *)
(* may drop and build again.                                               *)
(*                                                                         *)
(* Outside src/: isStyleLoaded() of MapLibre is false while any source of  *)
(* the style, a new one included, still loads its data or tiles.           *)
(***************************************************************************)
EXTENDS Naturals

CONSTANTS
    Base,         \* overlays on the basemap's own sources
    Cwa,          \* the overlay of the warning areas: fill, line and labels
    OnByDefault,  \* DEFAULT_TOGGLES
    Toggles,      \* bound: chips pressed
    Remounts,     \* bound: times the map is torn down and built again
    Fetches       \* bound: fetches of the warning areas

Overlays == Base \cup {Cwa}

VARIABLES
    toggles, \* the overlays switched on in the page, and the chip of the Cwa
    due,     \* the effect on the toggles has not run
    map,     \* the instance: its number, its phase, whether isStyleLoaded()
    layers,  \* the visibility of each overlay's layers on this map
    setup,   \* the set-up effect: not run, waiting for style.load, or done
    session, \* cwaaPromise, and the instances whose handlers wait on it
    budget

vars == <<toggles, due, map, layers, setup, session, budget>>

TypeOK ==
    /\ toggles \in [on : SUBSET Overlays, chip : BOOLEAN]
    /\ due \in BOOLEAN
    /\ map \in [id : 0..Remounts + 1, phase : {"none", "styling", "styled"}, idle : BOOLEAN]
    /\ layers \in [Overlays -> {"absent", "visible", "none"}]
    /\ setup \in {"due", "waiting", "done"}
    /\ session \in [promise : {"null", "pending", "data"}, waiting : SUBSET (0..Remounts + 1),
                    fetched : 0..Fetches]
    /\ budget \in 0..Toggles
    /\ map.idle => map.phase = "styled"

NoLayers == [o \in Overlays |-> "absent"]

Init ==
    /\ toggles = [on |-> OnByDefault, chip |-> TRUE]
    /\ due = FALSE
    /\ map = [id |-> 0, phase |-> "none", idle |-> FALSE]
    /\ layers = NoLayers
    /\ setup = "due"
    /\ session = [promise |-> "null", waiting |-> {}, fetched |-> 0]
    /\ budget = Toggles

-----------------------------------------------------------------------------
(***************************************************************************)
(* The functions of the component.                                         *)
(***************************************************************************)

Wanted(on, o) == IF o \in on THEN "visible" ELSE "none"

\* Every layer there is follows its toggle, if the style has loaded at that moment.
ApplyToggles(drawn, idle) ==
    IF ~idle THEN drawn
    ELSE [o \in Overlays |-> IF drawn[o] = "absent" THEN "absent" ELSE Wanted(toggles.on, o)]

\* Mutant: whoever comes while a fetch is under way does not wait for it.
FetchCwaaFirst(s) ==
    IF s.promise # "null" THEN s
    ELSE [promise |-> "pending", waiting |-> {map.id}, fetched |-> s.fetched + 1]

\* One promise for the session (a failed one is forgotten) and a handler on it.
FetchCwaa(s) ==
    CASE s.promise = "data" -> s
      [] s.promise = "pending" -> [s EXCEPT !.waiting = @ \cup {map.id}]
      [] s.promise = "null" ->
            [promise |-> "pending", waiting |-> {map.id}, fetched |-> s.fetched + 1]

\* setup() on a map m: the basemap's overlays, visible as addLayer leaves them, the
\* toggles, and the warning areas.  Their source is new, so the style counts as loading
\* again when the toggles are applied a second time.
SetUp(m) ==
    LET drawn == ApplyToggles([o \in Overlays |-> IF o \in Base THEN "visible" ELSE "absent"],
                              m.idle)
        here == FetchCwaa(session).promise = "data"
    IN  /\ session' = FetchCwaa(session)
        /\ session'.fetched <= Fetches
        /\ setup' = "done"
        /\ layers' = IF here THEN [drawn EXCEPT ![Cwa] = "visible"] ELSE drawn
        /\ map' = IF here THEN [m EXCEPT !.idle = FALSE] ELSE m
        /\ toggles' = IF here THEN [toggles EXCEPT !.chip = TRUE] ELSE toggles

-----------------------------------------------------------------------------
(***************************************************************************)
(* The page.                                                               *)
(***************************************************************************)

\* A chip of OverlayControls; that of the Cwa is disabled while it is "n/a".
Toggle(o) ==
    /\ ~due
    /\ budget > 0
    /\ o = Cwa => toggles.chip
    /\ budget' = budget - 1
    /\ toggles' = [toggles EXCEPT !.on = IF o \in @ THEN @ \ {o} ELSE @ \cup {o}]
    /\ due' = TRUE
    /\ UNCHANGED <<map, layers, setup, session>>

RunToggleEffect ==
    /\ due
    /\ due' = FALSE
    /\ layers' = ApplyToggles(layers, map.idle)
    /\ UNCHANGED <<toggles, map, setup, session, budget>>

MountMap ==
    /\ map.phase = "none"
    /\ map' = [map EXCEPT !.phase = "styling", !.id = @ + 1]
    /\ setup' = "due"
    /\ UNCHANGED <<toggles, due, layers, session, budget>>

\* React runs the set-up effect some time after the map was made.
SetupEffect ==
    /\ setup = "due"
    /\ map.phase # "none"
    /\ IF map.idle
       THEN SetUp(map)
       ELSE setup' = "waiting" /\ UNCHANGED <<toggles, map, layers, session>>
    /\ UNCHANGED <<due, budget>>

\* The error boundary drops the map: its layers go, what waits on the promise stays.
UnmountMap ==
    /\ map.phase # "none"
    /\ map.id <= Remounts
    /\ map' = [map EXCEPT !.phase = "none", !.idle = FALSE]
    /\ layers' = NoLayers
    /\ setup' = "due"
    /\ due' = FALSE
    /\ UNCHANGED <<toggles, session, budget>>

-----------------------------------------------------------------------------
(***************************************************************************)
(* MapLibre and the server.                                                *)
(***************************************************************************)

\* style.load fires once, when the sources only begin to load.
StyleLoads ==
    /\ map.phase = "styling"
    /\ LET styled == [map EXCEPT !.phase = "styled"]
       IN  IF setup = "waiting"
           THEN SetUp(styled)
           ELSE map' = styled /\ UNCHANGED <<setup, layers, session, toggles>>
    /\ UNCHANGED <<due, budget>>

\* The sources have what they need, or a pan asks for more tiles.
SourcesChange ==
    /\ map.phase = "styled"
    /\ map' = [map EXCEPT !.idle = ~@]
    /\ UNCHANGED <<toggles, due, layers, setup, session, budget>>

Removed == session.waiting \ (IF map.phase = "none" THEN {} ELSE {map.id})

\* The polygons have come.  A handler whose map was removed throws, and its catch
\* reports the data as unavailable after the others have reported it.
CwaaArrives ==
    /\ session.promise = "pending"
    /\ session' = [session EXCEPT !.promise = "data", !.waiting = {}]
    /\ IF session.waiting = Removed THEN UNCHANGED <<layers, map>>
       ELSE /\ layers' = [layers EXCEPT ![Cwa] = "visible"]
            /\ map' = [map EXCEPT !.idle = FALSE]
    /\ toggles' = [toggles EXCEPT !.chip = (Removed = {})]
    /\ UNCHANGED <<due, setup, budget>>

\* An error, a payload that is no collection, or CWAA_FETCH_TIMEOUT_MS.
CwaaFails ==
    /\ session.promise = "pending"
    /\ session' = [session EXCEPT !.promise = "null", !.waiting = {}]
    /\ toggles' = [toggles EXCEPT !.chip = FALSE]
    /\ UNCHANGED <<due, map, layers, setup, budget>>

Next ==
    \/ \E o \in Overlays : Toggle(o)
    \/ RunToggleEffect
    \/ MountMap
    \/ SetupEffect
    \/ UnmountMap
    \/ StyleLoads
    \/ SourcesChange
    \/ CwaaArrives
    \/ CwaaFails

Spec == Init /\ [][Next]_vars

-----------------------------------------------------------------------------
(***************************************************************************)
(* Properties.                                                             *)
(***************************************************************************)

\* Whoever asked for the warning areas, on whichever map and however often the fetch
\* had failed before: once the session has them, a map that is set up shows their layers.
BoundariesFollowData ==
    setup = "done" /\ session.promise = "data" => layers[Cwa] # "absent"

\* "(always on when enabled)", "(toggleable)": on a map that has loaded, with no effect
\* to run, an overlay is visible exactly if it is switched on.
OverlaysFollowToggles ==
    map.idle /\ setup = "done" /\ ~due =>
        \A o \in Overlays : layers[o] \in {"absent", Wanted(toggles.on, o)}
=============================================================================
