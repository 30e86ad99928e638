------------------------- MODULE WeatherRasterLayer -------------------------
(***************************************************************************)
(* The raster layer of the map                                             *)
(* (frontend/components/map/WeatherRasterLayer.tsx): it re-points one      *)
(* MapLibre source at the tiles of the page's frame, one re-point at a     *)
(* time; the frame asked for meanwhile is kept as the pending one.         *)
(*                                                                         *)
(* A frame is a key (domain, cycle, element, forecast hour); its tile URL  *)
(* is a function of the key.  React renders a new frame first and runs the *)
(* effect that requests it later; map events come in between.              *)
(***************************************************************************)
EXTENDS Naturals

CONSTANTS
    Frames,    \* the keys the page can show
    NoFrame,
    Moves,     \* bound: changes of the page's frame
    Remounts   \* bound: times the map is torn down and built again

ASSUME RasterAssumption ==
    /\ NoFrame \notin Frames
    /\ Moves \in Nat
    /\ Remounts \in Nat

VARIABLES
    page,   \* the rendered frame; whether it was never shown before; the bounds
    due,    \* the effect that requests the rendered frame has not run
    map,    \* the map instance: absent, its style loading, or ready
    source, \* the MapLibre source: the frame it points at, whether it has loaded
    layer   \* the refs of the component

vars == <<page, due, map, source, layer>>

NoSource == [tiles |-> NoFrame, loaded |-> FALSE]

\* A fresh component, and what the setup effect and its cleanup leave.
CleanLayer == [applied |-> NoFrame, pending |-> NoFrame, timer |-> FALSE]

TypeOK ==
    /\ page \in [frame : Frames, seen : SUBSET Frames, fresh : BOOLEAN,
                 moves : 0..Moves, remounts : 0..Remounts]
    /\ due \in BOOLEAN
    /\ map \in {"none", "styling", "ready"}
    /\ source \in [tiles : Frames \cup {NoFrame}, loaded : BOOLEAN]
    /\ layer \in [applied : Frames \cup {NoFrame}, pending : Frames \cup {NoFrame},
                  timer : BOOLEAN]
    \* the source exists once the style has loaded, and until then no timer runs
    /\ map = "ready" <=> source.tiles # NoFrame
    /\ layer.timer => map = "ready" /\ layer.pending # NoFrame

Init ==
    /\ page \in [frame : Frames, seen : {{}}, fresh : {TRUE},
                 moves : {Moves}, remounts : {Remounts}]
    /\ due = FALSE
    /\ map = "none"
    /\ source = NoSource
    /\ layer = CleanLayer

-----------------------------------------------------------------------------
(***************************************************************************)
(* The functions of the setup effect, on a pair of source and layer.       *)
(***************************************************************************)

HasSource(s) == s.source.tiles # NoFrame

ApplyPending(s) ==
    IF s.layer.pending = NoFrame \/ ~HasSource(s) THEN s
    ELSE [source |-> [tiles |-> s.layer.pending, loaded |-> FALSE],
          layer  |-> [applied |-> s.layer.pending, pending |-> NoFrame, timer |-> FALSE]]

\* Mutant: without the stuck-load guard.
TryApplyUnguarded(s) ==
    IF s.layer.pending = NoFrame \/ ~HasSource(s) THEN s
    ELSE IF s.source.loaded THEN ApplyPending(s) ELSE s

TryApplyPending(s) ==
    IF s.layer.pending = NoFrame \/ ~HasSource(s) THEN s
    ELSE IF s.source.loaded THEN ApplyPending(s)
    ELSE [s EXCEPT !.layer.timer = TRUE]

\* Mutant: a frame is not queued behind one that is pending.
RequestKeyIfIdle(s, key) ==
    IF s.layer.pending # NoFrame \/ key = s.layer.applied THEN s
    ELSE TryApplyPending([s EXCEPT !.layer.pending = key])

\* Mutant: a frame counts as applied once it is requested.
RequestKeyEagerly(s, key) ==
    IF key \in {s.layer.applied, s.layer.pending} THEN s
    ELSE TryApplyPending([s EXCEPT !.layer.pending = key, !.layer.applied = key])

RequestKey(s, key) ==
    IF key \in {s.layer.applied, s.layer.pending} THEN s
    ELSE TryApplyPending([s EXCEPT !.layer.pending = key])

Now == [source |-> source, layer |-> layer]

Become(s) == source' = s.source /\ layer' = s.layer

-----------------------------------------------------------------------------
(***************************************************************************)
(* The page.                                                               *)
(***************************************************************************)

\* Scrubbing, playback, another element, domain or cycle.
ShowFrame(frame) ==
    /\ page.moves > 0
    /\ ~due
    /\ frame # page.frame
    /\ page' = [page EXCEPT !.frame = frame,
                            !.fresh = frame \notin page.seen,
                            !.seen = @ \cup {page.frame},
                            !.moves = @ - 1]
    /\ due' = (map # "none")
    /\ UNCHANGED <<map, source, layer>>

\* The effect on layerKey.  React runs it before the next render.
RunEffect ==
    /\ due
    /\ due' = FALSE
    /\ Become(RequestKey(Now, page.frame))
    /\ UNCHANGED <<page, map>>

\* The map instance reaches the component: the setup effect, then the effect on
\* layerKey.  The source is added when the style has loaded.
MountMap ==
    /\ map = "none"
    /\ map' = "styling"
    /\ Become(RequestKey([source |-> NoSource, layer |-> CleanLayer], page.frame))
    /\ due' = FALSE
    /\ UNCHANGED page

\* Mutant: the cleanup leaves the timer running.
UnmountKeepsTimer ==
    /\ map # "none"
    /\ page.remounts > 0
    /\ page' = [page EXCEPT !.remounts = @ - 1]
    /\ map' = "none"
    /\ source' = NoSource
    /\ due' = FALSE
    /\ layer' = [CleanLayer EXCEPT !.timer = layer.timer]

\* The error boundary drops the map; the cleanup of the setup effect runs.
UnmountMap ==
    /\ map # "none"
    /\ page.remounts > 0
    /\ page' = [page EXCEPT !.remounts = @ - 1]
    /\ map' = "none"
    /\ source' = NoSource
    /\ due' = FALSE
    /\ layer' = CleanLayer

-----------------------------------------------------------------------------
(***************************************************************************)
(* MapLibre and the timer.                                                 *)
(***************************************************************************)

\* ensureLayer, on style.load: the source is created with the rendered frame,
\* which is then requested as well.
StyleLoads ==
    /\ map = "styling"
    /\ map' = "ready"
    /\ LET created == [source |-> [tiles |-> page.frame, loaded |-> FALSE],
                       layer  |-> [layer EXCEPT !.applied = NoFrame]]
       IN  Become(RequestKey(created, page.frame))
    /\ UNCHANGED <<page, due>>

\* The source reports data, and may report that it has loaded.
SourceData(loaded) ==
    /\ map = "ready"
    /\ Become(TryApplyPending([Now EXCEPT !.source.loaded = @ \/ loaded]))
    /\ UNCHANGED <<page, due, map>>

\* SETTLE_TIMEOUT_MS after the first attempt to apply on a loading source.
TimerFires ==
    /\ layer.timer
    /\ Become(ApplyPending([Now EXCEPT !.layer.timer = FALSE]))
    /\ UNCHANGED <<page, due, map>>

Next ==
    \/ \E frame \in Frames : ShowFrame(frame)
    \/ RunEffect
    \/ MountMap
    \/ UnmountMap
    \/ StyleLoads
    \/ \E loaded \in BOOLEAN : SourceData(loaded)
    \/ TimerFires

\* React runs its effects, the style loads and timers fire.  A source may never
\* load: the timer is there for that.
Fairness ==
    /\ WF_vars(RunEffect)
    /\ WF_vars(MountMap)
    /\ WF_vars(StyleLoads)
    /\ WF_vars(TimerFires)

Spec == Init /\ [][Next]_vars /\ Fairness

-----------------------------------------------------------------------------
(***************************************************************************)
(* Properties.                                                             *)
(***************************************************************************)

\* A request is skipped because its frame is "applied" only when the source of
\* this very map points at that frame: no map, source or timer of an earlier
\* mount is taken for the current one.
AppliedIsShown == layer.applied # NoFrame => source.tiles = layer.applied

\* A scrub never hangs on a source that does not load: a pending frame that is not
\* the one on the map is applied, or goes with its map.
Waiting == layer.pending \notin {NoFrame, source.tiles}

PendingDrains == Waiting ~> ~Waiting

\* When the page comes to rest on a frame it had not shown before, however many
\* re-points, map events and remounts crossed on the way, the map shows it.
NewPositionWins ==
    \A frame \in Frames :
        <>[](page.frame = frame /\ page.fresh) => <>[](source.tiles = frame)

\* "Rapid slider drags therefore collapse into one clean transition per settled
\* frame - the final position always wins".
FinalPositionWins ==
    \A frame \in Frames : <>[](page.frame = frame) => <>[](source.tiles = frame)
=============================================================================
