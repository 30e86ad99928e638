------------------------------ MODULE Timeline ------------------------------
(***************************************************************************)
(* The forecast timeline of the map page:                                  *)
(*   frontend/src/components/timeline/AnimationEngine.ts  playback         *)
(*   frontend/src/components/timeline/TilePreloader.ts    (TilePreloader)  *)
(*   frontend/src/components/timeline/useTimeline.ts      React binding    *)
(*   frontend/src/components/timeline/frames.ts           hour ladder      *)
(*                                                                         *)
(* The forecast hour has two owners: the engine's playhead and the state   *)
(* of the page.  The engine calls onHourChange, which queues a state       *)
(* update; React renders it later, and after the render runs the effects   *)
(* whose dependencies changed, which write the state back to the engine.   *)
(* Animation frames, image events and user actions come in between.        *)
(* Time is abstract: an animation frame advances by 0 to 3 forecast hours. *)
(***************************************************************************)
EXTENDS TilePreloader

CONSTANTS
    Ladders,       \* the hour lists a run can have, ascending
    Canonical,     \* canonicalForecastHours
    PreloadAhead,  \* PRELOAD_AHEAD
    Moves,         \* bound: user actions and page changes in a behaviour
    MaxLoops,      \* bound: animation-frame callbacks outstanding
    NoHour

ASSUME TimelineAssumption ==
    /\ Ladders \subseteq Seq(Hours) /\ Canonical \in Ladders
    /\ \A ladder \in Ladders :
          /\ ladder # <<>>
          /\ \A i, j \in DOMAIN ladder : i < j => ladder[i] < ladder[j]
    /\ PreloadAhead \in Nat
    /\ Moves \in Nat
    /\ MaxLoops \in Nat \ {0}
    /\ NoHour \notin Hours

VARIABLES
    engine,   \* the AnimationEngine
    asked,    \* the hour of the last onHourChange not rendered yet
    page,     \* the rendered state: the run's hours and the forecast hour
    due,      \* effects of the last render that have not run
    moves     \* what is left of the bound on moves

vars == <<engine, asked, page, due, moves>>

Effect == {"hours", "sync", "context"}

TypeOK ==
    /\ engine \in [ladder : Ladders, index : Nat, playing : BOOLEAN,
                   direction : {1, -1}, mode : {"forward", "rocking"},
                   buffering : BOOLEAN, loops : 0..MaxLoops, armed : BOOLEAN,
                   cache : Preloader]
    /\ engine.index = 0 \/ engine.index < Len(engine.ladder)
    /\ engine.armed => engine.loops > 0
    /\ asked \in Hours \cup {NoHour}
    /\ page \in [ladder : Ladders, hour : Hours]
    /\ due \subseteq Effect
    /\ moves \in 0..Moves

-----------------------------------------------------------------------------
(***************************************************************************)
(* The hour ladder.                                                        *)
(***************************************************************************)

Clamp(i, n) == IF n = 0 THEN 0 ELSE Min({Max({i, 0}), n - 1})

HourAt(ladder, i) == ladder[Clamp(i, Len(ladder)) + 1]

Distance(a, b) == IF a < b THEN b - a ELSE a - b

\* The binary search finds the first frame at or after the hour (or the last
\* one); the frame before it wins when it is no farther.
IndexOfHour(ladder, hour) ==
    LET above == {i \in 1..Len(ladder) : ladder[i] >= hour}
        lo    == IF above = {} THEN Len(ladder) ELSE Min(above)
    IN  IF lo > 1 /\ Distance(ladder[lo - 1], hour) <= Distance(ladder[lo], hour)
        THEN lo - 2 ELSE lo - 1

-----------------------------------------------------------------------------
(***************************************************************************)
(* The engine's methods, from an engine to an engine.                      *)
(***************************************************************************)

Count(e) == Len(e.ladder)

CurrentHour(e) == HourAt(e.ladder, e.index)

Forward(e) == IF e.playing THEN e.direction ELSE 1

RequestFrame(e, i) == [e EXCEPT !.cache = Request(@, e.ladder[(i % Count(e)) + 1])]

\* Frames start, start + 1, ... start + n - 1 in the direction of travel.
PreloadFrames(e, start, n) ==
    LET after[k \in 0..n] ==
            IF k = 0 THEN e ELSE RequestFrame(after[k - 1], start + Forward(e) * (k - 1))
    IN  after[n]

PreloadAheadOfPlayhead(e) == PreloadFrames(e, e.index, PreloadAhead + 1)

PreloadFrom(e, i) == PreloadFrames(e, Clamp(i, Count(e)), Max({1, PreloadAhead}))

\* refreshBuffering.  The window after a seek in which a paused timeline would
\* report buffering is always over: recheckDeadline is never assigned.
RefreshBuffering(e) ==
    [e EXCEPT !.buffering = e.playing /\ ~IsReady(e.cache, CurrentHour(e))]

\* requestAnimationFrame(this.tick); rafHandle names the new callback.
Arm(e) == [e EXCEPT !.loops = @ + 1, !.armed = TRUE]

Play(e) ==
    RefreshBuffering(PreloadAheadOfPlayhead(Arm([e EXCEPT !.playing = TRUE])))

\* Mutant: the indicator is left as it is.
PauseQuietly(e) ==
    IF ~e.playing THEN e
    ELSE [e EXCEPT !.playing = FALSE,
                   !.loops = IF e.armed THEN @ - 1 ELSE @,
                   !.armed = FALSE]

\* pause cancels the callback that rafHandle names, if it is outstanding.
Pause(e) ==
    IF ~e.playing THEN e
    ELSE RefreshBuffering(
           [e EXCEPT !.playing = FALSE,
                     !.loops = IF e.armed THEN @ - 1 ELSE @,
                     !.armed = FALSE])

\* seekIndex and syncIndex, once the index is known to be another.
MoveTo(e, i) == RefreshBuffering(PreloadFrom([e EXCEPT !.index = i], i))

SetHours(e, ladder) ==
    IF ladder = e.ladder THEN e
    ELSE LET f    == [e EXCEPT !.ladder = ladder, !.index = Clamp(@, Len(ladder))]
             kept == {HourAt(ladder, (f.index + Forward(f) * k) % Len(ladder)) :
                        k \in 0..PreloadAhead}
         IN  RefreshBuffering([f EXCEPT !.cache = Evict(@, kept)])

SetTileContext(e) ==
    RefreshBuffering(PreloadAheadOfPlayhead([e EXCEPT !.cache = EmptyPreloader]))

\* Mutant: rocking turns one frame late.
NextIndexLate(e) ==
    LET n == Count(e)
        d == IF e.index + e.direction \in 0..n THEN e.direction ELSE -e.direction
    IN  IF e.mode = "rocking" THEN [index |-> e.index + d, direction |-> d]
        ELSE [index |-> (e.index + e.direction) % n, direction |-> e.direction]

NextIndex(e) ==
    LET n == Count(e)
        d == IF e.index + e.direction \in 0..n - 1 THEN e.direction ELSE -e.direction
    IN  IF e.mode = "rocking" THEN [index |-> e.index + d, direction |-> d]
        ELSE [index |-> (e.index + e.direction) % n, direction |-> e.direction]

\* advanceFrame; onFrameChange is left to Tick.
AdvanceFrame(e) ==
    IF Count(e) < 2 THEN Pause(e)
    ELSE LET next == NextIndex(e)
         IN  PreloadAheadOfPlayhead(
               [e EXCEPT !.index = next.index, !.direction = next.direction])

Advanced(e, n) ==
    LET after[k \in 0..n] == IF k = 0 THEN e ELSE AdvanceFrame(after[k - 1])
    IN  after[n]

NewEngine(ladder, hour) ==
    [ladder |-> ladder, index |-> IndexOfHour(ladder, hour), playing |-> FALSE,
     direction |-> 1, mode |-> "forward", buffering |-> FALSE,
     loops |-> 0, armed |-> FALSE, cache |-> EmptyPreloader]

\* The page is mounted: the engine exists, the other effects are due.
Init ==
    /\ page \in [ladder : {Canonical}, hour : Hours]
    /\ engine = NewEngine(page.ladder, page.hour)
    /\ asked = NoHour
    /\ due = Effect
    /\ moves = Moves

-----------------------------------------------------------------------------
(***************************************************************************)
(* What the user does.                                                     *)
(***************************************************************************)

Move == moves > 0 /\ moves' = moves - 1

PressPlay ==
    /\ Move
    /\ ~engine.playing /\ Count(engine) >= 2
    /\ engine.loops < MaxLoops
    /\ engine' = Play(engine)
    /\ UNCHANGED <<asked, page, due>>

PressPause ==
    /\ Move
    /\ engine.playing
    /\ engine' = Pause(engine)
    /\ UNCHANGED <<asked, page, due>>

\* step, jumpHours, first, last, a click on the track.
Seek(i) ==
    /\ Move
    /\ i \in 0..Count(engine) - 1 /\ i # engine.index
    /\ engine' = MoveTo(engine, i)
    /\ asked' = HourAt(engine.ladder, i)
    /\ UNCHANGED <<page, due>>

\* The pointer hovers over the track.
Hover(i) ==
    /\ Move
    /\ i \in 0..Count(engine) - 1
    /\ engine' = PreloadFrom(engine, i)
    /\ UNCHANGED <<asked, page, due>>

ToggleLoopMode ==
    /\ Move
    /\ engine' = [engine EXCEPT !.mode = IF @ = "forward" THEN "rocking" ELSE "forward",
                                !.direction = 1]
    /\ UNCHANGED <<asked, page, due>>

-----------------------------------------------------------------------------
(***************************************************************************)
(* The page and its renders.  React runs the effects of a render before    *)
(* the next render.                                                        *)
(***************************************************************************)

Render ==
    /\ due = {}
    /\ asked # NoHour
    /\ page' = [page EXCEPT !.hour = asked]
    /\ due' = IF asked = page.hour THEN {} ELSE {"sync"}
    /\ asked' = NoHour
    /\ UNCHANGED <<engine, moves>>

Snapped(ladder, hour) == IF hour \in ToSet(ladder) THEN hour ELSE ladder[1]

\* loadRun found a run: a new hour list, and the hour if the run has it, else
\* the first.  A run that lists no hours gets the canonical list and the hour
\* stays, as it does when the engine asked for it after loadRun did and both
\* updates are in one render.  The tiles are others only if the cycle is.
RenderRun(ladder, newCycle) ==
    /\ Move
    /\ due = {}
    /\ LET latest == IF asked = NoHour THEN page.hour ELSE asked
       IN  \E hour \in {Snapped(ladder, latest)} \cup
                       {h \in {latest} : asked # NoHour \/ ladder = Canonical} :
             page' = [ladder |-> ladder, hour |-> hour]
    /\ due' = {"hours", "sync"} \cup (IF newCycle THEN {"context"} ELSE {})
    /\ asked' = NoHour
    /\ UNCHANGED engine

\* Another element or domain.
RenderContext ==
    /\ Move
    /\ due = {}
    /\ due' = {"context"}
    /\ UNCHANGED <<engine, asked, page>>

\* Mutant: the sync effect does not depend on the hour list.
RunEffectsHoursOnly ==
    /\ due # {}
    /\ LET withHours == IF "hours" \in due THEN SetHours(engine, page.ladder) ELSE engine
           index     == IndexOfHour(page.ladder, page.hour)
           moved     == "sync" \in due /\ "hours" \notin due /\ index # withHours.index
           synced    == IF moved THEN MoveTo(withHours, index) ELSE withHours
       IN  /\ engine' = IF "context" \in due THEN SetTileContext(synced) ELSE synced
           /\ asked' = IF moved THEN HourAt(page.ladder, index) ELSE asked
    /\ due' = {}
    /\ UNCHANGED <<page, moves>>

\* The effects, in their order.  syncIndex reports the new index to onHourChange
\* like any other move.
RunEffects ==
    /\ due # {}
    /\ LET withHours == IF "hours" \in due THEN SetHours(engine, page.ladder) ELSE engine
           index     == IndexOfHour(page.ladder, page.hour)
           moved     == "sync" \in due /\ index # withHours.index
           synced    == IF moved THEN MoveTo(withHours, index) ELSE withHours
       IN  /\ engine' = IF "context" \in due THEN SetTileContext(synced) ELSE synced
           /\ asked' = IF moved THEN HourAt(page.ladder, index) ELSE asked
    /\ due' = {}
    /\ UNCHANGED <<page, moves>>

-----------------------------------------------------------------------------
(***************************************************************************)
(* What the browser does.                                                  *)
(***************************************************************************)

Outstanding(own) ==
    IF own THEN engine.armed ELSE engine.loops > (IF engine.armed THEN 1 ELSE 0)

Fired(own) ==
    [engine EXCEPT !.loops = @ - 1, !.armed = IF own THEN FALSE ELSE @]

\* An animation frame while playing: advance by n frames, then ask for the next
\* animation frame, whatever advancing did.
Tick(own, n) ==
    /\ engine.playing
    /\ Outstanding(own)
    /\ LET advanced == Advanced(Fired(own), n)
       IN  /\ engine' = Arm(IF n = 0 THEN advanced ELSE RefreshBuffering(advanced))
           /\ asked' = IF n = 0 \/ Count(engine) < 2 THEN asked ELSE CurrentHour(advanced)
    /\ UNCHANGED <<page, due, moves>>

\* An animation frame after a pause.
IdleTick(own) ==
    /\ ~engine.playing
    /\ Outstanding(own)
    /\ engine' = Fired(own)
    /\ UNCHANGED <<asked, page, due, moves>>

\* An image loads or fails.
Settle(item) ==
    /\ item \in engine.cache.inFlight
    /\ engine' = RefreshBuffering([engine EXCEPT !.cache = Settled(@, item)])
    /\ UNCHANGED <<asked, page, due, moves>>

-----------------------------------------------------------------------------
Own == BOOLEAN

Next ==
    \/ PressPlay
    \/ PressPause
    \/ \E i \in 0..Count(engine) - 1 : Seek(i)
    \/ \E i \in 0..Count(engine) - 1 : Hover(i)
    \/ ToggleLoopMode
    \/ Render
    \/ \E ladder \in Ladders, newCycle \in BOOLEAN : RenderRun(ladder, newCycle)
    \/ RenderContext
    \/ RunEffects
    \/ \E own \in Own, n \in 0..3 : Tick(own, n)
    \/ \E own \in Own : IdleTick(own)
    \/ \E item \in Items : Settle(item)

\* The browser loads or fails every image it fetches; nothing is assumed of the
\* user, of React or of the animation frames.
Fairness == \A item \in Items : WF_vars(Settle(item))

Spec == Init /\ [][Next]_vars /\ Fairness

-----------------------------------------------------------------------------
(***************************************************************************)
(* Properties.                                                             *)
(***************************************************************************)

\* The bookkeeping of the preloader survives evictions, context switches and
\* events in any order: the tiles a frame waits for are exactly those queued or
\* being fetched for it, each once, and the cache keeps to its bound.
PendingIsOnItsWay ==
    LET p == engine.cache
    IN  /\ \A h \in Hours :
             p.pending[h] = {t \in Urls : <<h, t>> \in p.inFlight \cup ToSet(p.queue)}
        /\ IsInjective(p.queue) /\ ToSet(p.queue) \cap p.inFlight = {}
        /\ Len(p.order) <= MaxCachedFrames

\* The spinner is only on while the frame on display really is incomplete.
SpinnerIsHonest ==
    engine.buffering => engine.playing /\ ~IsReady(engine.cache, CurrentHour(engine))

\* Once React has rendered what it was asked and run the effects, engine and page have
\* one ladder, and the playhead shows the page's hour whenever the ladder has it,
\* whatever crossed on the way.  The page's hour need not be on its ladder (see
\* PlayheadIsPageHour); then the playhead is on the frame nearest to it.
AtRestTheyAgree ==
    asked = NoHour /\ due = {} =>
        /\ engine.ladder = page.ladder
        /\ IF page.hour \in ToSet(page.ladder)
           THEN CurrentHour(engine) = page.hour
           ELSE engine.index = IndexOfHour(page.ladder, page.hour)

\* useTimeline.ts: "the React tree stays the source of truth for the current forecast
\* hour", and external changes go to engine.syncIndex.  Yet the two rest on different
\* hours: a tick or a seek between the render of a shorter ladder and its effects
\* reports an hour that ladder lacks, and the playhead, already on the nearest frame,
\* does not move when that hour is rendered.
PlayheadIsPageHour ==
    asked = NoHour /\ due = {} => CurrentHour(engine) = page.hour

\* Every tile asked for settles, or its frame is evicted, as long as evictions
\* have not lost every slot.
Pending(h, t) == t \in engine.cache.pending[h]

EveryTileSettles ==
    \A h \in Hours, t \in Urls :
        Pending(h, t) ~> (~Pending(h, t) \/ engine.cache.lost = MaxInFlight)

\* TilePreloader.pump: "Errors are expected (missing frames) - readiness
\* accounting treats failures as settled so the spinner never wedges".
SpinnerNeverWedges ==
    \A h \in Hours, t \in Urls : Pending(h, t) ~> ~Pending(h, t)
=============================================================================
