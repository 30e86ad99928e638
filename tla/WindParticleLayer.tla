-------------------------- MODULE WindParticleLayer --------------------------
(***************************************************************************)
(* The wind overlay (frontend/src/components/map/WindParticleLayer.tsx):   *)
(* a canvas over the map that draws the wind field of the viewport as      *)
(* moving particles or as barbs, and three React effects: the life cycle   *)
(* of the canvas, the throttled fetch of the field, and the barbs.         *)
(*                                                                         *)
(* A question to the server is a forecast hour (domain and cycle change    *)
(* alike) and the view the camera has when the request leaves.             *)
(***************************************************************************)
EXTENDS Naturals, FiniteSets

CONSTANTS
    Hours,
    Views,    \* camera positions that differ in their rounded bounds
    Nothing,
    Changes,  \* bound: changes of the page and camera movements
    Failures  \* bound: fetches that fail

Modes == {"particles", "barbs"}

Questions == Hours \X Views

Canvases == Questions \X Views

VARIABLES
    page,    \* the props: hour, mode, visible
    camera,  \* its view, whether it moves, and viewKey as last set
    due,     \* the effects whose dependencies have changed
    life,    \* the mode the life-cycle effect runs for, or "off"; its frames
    field,   \* fieldRef, and whether fieldVersion has left 0
    fetch,   \* the throttle, the requests on the wire, the current question
    canvas,  \* the barbs on the canvas: the field and the view they are drawn for
    budget

vars == <<page, camera, due, life, field, fetch, canvas, budget>>

TypeOK ==
    /\ page \in [hour : Hours, mode : Modes, visible : BOOLEAN]
    /\ camera \in [view : Views, moving : BOOLEAN, key : Views \cup {Nothing}]
    /\ due \subseteq {"life", "fetch", "barbs"}
    /\ life \in [mode : Modes \cup {"off"}, frames : 0..2, handle : BOOLEAN, system : BOOLEAN]
    /\ field \in [of : Questions \cup {Nothing}, landed : BOOLEAN]
    /\ fetch \in [timer : Hours \cup {Nothing}, recent : BOOLEAN, asked : Questions \cup {Nothing},
                  flights : SUBSET [ask : Questions, live : BOOLEAN], lost : BOOLEAN]
    /\ canvas \in Canvases \cup {Nothing}
    /\ budget \in [changes : 0..Changes, failures : 0..Failures]

\* viewKey starts as "init", which is no view.
Init ==
    /\ page \in [hour : Hours, mode : Modes, visible : {FALSE}]
    /\ camera \in [view : Views, moving : {FALSE}, key : {Nothing}]
    /\ due = {}
    /\ life = [mode |-> "off", frames |-> 0, handle |-> FALSE, system |-> FALSE]
    /\ field = [of |-> Nothing, landed |-> FALSE]
    /\ fetch = [timer |-> Nothing, recent |-> FALSE, asked |-> Nothing,
                flights |-> {}, lost |-> FALSE]
    /\ canvas = Nothing
    /\ budget = [changes |-> Changes, failures |-> Failures]

Mounted == life.mode # "off"

-----------------------------------------------------------------------------
(***************************************************************************)
(* The page and the camera.  Each render is followed by its effects before *)
(* the next one; map events and answers come in between.                   *)
(***************************************************************************)

Spend == budget' = [budget EXCEPT !.changes = @ - 1]

Render(props, effects) ==
    /\ due = {}
    /\ budget.changes > 0
    /\ Spend
    /\ page' = props
    /\ due' = effects
    /\ UNCHANGED <<camera, life, field, fetch, canvas>>

ShowHour(hour) ==
    /\ hour # page.hour
    /\ Render([page EXCEPT !.hour = hour], {"fetch"})

SwitchMode(mode) ==
    /\ mode # page.mode
    /\ Render([page EXCEPT !.mode = mode], {"life", "fetch", "barbs"})

\* Another product or display mode shows or hides the overlay.
SwitchVisible ==
    Render([page EXCEPT !.visible = ~@], {"life", "fetch", "barbs"})

\* movestart: barbs go, particles pause.
OnMoveStart ==
    /\ ~camera.moving
    /\ budget.changes > 0
    /\ Spend
    /\ camera' = [camera EXCEPT !.moving = TRUE]
    /\ canvas' = IF life.mode = "barbs" THEN Nothing ELSE canvas
    /\ UNCHANGED <<page, due, life, field, fetch>>

CameraMoves(view) ==
    /\ camera.moving
    /\ camera' = [camera EXCEPT !.view = view]
    /\ UNCHANGED <<page, due, life, field, fetch, canvas, budget>>

\* moveend (resize sets the key in the same way): an equal key renders nothing.
OnMoveEnd ==
    /\ camera.moving
    /\ due = {}
    /\ LET heard == Mounted /\ camera.key # camera.view
       IN  /\ camera' = [camera EXCEPT !.moving = FALSE,
                                       !.key = IF heard THEN camera.view ELSE @]
           /\ due' = IF heard THEN {"fetch", "barbs"} ELSE {}
    /\ UNCHANGED <<page, life, field, fetch, canvas, budget>>

-----------------------------------------------------------------------------
(***************************************************************************)
(* The effects: first every cleanup, then the effects in their order.      *)
(***************************************************************************)

Off == [mode |-> "off", frames |-> 0, handle |-> FALSE, system |-> FALSE]

\* The cleanup cancels the frame whose handle it has and destroys the particles.
LifeCleanup == [life EXCEPT !.mode = "off", !.handle = FALSE, !.system = FALSE,
                            !.frames = IF life.handle THEN @ - 1 ELSE @]

LifeStart(l) ==
    IF page.visible
    THEN [mode |-> page.mode, system |-> TRUE, handle |-> page.mode = "particles",
          frames |-> l.frames + IF page.mode = "particles" THEN 1 ELSE 0]
    ELSE l

\* Mutant: the cleanup leaves the trailing request armed.
FetchCleanupKeepsTimer ==
    [fetch EXCEPT !.asked = Nothing,
                  !.flights = {[f EXCEPT !.live = FALSE] : f \in @}]

\* cancelled = true, the timer cleared, the controller aborted.
FetchCleanup ==
    [fetch EXCEPT !.timer = Nothing, !.asked = Nothing,
                  !.flights = {[f EXCEPT !.live = FALSE] : f \in @}]

\* The request of a render with that hour, over the bounds the map has now.
DoFetch(f, hour) ==
    LET ask == <<hour, camera.view>>
    IN  [f EXCEPT !.recent = TRUE, !.asked = ask, !.lost = FALSE,
                  !.flights = {[old EXCEPT !.live = FALSE] : old \in @} \cup
                              {[ask |-> ask, live |-> TRUE]}]

\* Mutant: a change within the interval is dropped, without a trailing request.
StartFetchLeading(f) ==
    IF ~page.visible \/ f.recent THEN f ELSE DoFetch(f, page.hour)

\* At once when the last request is FETCH_MIN_INTERVAL_MS old, else when it will be.
StartFetch(f) ==
    IF ~page.visible THEN f
    ELSE IF f.recent THEN [f EXCEPT !.timer = page.hour]
    ELSE DoFetch(f, page.hour)

DrawsBarbs(of) ==
    page.visible /\ page.mode = "barbs" /\ field.landed /\ of # Nothing

RunEffects ==
    /\ due # {}
    /\ due' = {}
    /\ LET restarts == "life" \in due
           of == IF restarts /\ Mounted THEN Nothing ELSE field.of
       IN  /\ life' = IF restarts THEN LifeStart(IF Mounted THEN LifeCleanup ELSE life)
                      ELSE life
           /\ fetch' = IF "fetch" \in due THEN StartFetch(FetchCleanup) ELSE fetch
           /\ field' = [field EXCEPT !.of = of]
           /\ canvas' = IF "barbs" \in due /\ DrawsBarbs(of) THEN <<of, camera.view>>
                        ELSE IF restarts THEN Nothing ELSE canvas
    /\ UNCHANGED <<page, camera, budget>>

-----------------------------------------------------------------------------
(***************************************************************************)
(* Timers, frames and answers.                                             *)
(***************************************************************************)

IntervalPasses ==
    /\ fetch.recent
    /\ fetch.timer = Nothing
    /\ fetch' = [fetch EXCEPT !.recent = FALSE]
    /\ UNCHANGED <<page, camera, due, life, field, canvas, budget>>

\* The interval is over: the trailing request, with the props of its render.
TimerFires ==
    /\ fetch.timer # Nothing
    /\ fetch' = DoFetch([fetch EXCEPT !.timer = Nothing], fetch.timer)
    /\ UNCHANGED <<page, camera, due, life, field, canvas, budget>>

\* Mutant: an answer is used whatever has happened since.
HeedsAny(flight) == TRUE

\* Neither cancelled nor aborted.
Heeds(flight) == flight.live

\* A used answer sets the field and, through fieldVersion, redraws the barbs.
FieldLands(flight) ==
    /\ LET used == Heeds(flight)
       IN  /\ fetch' = [fetch EXCEPT !.flights = @ \ {flight}]
           /\ field' = IF used THEN [of |-> flight.ask, landed |-> TRUE] ELSE field
           /\ due' = IF used THEN due \cup {"barbs"} ELSE due
    /\ UNCHANGED <<page, camera, life, canvas, budget>>

\* The previous field stays.
FetchFails(flight) ==
    /\ flight.live
    /\ budget.failures > 0
    /\ budget' = [budget EXCEPT !.failures = @ - 1]
    /\ fetch' = [fetch EXCEPT !.flights = @ \ {flight}, !.lost = TRUE]
    /\ UNCHANGED <<page, camera, due, life, field, canvas>>

\* Mutant: the cleanup that cancels a frame has lost its handle.
FrameForgetsHandle ==
    /\ life.frames > 0
    /\ life' = IF life.mode = "particles" THEN [life EXCEPT !.handle = FALSE]
               ELSE [life EXCEPT !.frames = @ - 1]
    /\ UNCHANGED <<page, camera, due, field, fetch, canvas, budget>>

\* A frame asks for the next one first; a disposed one does not.
Frame ==
    /\ life.frames > 0
    /\ life' = IF life.mode = "particles" THEN [life EXCEPT !.handle = TRUE]
               ELSE [life EXCEPT !.frames = @ - 1]
    /\ UNCHANGED <<page, camera, due, field, fetch, canvas, budget>>

Next ==
    \/ \E hour \in Hours : ShowHour(hour)
    \/ \E mode \in Modes : SwitchMode(mode)
    \/ SwitchVisible
    \/ OnMoveStart
    \/ \E view \in Views : CameraMoves(view)
    \/ OnMoveEnd
    \/ RunEffects
    \/ IntervalPasses
    \/ TimerFires
    \/ \E flight \in fetch.flights : FieldLands(flight) \/ FetchFails(flight)
    \/ Frame

\* React runs its effects, timers fire, and a request is answered or fails.
Fairness ==
    /\ WF_vars(RunEffects)
    /\ WF_vars(TimerFires)
    /\ WF_vars(\E flight \in fetch.flights : FieldLands(flight) \/ FetchFails(flight))

Spec == Init /\ [][Next]_vars /\ Fairness

-----------------------------------------------------------------------------
(***************************************************************************)
(* Properties.                                                             *)
(***************************************************************************)

\* The field keeps the promise of LatestRequest: it is the answer to the request
\* sent last, whatever crossed it, and a cancelled request leaves no trace.
Wind == INSTANCE LatestRequest WITH asked <- fetch.asked, shown <- field.of

FieldIsLatest == Wind!Spec

\* "Unmount contract": once the effects of a hidden overlay have run, it has no
\* frame requested, no particles, no field, no timer, no request in use and a clear
\* canvas; and a mounted one never runs two loops.
UnmountContract ==
    /\ life.frames <= 1
    /\ (~page.visible /\ due = {}) =>
        /\ life = Off
        /\ field.of = Nothing /\ canvas = Nothing
        /\ fetch.timer = Nothing /\ \A flight \in fetch.flights : ~flight.live

\* "the latest frame always wins via a trailing request": when the page rests on an
\* hour, the field becomes that hour's unless its request has failed.
FieldCatchesUp ==
    \A hour \in Hours :
        <>[](page.visible /\ page.hour = hour)
            => <>[]((field.of # Nothing /\ field.of[1] = hour) \/ fetch.lost)

\* "over the map bounds, re-fetched on pan/zoom and forecast-hour changes": when all
\* is at rest and no request has failed, the field is the one of the view on the screen.
Settled ==
    /\ page.visible /\ due = {} /\ ~camera.moving /\ fetch.timer = Nothing
    /\ ~fetch.lost /\ \A flight \in fetch.flights : ~flight.live

FieldCoversView == Settled => field.of = <<page.hour, camera.view>>
=============================================================================
