----------------------------- MODULE PanelProofs -----------------------------
(***************************************************************************)
(* Safety of what the page loads and draws by itself: the wind overlay,    *)
(* the station meteogram and the vector overlays, for any views, hours,    *)
(* stations and bounds.                                                    *)
(*                                                                         *)
(* For each of the three: the types and the strengthening that make an     *)
(* inductive invariant, one lemma per group of actions, and the theorems.  *)
(* The wind field and the series are both shown to implement LatestRequest:*)
(* a request that was not aborted is always the one asked last, so nothing *)
(* but its answer is ever shown.                                           *)
(***************************************************************************)
EXTENDS MCPage, TLAPS

-----------------------------------------------------------------------------
(*****************************************************************************)
(* The wind overlay (WindParticleLayer).                                     *)
(*****************************************************************************)

\* A step of the page is a step of the overlay, or leaves it alone.
LEMMA WindMoves == [PageNext]_pageVars => [Wind!Next]_windVars
BY DEF PageNext, Only, pageVars, windVars

\* The props.
WindPages == [hour : Hours, mode : Wind!Modes, visible : BOOLEAN]

\* The camera, and the view key of the last moveend.
Cameras == [view : WindViews, moving : BOOLEAN, key : WindViews \cup {Nothing}]

\* The three lives the overlay can have between two steps.
Lives ==
    {Wind!Off,
     [mode |-> "particles", frames |-> 1, handle |-> TRUE, system |-> TRUE],
     [mode |-> "barbs", frames |-> 0, handle |-> FALSE, system |-> TRUE]}

\* The wind field on the screen.
WindFields == [of : Wind!Questions \cup {Nothing}, landed : BOOLEAN]

\* The requests on the wire.
WindFlights == [ask : Wind!Questions, live : BOOLEAN]

\* The refs of the fetch effect.
Fetchings ==
    [timer : Hours \cup {Nothing}, recent : BOOLEAN, asked : Wind!Questions \cup {Nothing},
     flights : SUBSET WindFlights, lost : BOOLEAN]

\* The types; life is one of three, the module allows any combination.
WindTypes ==
    /\ windPage \in WindPages
    /\ camera \in Cameras
    /\ windDue \subseteq {"life", "fetch", "barbs"}
    /\ life \in Lives
    /\ field \in WindFields
    /\ fetch \in Fetchings
    /\ canvas \in Wind!Canvases \cup {Nothing}
    /\ windBudget \in [changes : 0..WindChanges, failures : 0..WindFailures]

\* The overlay is mounted as the page says, once the effects have run.
LifeFollowsPage ==
    /\ "life" \in windDue => "fetch" \in windDue
    /\ "life" \notin windDue => (windPage.visible <=> life.mode # "off")

\* A hidden overlay has neither field nor canvas nor timer nor a request it would heed.
OffIsClear ==
    life.mode = "off" =>
        /\ field.of = Nothing /\ canvas = Nothing
        /\ fetch.timer = Nothing /\ \A flight \in fetch.flights : ~flight.live

\* A request that was not aborted is the one asked last.
LiveIsAsked == \A flight \in fetch.flights : flight.live => flight.ask = fetch.asked

\* The inductive invariant of the overlay.
WindInv == WindTypes /\ LifeFollowsPage /\ OffIsClear /\ LiveIsAsked

\* The types of the proof imply those of the module.
LEMMA WindTypesSuffice == WindTypes => Wind!TypeOK
<1>1. Lives \subseteq
          [mode : Wind!Modes \cup {"off"}, frames : 0..2, handle : BOOLEAN, system : BOOLEAN]
  BY DEF Lives, Wind!Off, Wind!Modes
<1> QED
  BY <1>1 DEF WindTypes, Wind!TypeOK, WindPages, Cameras, WindFields, WindFlights, Fetchings

\* The contract is part of the invariant.
LEMMA WindContract == WindInv => UnmountContract
<1> SUFFICES ASSUME WindInv PROVE UnmountContract
  OBVIOUS
<1>1. life.frames <= 1 /\ (life.mode = "off" => life = Wind!Off)
  BY DEF WindInv, WindTypes, Lives, Wind!Off
<1> QED
  BY <1>1 DEF WindInv, LifeFollowsPage, OffIsClear, UnmountContract, Wind!UnmountContract

\* The overlay starts off.
LEMMA WindInit == Wind!Init => WindInv
<1> SUFFICES ASSUME Wind!Init PROVE WindInv
  OBVIOUS
<1>1. windPage \in WindPages /\ camera \in Cameras /\ ~windPage.visible
  BY DEF Wind!Init, WindPages, Cameras
<1>2. fetch \in Fetchings /\ field \in WindFields
  BY DEF Wind!Init, Fetchings, WindFields
<1>3. life = Wind!Off /\ life \in Lives /\ life.mode = "off"
  BY DEF Wind!Init, Lives, Wind!Off
<1>4. windBudget \in [changes : 0..WindChanges, failures : 0..WindFailures]
  BY WindAssumption DEF WindAssumption, Wind!Init
<1> QED
  BY <1>1, <1>2, <1>3, <1>4
  DEF Wind!Init, WindInv, WindTypes, LifeFollowsPage, OffIsClear, LiveIsAsked

\* A change of the page is counted.
LEMMA WindSpends ==
  WindInv /\ windBudget.changes > 0 /\ Wind!Spend =>
      windBudget' \in [changes : 0..WindChanges, failures : 0..WindFailures]
BY WindAssumption DEF WindAssumption, WindInv, WindTypes, Wind!Spend

\* A render changes no more than the props and what is due.
LEMMA WindRenderStep ==
    ASSUME WindInv, NEW props \in WindPages, NEW effects \in SUBSET {"life", "fetch", "barbs"},
           Wind!Render(props, effects), "life" \in effects => "fetch" \in effects,
           "life" \notin effects => props.visible = windPage.visible
    PROVE  WindInv'
BY WindSpends
DEF Wind!Render, WindInv, WindTypes, LifeFollowsPage, OffIsClear, LiveIsAsked

\* The page changes a prop.
LEMMA WindRenders ==
    ASSUME WindInv
    PROVE  /\ \A h \in Hours : Wind!ShowHour(h) => WindInv'
           /\ \A mode \in Wind!Modes : Wind!SwitchMode(mode) => WindInv'
           /\ Wind!SwitchVisible => WindInv'
<1>1. ASSUME NEW h \in Hours, Wind!ShowHour(h) PROVE WindInv'
  <2>1. /\ [windPage EXCEPT !.hour = h] \in WindPages
        /\ [windPage EXCEPT !.hour = h].visible = windPage.visible
    BY DEF WindInv, WindTypes, WindPages
  <2> QED
    BY <1>1, <2>1, WindRenderStep DEF Wind!ShowHour
<1>2. ASSUME NEW mode \in Wind!Modes, Wind!SwitchMode(mode) PROVE WindInv'
  <2>1. [windPage EXCEPT !.mode = mode] \in WindPages
    BY DEF WindInv, WindTypes, WindPages
  <2> QED
    BY <1>2, <2>1, WindRenderStep DEF Wind!SwitchMode
<1>3. ASSUME Wind!SwitchVisible PROVE WindInv'
  <2>1. [windPage EXCEPT !.visible = ~@] \in WindPages
    BY DEF WindInv, WindTypes, WindPages
  <2> QED
    BY <1>3, <2>1, WindRenderStep DEF Wind!SwitchVisible
<1> QED
  BY <1>1, <1>2, <1>3

\* The camera moves.
LEMMA WindCameraStep ==
    ASSUME WindInv,
           \/ Wind!OnMoveStart
           \/ \E view \in WindViews : Wind!CameraMoves(view)
           \/ Wind!OnMoveEnd
    PROVE  WindInv'
<1>1. CASE Wind!OnMoveStart
  <2>1. camera' \in Cameras
    BY <1>1 DEF WindInv, WindTypes, Cameras, Wind!OnMoveStart
  <2> QED
    BY <1>1, <2>1, WindSpends
    DEF Wind!OnMoveStart, WindInv, WindTypes, LifeFollowsPage, OffIsClear, LiveIsAsked
<1>2. ASSUME NEW view \in WindViews, Wind!CameraMoves(view)
      PROVE  WindInv'
  <2>1. camera' \in Cameras
    BY <1>2 DEF WindInv, WindTypes, Cameras, Wind!CameraMoves
  <2> QED
    BY <1>2, <2>1 DEF Wind!CameraMoves, WindInv, WindTypes, LifeFollowsPage, OffIsClear, LiveIsAsked
<1>3. CASE Wind!OnMoveEnd
  <2>1. camera' \in Cameras
    BY <1>3 DEF WindInv, WindTypes, Cameras, Wind!OnMoveEnd
  <2> QED
    BY <1>3, <2>1 DEF Wind!OnMoveEnd, WindInv, WindTypes, LifeFollowsPage, OffIsClear, LiveIsAsked
<1> QED
  BY <1>1, <1>2, <1>3

\* doFetch asks about the view it finds.
LEMMA DoFetchType ==
    ASSUME NEW f \in Fetchings, NEW h \in Hours, camera \in Cameras
    PROVE  /\ Wind!DoFetch(f, h) \in Fetchings
           /\ Wind!DoFetch(f, h).timer = f.timer
           /\ Wind!DoFetch(f, h).asked = <<h, camera.view>>
           /\ \A flight \in Wind!DoFetch(f, h).flights :
                  flight.live => flight.ask = Wind!DoFetch(f, h).asked
<1> DEFINE ask == <<h, camera.view>>
           flights1 == {[old EXCEPT !.live = FALSE] : old \in f.flights} \cup
                       {[ask |-> ask, live |-> TRUE]}
<1>1. ask \in Wind!Questions
  BY DEF Cameras, Wind!Questions
<1>2. f.flights \subseteq WindFlights
  BY DEF Fetchings
<1>3. flights1 \subseteq WindFlights
  <2> HIDE DEF ask
  <2>1. [ask |-> ask, live |-> TRUE] \in WindFlights
    BY <1>1 DEF WindFlights
  <2>2. \A old \in f.flights : [old EXCEPT !.live = FALSE] \in WindFlights
    BY <1>2 DEF WindFlights
  <2> QED
    BY <2>1, <2>2
<1>4. \A flight \in flights1 : flight.live => flight.ask = ask
  BY <1>2 DEF WindFlights
<1>5. Wind!DoFetch(f, h) = [f EXCEPT !.recent = TRUE, !.asked = ask, !.lost = FALSE,
                                     !.flights = flights1]
  BY DEF Wind!DoFetch
<1> HIDE DEF ask, flights1
<1>6. /\ Wind!DoFetch(f, h).timer = f.timer /\ Wind!DoFetch(f, h).asked = ask
      /\ Wind!DoFetch(f, h).flights = flights1
  BY <1>5 DEF Fetchings
<1>7. Wind!DoFetch(f, h) \in Fetchings
  BY <1>1, <1>3, <1>5 DEF Fetchings
<1> QED
  BY <1>4, <1>6, <1>7 DEF ask

\* The cleanup of the fetch effect leaves neither timer nor question nor live request.
LEMMA CleanupType ==
    ASSUME WindInv
    PROVE  /\ Wind!FetchCleanup \in Fetchings
           /\ Wind!FetchCleanup.timer = Nothing /\ Wind!FetchCleanup.asked = Nothing
           /\ \A flight \in Wind!FetchCleanup.flights : ~flight.live
<1> DEFINE flights1 == {[f EXCEPT !.live = FALSE] : f \in fetch.flights}
<1>1. fetch \in Fetchings /\ fetch.flights \subseteq WindFlights
  BY DEF WindInv, WindTypes, Fetchings
<1>2. flights1 \subseteq WindFlights /\ \A flight \in flights1 : ~flight.live
  BY <1>1 DEF WindFlights
<1>3. Wind!FetchCleanup = [fetch EXCEPT !.timer = Nothing, !.asked = Nothing, !.flights = flights1]
  BY DEF Wind!FetchCleanup
<1> HIDE DEF flights1
<1>4. /\ Wind!FetchCleanup.timer = Nothing /\ Wind!FetchCleanup.asked = Nothing
      /\ Wind!FetchCleanup.flights = flights1
  BY <1>1, <1>3 DEF Fetchings
<1>5. Wind!FetchCleanup \in Fetchings
  BY <1>1, <1>2, <1>3 DEF Fetchings
<1> QED
  BY <1>2, <1>4, <1>5

\* The cleanup and the start of the fetch effect.
LEMMA FetchEffect ==
    ASSUME WindInv
    PROVE  LET f == Wind!StartFetch(Wind!FetchCleanup)
           IN  /\ f \in Fetchings
               /\ \A flight \in f.flights : flight.live => flight.ask = f.asked
               /\ ~windPage.visible => f.timer = Nothing /\ \A flight \in f.flights : ~flight.live
<1> DEFINE c == Wind!FetchCleanup
           f == Wind!StartFetch(c)
<1>1. /\ c \in Fetchings /\ c.timer = Nothing
      /\ \A flight \in c.flights : ~flight.live
  BY CleanupType
<1>2. windPage.hour \in Hours /\ camera \in Cameras
  BY DEF WindInv, WindTypes, WindPages
<1> HIDE DEF c
<1>3. /\ f \in Fetchings
      /\ \A flight \in f.flights : flight.live => flight.ask = f.asked
      /\ ~windPage.visible => f.timer = Nothing /\ \A flight \in f.flights : ~flight.live
  <2>1. CASE ~windPage.visible
    BY <1>1, <2>1 DEF Wind!StartFetch
  <2>2. CASE windPage.visible /\ c.recent
    <3>1. f = [c EXCEPT !.timer = windPage.hour]
      BY <2>2 DEF Wind!StartFetch
    <3>2. f \in Fetchings /\ f.flights = c.flights
      BY <1>1, <1>2, <3>1 DEF Fetchings
    <3> QED
      BY <1>1, <2>2, <3>2
  <2>3. CASE windPage.visible /\ ~c.recent
    <3>1. f = Wind!DoFetch(c, windPage.hour)
      BY <2>3 DEF Wind!StartFetch
    <3> QED
      BY <1>1, <1>2, <2>3, <3>1, DoFetchType
  <2> QED
    BY <2>1, <2>2, <2>3
<1> QED
  BY <1>3 DEF c

\* What the module allows a life to be.
LifeShapes ==
    [mode : Wind!Modes \cup {"off"}, frames : 0..2, handle : BOOLEAN, system : BOOLEAN]

\* Lives with the same fields are the same.
LEMMA SameLife ==
    ASSUME NEW l \in LifeShapes, NEW m \in LifeShapes,
           l.mode = m.mode, l.frames = m.frames, l.handle <=> m.handle, l.system <=> m.system
    PROVE  l = m
BY DEF LifeShapes

\* The cleanup of the life effect turns the overlay off.
LEMMA CleanedUp == ASSUME life \in Lives, Wind!Mounted PROVE Wind!LifeCleanup = Wind!Off
<1>1. life.mode \in {"particles", "barbs"} /\ life \in LifeShapes
  <2>1. Lives \subseteq LifeShapes
    BY DEF Lives, Wind!Off, LifeShapes, Wind!Modes
  <2>2. \A l \in Lives : l.mode \in {"off", "particles", "barbs"}
    BY DEF Lives, Wind!Off
  <2> QED
    BY <2>1, <2>2 DEF Wind!Mounted
<1>2. /\ Wind!LifeCleanup.mode = "off"
      /\ Wind!LifeCleanup.handle \in BOOLEAN /\ ~Wind!LifeCleanup.handle
      /\ Wind!LifeCleanup.system \in BOOLEAN /\ ~Wind!LifeCleanup.system
  BY <1>1 DEF Wind!LifeCleanup, LifeShapes
<1>3. Wind!LifeCleanup.frames = 0
  <2>1. life.frames = IF life.handle THEN 1 ELSE 0
    BY DEF Lives, Wind!Off
  <2>2. Wind!LifeCleanup.frames = IF life.handle THEN life.frames - 1 ELSE life.frames
    BY <1>1 DEF Wind!LifeCleanup, LifeShapes
  <2> QED
    BY <2>1, <2>2
<1>4. Wind!LifeCleanup \in LifeShapes <=>
          /\ Wind!LifeCleanup.mode \in Wind!Modes \cup {"off"} /\ Wind!LifeCleanup.frames \in 0..2
          /\ Wind!LifeCleanup.handle \in BOOLEAN /\ Wind!LifeCleanup.system \in BOOLEAN
  BY <1>1 DEF Wind!LifeCleanup, LifeShapes
<1>5. Wind!LifeCleanup \in LifeShapes
  BY <1>2, <1>3, <1>4
<1>6. /\ Wind!Off \in LifeShapes
      /\ Wind!Off.mode = "off" /\ Wind!Off.frames = 0 /\ ~Wind!Off.handle /\ ~Wind!Off.system
  BY DEF Wind!Off, LifeShapes
<1> QED
  BY <1>2, <1>3, <1>5, <1>6, SameLife

\* The life effect mounts what the page says.
LEMMA LifeStarts ==
    ASSUME WindInv
    PROVE  LET l == Wind!LifeStart(IF Wind!Mounted THEN Wind!LifeCleanup ELSE life)
           IN  l \in Lives /\ (windPage.visible <=> l.mode # "off")
<1> DEFINE before == IF Wind!Mounted THEN Wind!LifeCleanup ELSE life
<1>1. before = Wind!Off
  <2>1. CASE Wind!Mounted
    BY <2>1, CleanedUp DEF WindInv, WindTypes
  <2>2. CASE ~Wind!Mounted
    BY <2>2 DEF Wind!Mounted, WindInv, WindTypes, Lives
  <2> QED
    BY <2>1, <2>2
<1>2. windPage.mode \in {"particles", "barbs"} /\ windPage.visible \in BOOLEAN
  BY DEF WindInv, WindTypes, WindPages, Wind!Modes
<1> HIDE DEF before
<1>3. Wind!LifeStart(before) \in Lives /\ (windPage.visible <=> Wind!LifeStart(before).mode # "off")
  <2>1. CASE ~windPage.visible
    BY <1>1, <1>2, <2>1 DEF Wind!LifeStart, Lives, Wind!Off
  <2>2. CASE windPage.visible /\ windPage.mode = "particles"
    <3> DEFINE started == [mode |-> "particles", frames |-> 1, handle |-> TRUE, system |-> TRUE]
    <3>1. Wind!LifeStart(before) =
              [mode |-> windPage.mode, system |-> TRUE, handle |-> windPage.mode = "particles",
               frames |-> before.frames + IF windPage.mode = "particles" THEN 1 ELSE 0]
      BY <2>2 DEF Wind!LifeStart
    <3>2. (windPage.mode = "particles") = TRUE
      BY <2>2
    <3>3. before.frames + (IF windPage.mode = "particles" THEN 1 ELSE 0) = 1
      BY <1>1, <2>2 DEF Wind!Off
    <3>4. Wind!LifeStart(before) = started
      BY <2>2, <3>1, <3>2, <3>3, Zenon
    <3>5. started \in Lives /\ started.mode # "off"
      BY DEF Lives
    <3> QED
      BY <2>2, <3>4, <3>5
  <2>3. CASE windPage.visible /\ windPage.mode = "barbs"
    <3> DEFINE started == [mode |-> "barbs", frames |-> 0, handle |-> FALSE, system |-> TRUE]
    <3>1. Wind!LifeStart(before) =
              [mode |-> windPage.mode, system |-> TRUE, handle |-> windPage.mode = "particles",
               frames |-> before.frames + IF windPage.mode = "particles" THEN 1 ELSE 0]
      BY <2>3 DEF Wind!LifeStart
    <3>2. (windPage.mode = "particles") = FALSE
      BY <2>3
    <3>3. before.frames + (IF windPage.mode = "particles" THEN 1 ELSE 0) = 0
      BY <1>1, <2>3 DEF Wind!Off
    <3>4. Wind!LifeStart(before) = started
      BY <2>3, <3>1, <3>2, <3>3, Zenon
    <3>5. started \in Lives /\ started.mode # "off"
      BY DEF Lives
    <3> QED
      BY <2>3, <3>4, <3>5
  <2> QED
    BY <1>2, <2>1, <2>2, <2>3
<1> QED
  BY <1>3 DEF before

\* The effects of a render run.
LEMMA WindEffectsStep == WindInv /\ Wind!RunEffects => WindInv'
<1> SUFFICES ASSUME WindInv, Wind!RunEffects PROVE WindInv'
  OBVIOUS
<1> DEFINE restarts == "life" \in windDue
           of == IF restarts /\ Wind!Mounted THEN Nothing ELSE field.of
<1>1. /\ windDue' = {} /\ UNCHANGED <<windPage, camera, windBudget>>
      /\ life' = IF restarts
                 THEN Wind!LifeStart(IF Wind!Mounted THEN Wind!LifeCleanup ELSE life) ELSE life
      /\ fetch' = IF "fetch" \in windDue THEN Wind!StartFetch(Wind!FetchCleanup) ELSE fetch
      /\ field' = [field EXCEPT !.of = of]
      /\ canvas' = IF "barbs" \in windDue /\ Wind!DrawsBarbs(of) THEN <<of, camera.view>>
                   ELSE IF restarts THEN Nothing ELSE canvas
  BY DEF Wind!RunEffects
<1>2. life' \in Lives /\ (windPage.visible <=> life'.mode # "off")
  BY <1>1, LifeStarts DEF WindInv, WindTypes, LifeFollowsPage
<1>3. /\ fetch' \in Fetchings
      /\ \A flight \in fetch'.flights : flight.live => flight.ask = fetch'.asked
  BY <1>1, FetchEffect DEF WindInv, WindTypes, LiveIsAsked
<1>4. of \in Wind!Questions \cup {Nothing} /\ field' \in WindFields /\ field'.of = of
  BY <1>1 DEF WindInv, WindTypes, WindFields
<1>5. canvas' \in Wind!Canvases \cup {Nothing}
  <2>1. CASE Wind!DrawsBarbs(of)
    <3>1. of \in Wind!Questions /\ camera.view \in WindViews
      BY <1>4, <2>1 DEF Wind!DrawsBarbs, WindInv, WindTypes, Cameras
    <3>2. <<of, camera.view>> \in Wind!Canvases
      BY <3>1 DEF Wind!Canvases
    <3> QED
      BY <1>1, <3>2 DEF WindInv, WindTypes
  <2>2. CASE ~Wind!DrawsBarbs(of)
    BY <1>1, <2>2 DEF WindInv, WindTypes
  <2> QED
    BY <2>1, <2>2
<1>6. ASSUME ~windPage.visible
      PROVE  /\ field'.of = Nothing /\ canvas' = Nothing
             /\ fetch'.timer = Nothing /\ \A flight \in fetch'.flights : ~flight.live
  <2>1. ~Wind!DrawsBarbs(of)
    BY <1>6 DEF Wind!DrawsBarbs
  <2>2. CASE restarts
    <3>1. of = Nothing
      BY <2>2 DEF Wind!Mounted, WindInv, OffIsClear
    <3> QED
      BY <1>1, <1>4, <1>6, <2>1, <2>2, <3>1, FetchEffect DEF WindInv, LifeFollowsPage
  <2>3. CASE ~restarts
    <3>1. life.mode = "off"
      BY <1>6, <2>3 DEF WindInv, LifeFollowsPage, WindTypes, WindPages
    <3> QED
      BY <1>1, <1>4, <1>6, <2>1, <2>3, <3>1, FetchEffect DEF WindInv, OffIsClear
  <2> QED
    BY <2>2, <2>3
<1>7. WindTypes'
  BY <1>1, <1>2, <1>3, <1>4, <1>5 DEF WindInv, WindTypes
<1>8. LifeFollowsPage' /\ LiveIsAsked'
  BY <1>1, <1>2, <1>3 DEF LifeFollowsPage, LiveIsAsked
<1>9. OffIsClear'
  BY <1>2, <1>6 DEF OffIsClear, WindInv, WindTypes, WindPages
<1> QED
  BY <1>7, <1>8, <1>9 DEF WindInv

\* A timer or an animation frame fires.
LEMMA WindTimersStep ==
    ASSUME WindInv, Wind!IntervalPasses \/ Wind!TimerFires \/ Wind!Frame
    PROVE  WindInv'
<1>1. CASE Wind!IntervalPasses
  <2>1. fetch' = [fetch EXCEPT !.recent = FALSE]
    BY <1>1 DEF Wind!IntervalPasses
  <2>2. /\ fetch' \in Fetchings /\ fetch'.timer = fetch.timer
        /\ fetch'.asked = fetch.asked /\ fetch'.flights = fetch.flights
    BY <2>1 DEF WindInv, WindTypes, Fetchings
  <2> QED
    BY <1>1, <2>2
    DEF Wind!IntervalPasses, WindInv, WindTypes, LifeFollowsPage, OffIsClear, LiveIsAsked
<1>2. CASE Wind!TimerFires
  <2> DEFINE f == [fetch EXCEPT !.timer = Nothing]
  <2>1. fetch.timer \in Hours /\ fetch' = Wind!DoFetch(f, fetch.timer)
    BY <1>2 DEF Wind!TimerFires, WindInv, WindTypes, Fetchings
  <2>2. f \in Fetchings /\ camera \in Cameras
    BY DEF WindInv, WindTypes, Fetchings
  <2> HIDE DEF f
  <2>3. /\ fetch' \in Fetchings
        /\ \A flight \in fetch'.flights : flight.live => flight.ask = fetch'.asked
    BY <2>1, <2>2, DoFetchType
  <2>4. life.mode # "off"
    BY <1>2 DEF Wind!TimerFires, WindInv, OffIsClear
  <2> QED
    BY <1>2, <2>3, <2>4
    DEF Wind!TimerFires, WindInv, WindTypes, LifeFollowsPage, OffIsClear, LiveIsAsked
<1>3. CASE Wind!Frame
  <2>1. life' = life
    BY <1>3 DEF Wind!Frame, WindInv, WindTypes, Lives, Wind!Off
  <2> QED
    BY <1>3, <2>1 DEF Wind!Frame, WindInv, WindTypes, LifeFollowsPage, OffIsClear, LiveIsAsked
<1> QED
  BY <1>1, <1>2, <1>3

\* A request is answered or fails.
LEMMA WindAnswersStep ==
    ASSUME WindInv, NEW flight \in fetch.flights, Wind!FieldLands(flight) \/ Wind!FetchFails(flight)
    PROVE  WindInv'
<1>1. /\ fetch \in Fetchings /\ flight \in WindFlights
      /\ flight.live => life.mode # "off"
  BY DEF WindInv, WindTypes, Fetchings, OffIsClear
<1>2. CASE Wind!FieldLands(flight)
  <2>1. fetch' = [fetch EXCEPT !.flights = @ \ {flight}]
    BY <1>2 DEF Wind!FieldLands
  <2>2. /\ fetch' \in Fetchings /\ fetch'.timer = fetch.timer
        /\ fetch'.asked = fetch.asked /\ fetch'.flights = fetch.flights \ {flight}
    BY <1>1, <2>1 DEF Fetchings
  <2>3. field' \in WindFields /\ (flight.live \/ field' = field)
    BY <1>1, <1>2 DEF Wind!FieldLands, Wind!Heeds, WindFields, WindFlights, WindInv, WindTypes
  <2>4. windDue' \in {windDue, windDue \cup {"barbs"}}
    BY <1>2 DEF Wind!FieldLands
  <2> QED
    BY <1>1, <1>2, <2>2, <2>3, <2>4
    DEF Wind!FieldLands, WindInv, WindTypes, LifeFollowsPage, OffIsClear, LiveIsAsked
<1>3. CASE Wind!FetchFails(flight)
  <2>1. fetch' = [fetch EXCEPT !.flights = @ \ {flight}, !.lost = TRUE]
    BY <1>3 DEF Wind!FetchFails
  <2>2. /\ fetch' \in Fetchings /\ fetch'.timer = fetch.timer
        /\ fetch'.asked = fetch.asked /\ fetch'.flights = fetch.flights \ {flight}
    BY <1>1, <2>1 DEF Fetchings
  <2>3. windBudget' \in [changes : 0..WindChanges, failures : 0..WindFailures]
    BY <1>3, WindAssumption DEF WindAssumption, Wind!FetchFails, WindInv, WindTypes
  <2> QED
    BY <1>3, <2>2, <2>3
    DEF Wind!FetchFails, WindInv, WindTypes, LifeFollowsPage, OffIsClear, LiveIsAsked
<1> QED
  BY <1>2, <1>3

\* Every step keeps the invariant.
LEMMA WindStep == WindInv /\ [Wind!Next]_windVars => WindInv'
<1> SUFFICES ASSUME WindInv, [Wind!Next]_windVars PROVE WindInv'
  OBVIOUS
<1>1. CASE UNCHANGED windVars
  BY <1>1 DEF windVars, WindInv, WindTypes, LifeFollowsPage, OffIsClear, LiveIsAsked
<1> QED
  BY <1>1, WindRenders, WindCameraStep, WindEffectsStep, WindTimersStep, WindAnswersStep
     DEF Wind!Next

\* UnmountContract: whatever crosses its removal, a hidden overlay leaves nothing behind,
\* and no two animation loops run.
THEOREM WindUnmountsCleanly == PageSpec => []UnmountContract
<1>1. PageInit => WindInv
  BY WindInit DEF PageInit
<1>2. WindInv /\ [PageNext]_pageVars => WindInv'
  BY WindMoves, WindStep
<1>3. WindInv => UnmountContract
  BY WindContract
<1> QED
  BY <1>1, <1>2, <1>3, PTL DEF PageSpec

\* A step of the overlay, as one of LatestRequest.
LEMMA WindRefines ==
  WindInv /\ [Wind!Next]_windVars => [Wind!Wind!Next]_<<fetch.asked, field.of>>
<1> SUFFICES ASSUME WindInv, [Wind!Next]_windVars,
                    <<fetch.asked, field.of>>' # <<fetch.asked, field.of>>
             PROVE  Wind!Wind!Next
  OBVIOUS
<1>1. CASE Wind!RunEffects
  <2>1. field'.of \in {field.of, Nothing}
    BY <1>1 DEF Wind!RunEffects, WindInv, WindTypes, WindFields
  <2>2. CASE "fetch" \in windDue
    <3>1. fetch'.asked \in Wind!Questions \cup {Nothing}
      BY <1>1, <2>2, FetchEffect DEF Wind!RunEffects, Fetchings
    <3> QED
      BY <2>1, <3>1 DEF Wind!Wind!Next, Wind!Wind!Ask, Wind!Wind!Withdraw, Wind!Wind!KeepOrClear
  <2>3. CASE "fetch" \notin windDue
    BY <1>1, <2>3 DEF Wind!RunEffects, WindInv, LifeFollowsPage, WindTypes, WindFields
  <2> QED
    BY <2>2, <2>3
<1>2. CASE Wind!TimerFires
  <2> DEFINE f == [fetch EXCEPT !.timer = Nothing]
  <2>1. fetch.timer \in Hours /\ fetch' = Wind!DoFetch(f, fetch.timer) /\ field' = field
    BY <1>2 DEF Wind!TimerFires, WindInv, WindTypes, Fetchings
  <2>2. f \in Fetchings /\ camera \in Cameras
    BY DEF WindInv, WindTypes, Fetchings
  <2> HIDE DEF f
  <2>3. fetch'.asked = <<fetch.timer, camera.view>> /\ camera.view \in WindViews
    BY <2>1, <2>2, DoFetchType DEF Cameras
  <2>4. fetch'.asked \in Wind!Questions
    BY <2>1, <2>3 DEF Wind!Questions
  <2> QED
    BY <2>1, <2>4 DEF Wind!Wind!Next, Wind!Wind!Ask, Wind!Wind!KeepOrClear
<1>3. ASSUME NEW flight \in fetch.flights, Wind!FieldLands(flight)
      PROVE  Wind!Wind!Next
  <2>1. /\ fetch \in Fetchings /\ flight \in WindFlights
        /\ flight.live => flight.ask = fetch.asked
    BY DEF WindInv, WindTypes, Fetchings, LiveIsAsked
  <2>2. fetch'.asked = fetch.asked
    BY <1>3, <2>1 DEF Wind!FieldLands, Fetchings
  <2>3. flight.live /\ field'.of = flight.ask
    BY <1>3, <2>2 DEF Wind!FieldLands, Wind!Heeds
  <2>4. fetch.asked # Nothing /\ field'.of = fetch.asked
    BY <2>1, <2>3, WindAssumption DEF WindFlights, WindAssumption
  <2> QED
    BY <2>2, <2>4 DEF Wind!Wind!Next, Wind!Wind!Answer
<1>4. ASSUME NEW flight \in fetch.flights, Wind!FetchFails(flight)
      PROVE  FALSE
  BY <1>4 DEF Wind!FetchFails, WindInv, WindTypes, Fetchings
<1> QED
  BY <1>1, <1>2, <1>3, <1>4
  DEF Wind!Next, windVars, Wind!ShowHour, Wind!SwitchMode, Wind!SwitchVisible, Wind!Render,
      Wind!OnMoveStart, Wind!CameraMoves, Wind!OnMoveEnd, Wind!IntervalPasses, Wind!Frame,
      WindInv, WindTypes, Fetchings

\* Refinement: the wind overlay implements LatestRequest.
LEMMA WindIsLatest == PageSpec => Wind!FieldIsLatest
<1>1. PageInit => WindInv
  BY WindInit DEF PageInit
<1>2. WindInv /\ [PageNext]_pageVars => WindInv'
  BY WindMoves, WindStep
<1>3. PageInit => Wind!Wind!Init
  BY DEF PageInit, Wind!Init, Wind!Wind!Init
<1>4. WindInv /\ [PageNext]_pageVars => [Wind!Wind!Next]_<<fetch.asked, field.of>>
  BY WindMoves, WindRefines
<1> QED
  BY <1>1, <1>2, <1>3, <1>4, PTL DEF PageSpec, Wind!FieldIsLatest, Wind!Wind!Spec

-----------------------------------------------------------------------------
(*****************************************************************************)
(* The station meteogram (StationMeteogram).                                 *)
(*****************************************************************************)

\* A step of the page is a step of the drawer, or leaves it alone.
LEMMA MeteogramMoves == [PageNext]_pageVars => [Meteogram!Next]_meteogramVars
BY DEF PageNext, Only, pageVars, meteogramVars

\* The props, and the station picked.
ChartPages == [cycle : SeriesCycles, units : Units, station : Places \cup {Nothing}]

\* The requests on the wire.
SeriesFlights == [ask : Meteogram!Questions, live : BOOLEAN]

\* What the fetch effect keeps.
SeriesFetches ==
    [status : {"closed", "loading", "error", "ready"}, asked : Meteogram!Questions \cup {Nothing},
     of : Meteogram!Questions \cup {Nothing}, flights : SUBSET SeriesFlights]

\* The charts drawn.
ChartSets ==
    [gen : 0..Builds, of : Meteogram!Questions \cup {Nothing}, units : Units \cup {Nothing}]

\* The crosshair, what holds on to charts, and the frames asked for.
Hovers ==
    [index : Hours \cup {Nothing}, holding : SUBSET (1..Builds), frames : SUBSET (1..Builds)]

\* The bounds.
ChartBudgets ==
    [changes : 0..SeriesChanges, failures : 0..SeriesFailures, builds : 0..Builds]

\* The types.
MeteogramTypes ==
    /\ chartPage \in ChartPages
    /\ chartDue \subseteq Meteogram!Effects
    /\ series \in SeriesFetches
    /\ charts \in ChartSets
    /\ hover \in Hovers
    /\ marker \in Places \cup {Nothing}
    /\ chartBudget \in ChartBudgets

\* The question is withdrawn with the station, and asked of what is selected.
AskedIsSelected ==
    /\ chartPage.station = Nothing => series.status = "closed" /\ "fetch" \notin chartDue
    /\ series.status = "closed" <=> series.asked = Nothing
    /\ series.status # "closed" /\ "fetch" \notin chartDue => series.asked = Meteogram!Question

\* Only a question without its answer is on the wire, and live.
LiveIsWaited ==
    /\ series.of = IF series.status = "ready" THEN series.asked ELSE Nothing
    /\ \A flight \in series.flights :
           flight.live => series.status = "loading" /\ flight.ask = series.asked

\* Charts that no effect is to draw again.
ChartsAreDrawn ==
    "charts" \notin chartDue =>
        /\ charts.of = series.of
        /\ charts.of # Nothing => charts.units = charts.of[3]

\* The inductive invariant of the drawer.
MeteogramInv ==
    /\ MeteogramTypes
    /\ AskedIsSelected
    /\ LiveIsWaited
    /\ ChartsAreDrawn
    /\ hover.holding \subseteq {charts.gen}

\* The property is part of the invariant.
LEMMA MeteogramContract == MeteogramInv => ChartsMatchSeries
BY DEF MeteogramInv, ChartsAreDrawn, ChartsMatchSeries, Meteogram!ChartsMatchSeries

\* The types of the proof are those of the module.
LEMMA MeteogramTypesSuffice == MeteogramTypes => Meteogram!TypeOK
BY DEF MeteogramTypes, Meteogram!TypeOK, ChartPages, SeriesFlights, SeriesFetches, ChartSets, Hovers,
       ChartBudgets

\* The drawer starts closed.
LEMMA MeteogramInit == Meteogram!Init => MeteogramInv
<1> SUFFICES ASSUME Meteogram!Init PROVE MeteogramInv
  OBVIOUS
<1>1. chartPage \in ChartPages /\ chartPage.station = Nothing
  BY MeteogramAssumption DEF MeteogramAssumption, Meteogram!Init, ChartPages
<1>2. /\ series \in SeriesFetches /\ charts \in ChartSets /\ hover \in Hovers
      /\ hover.holding = {} /\ charts.of = Nothing
  BY MeteogramAssumption
  DEF MeteogramAssumption, Meteogram!Init, SeriesFetches, ChartSets, Hovers, Meteogram!NoCharts
<1>3. chartBudget \in ChartBudgets
  BY MeteogramAssumption DEF MeteogramAssumption, Meteogram!Init, ChartBudgets
<1>4. /\ series.status = "closed" /\ series.asked = Nothing /\ series.of = Nothing
      /\ series.flights = {} /\ chartDue = {} /\ marker = Nothing
  BY DEF Meteogram!Init
<1> QED
  BY <1>1, <1>2, <1>3, <1>4
  DEF MeteogramInv, MeteogramTypes, AskedIsSelected, LiveIsWaited, ChartsAreDrawn

\* A render changes the props and what is due.
LEMMA ChartsRender ==
    ASSUME MeteogramInv, NEW new \in ChartPages, NEW effects \in SUBSET Meteogram!Effects,
           Meteogram!Render(new, effects), "fetch" \in effects,
           new.station = Nothing => chartPage.station = Nothing
    PROVE  MeteogramInv'
<1>1. chartBudget' \in ChartBudgets
  BY MeteogramAssumption
  DEF MeteogramAssumption, Meteogram!Render, MeteogramInv, MeteogramTypes, ChartBudgets
<1>2. MeteogramTypes'
  BY <1>1 DEF Meteogram!Render, MeteogramInv, MeteogramTypes, Meteogram!Effects
<1>3. AskedIsSelected'
  BY DEF Meteogram!Render, MeteogramInv, AskedIsSelected
<1> QED
  BY <1>2, <1>3 DEF Meteogram!Render, MeteogramInv, LiveIsWaited, ChartsAreDrawn

\* The page changes a prop, or a station is picked.
LEMMA ChartPageStep ==
    ASSUME MeteogramInv,
           \/ \E place \in Places : Meteogram!PickStation(place)
           \/ \E cycle \in SeriesCycles : Meteogram!SwitchCycle(cycle)
           \/ \E units \in Units : Meteogram!SwitchUnits(units)
    PROVE  MeteogramInv'
<1>0. chartPage \in ChartPages
  BY DEF MeteogramInv, MeteogramTypes
<1>1. ASSUME NEW place \in Places, Meteogram!PickStation(place) PROVE MeteogramInv'
  <2>1. /\ [chartPage EXCEPT !.station = place] \in ChartPages
        /\ [chartPage EXCEPT !.station = place].station # Nothing
    BY <1>0, MeteogramAssumption DEF MeteogramAssumption, ChartPages
  <2> QED
    BY <1>1, <2>1, ChartsRender DEF Meteogram!PickStation, Meteogram!Effects
<1>2. ASSUME NEW cycle \in SeriesCycles, Meteogram!SwitchCycle(cycle) PROVE MeteogramInv'
  <2>1. /\ [chartPage EXCEPT !.cycle = cycle] \in ChartPages
        /\ [chartPage EXCEPT !.cycle = cycle].station = chartPage.station
    BY <1>0 DEF ChartPages
  <2> QED
    BY <1>2, <2>1, ChartsRender DEF Meteogram!SwitchCycle, Meteogram!Effects
<1>3. ASSUME NEW units \in Units, Meteogram!SwitchUnits(units) PROVE MeteogramInv'
  <2>1. /\ [chartPage EXCEPT !.units = units] \in ChartPages
        /\ [chartPage EXCEPT !.units = units].station = chartPage.station
    BY <1>0 DEF ChartPages
  <2> QED
    BY <1>3, <2>1, ChartsRender DEF Meteogram!SwitchUnits, Meteogram!Effects
<1> QED
  BY <1>1, <1>2, <1>3

\* After the cleanup of the fetch effect no request is heeded.
LEMMA CancelledType ==
  MeteogramInv => /\ Meteogram!Cancelled \subseteq SeriesFlights
                  /\ \A flight \in Meteogram!Cancelled : ~flight.live
BY DEF MeteogramInv, MeteogramTypes, SeriesFetches, SeriesFlights, Meteogram!Cancelled

\* The cleanup of the charts drops the crosshair, not the frames asked for.
LEMMA ClearedType ==
  MeteogramInv => /\ Meteogram!Cleared(hover) \in Hovers
                  /\ Meteogram!Cleared(hover).holding = {}
                  /\ Meteogram!Cleared(hover).frames = hover.frames
BY DEF MeteogramInv, MeteogramTypes, Hovers, Meteogram!Cleared

\* No charts are charts of nothing.
LEMMA NoChartsType == /\ Meteogram!NoCharts \in ChartSets
                      /\ Meteogram!NoCharts.of = Nothing
BY MeteogramAssumption DEF MeteogramAssumption, Meteogram!NoCharts, ChartSets

\* The drawer is closed.
LEMMA MeteogramCloseStep == MeteogramInv /\ Meteogram!CloseDrawer => MeteogramInv'
<1> SUFFICES ASSUME MeteogramInv, Meteogram!CloseDrawer PROVE MeteogramInv'
  OBVIOUS
<1>1. chartPage' \in ChartPages /\ chartPage'.station = Nothing
  BY DEF Meteogram!CloseDrawer, MeteogramInv, MeteogramTypes, ChartPages
<1>2. series' = [series EXCEPT !.status = "closed", !.asked = Nothing, !.of = Nothing,
                               !.flights = Meteogram!Cancelled]
  BY DEF Meteogram!CloseDrawer
<1>3. /\ series'.status = "closed" /\ series'.asked = Nothing /\ series'.of = Nothing
      /\ series'.flights = Meteogram!Cancelled
  BY <1>2 DEF MeteogramInv, MeteogramTypes, SeriesFetches
<1>4. series' \in SeriesFetches
  BY <1>2, CancelledType DEF MeteogramInv, MeteogramTypes, SeriesFetches
<1>5. hover' \in Hovers /\ hover'.holding = {}
  BY ClearedType DEF Meteogram!CloseDrawer
<1>6. charts' \in ChartSets /\ charts'.of = Nothing
  BY NoChartsType DEF Meteogram!CloseDrawer
<1>7. chartDue' = {"marker"} /\ UNCHANGED <<marker, chartBudget>>
  BY DEF Meteogram!CloseDrawer
<1> QED
  BY <1>1, <1>3, <1>4, <1>5, <1>6, <1>7, CancelledType
  DEF MeteogramInv, MeteogramTypes, AskedIsSelected, LiveIsWaited, ChartsAreDrawn, Meteogram!Effects

\* The user retries, or the map is mounted again.
LEMMA MeteogramRetryStep ==
    ASSUME MeteogramInv, Meteogram!Retry \/ Meteogram!RemountMap
    PROVE  MeteogramInv'
<1>1. CASE Meteogram!Retry
  BY <1>1
     DEF Meteogram!Retry, MeteogramInv, MeteogramTypes, AskedIsSelected, LiveIsWaited,
         ChartsAreDrawn,
              Meteogram!Effects
<1>2. CASE Meteogram!RemountMap
  <2>1. /\ chartDue = {} /\ chartDue' = {"marker"} /\ marker' = Nothing
        /\ UNCHANGED <<chartPage, series, charts, hover, chartBudget>>
    BY <1>2 DEF Meteogram!RemountMap
  <2>2. MeteogramTypes' /\ LiveIsWaited' /\ ChartsAreDrawn'
    BY <2>1 DEF MeteogramInv, MeteogramTypes, LiveIsWaited, ChartsAreDrawn, Meteogram!Effects
  <2>4. Meteogram!Question' = Meteogram!Question
    BY <2>1 DEF Meteogram!Question
  <2>3. AskedIsSelected'
    BY <2>1, <2>4 DEF MeteogramInv, AskedIsSelected
  <2> QED
    BY <2>1, <2>2, <2>3 DEF MeteogramInv
<1> QED
  BY <1>1, <1>2

\* What the fetch effect asks for.
LEMMA QuestionType ==
    ASSUME MeteogramInv, "fetch" \in chartDue \/ series.status # "closed"
    PROVE  Meteogram!Question \in Meteogram!Questions /\ Meteogram!Question[3] = chartPage.units
<1>1. chartPage.station \in Places /\ chartPage.cycle \in SeriesCycles /\ chartPage.units \in Units
  BY DEF MeteogramInv, MeteogramTypes, AskedIsSelected, ChartPages
<1> QED
  BY <1>1 DEF Meteogram!Question, Meteogram!Questions

\* The fetch effect starts a request.
LEMMA StartFetchType ==
    ASSUME MeteogramInv, "fetch" \in chartDue
    PROVE  LET f == Meteogram!StartFetch
           IN  /\ f \in SeriesFetches /\ f.status = "loading"
               /\ f.asked = Meteogram!Question /\ f.of = Nothing
               /\ \A flight \in f.flights : flight.live => flight.ask = Meteogram!Question
<1> DEFINE flights1 == Meteogram!Cancelled \cup {[ask |-> Meteogram!Question, live |-> TRUE]}
<1>1. Meteogram!StartFetch = [series EXCEPT !.status = "loading", !.asked = Meteogram!Question,
                                            !.of = Nothing, !.flights = flights1]
  BY DEF Meteogram!StartFetch
<1>2. flights1 \subseteq SeriesFlights
  <2>1. Meteogram!Question \in Meteogram!Questions
    BY QuestionType
  <2>2. [ask |-> Meteogram!Question, live |-> TRUE] \in SeriesFlights
    BY <2>1 DEF SeriesFlights
  <2> QED
    BY <2>2, CancelledType
<1>3. \A flight \in flights1 : flight.live => flight.ask = Meteogram!Question
  BY CancelledType
<1>4. Meteogram!Question \in Meteogram!Questions
  BY QuestionType
<1> HIDE DEF flights1
<1>5. /\ Meteogram!StartFetch.status = "loading" /\ Meteogram!StartFetch.asked = Meteogram!Question
      /\ Meteogram!StartFetch.of = Nothing /\ Meteogram!StartFetch.flights = flights1
  BY <1>1 DEF MeteogramInv, MeteogramTypes, SeriesFetches
<1>6. Meteogram!StartFetch \in SeriesFetches
  BY <1>1, <1>2, <1>4 DEF MeteogramInv, MeteogramTypes, SeriesFetches
<1> QED
  BY <1>3, <1>5, <1>6

\* The chart effect draws the series that came, if one did.
LEMMA DrawChartsType ==
    ASSUME MeteogramInv, Meteogram!DrawCharts, series.status = "ready" => chartBudget.builds > 0
    PROVE  /\ charts' \in ChartSets /\ hover' \in Hovers /\ chartBudget' \in ChartBudgets
           /\ hover'.holding \subseteq {charts'.gen}
           /\ charts'.of = series.of
           /\ series.status = "ready" => charts'.units = chartPage.units
<1>1. CASE series.status # "ready"
  <2>1. charts' = Meteogram!NoCharts /\ hover' = Meteogram!Cleared(hover) /\ chartBudget' = chartBudget
    BY <1>1 DEF Meteogram!DrawCharts
  <2>2. series.of = Nothing
    BY <1>1 DEF MeteogramInv, LiveIsWaited
  <2> QED
    BY <1>1, <2>1, <2>2, NoChartsType, ClearedType DEF MeteogramInv, MeteogramTypes
<1>2. CASE series.status = "ready"
  <2> DEFINE gen == Builds - chartBudget.builds + 1
  <2>1. /\ charts' = [gen |-> gen, of |-> series.of, units |-> chartPage.units]
        /\ hover' = [Meteogram!Cleared(hover) EXCEPT !.holding = @ \cup {charts'.gen}]
        /\ chartBudget' = [chartBudget EXCEPT !.builds = @ - 1]
    BY <1>2 DEF Meteogram!DrawCharts
  <2>2. gen \in 1..Builds
    BY <1>2, MeteogramAssumption DEF MeteogramAssumption, MeteogramInv, MeteogramTypes, ChartBudgets
  <2>3. series.of \in Meteogram!Questions \cup {Nothing} /\ chartPage.units \in Units
    BY DEF MeteogramInv, MeteogramTypes, SeriesFetches, ChartPages
  <2> HIDE DEF gen
  <2>4. charts'.gen = gen /\ charts'.of = series.of /\ charts'.units = chartPage.units
    BY <2>1
  <2>5. charts' \in ChartSets
    BY <2>1, <2>2, <2>3, MeteogramAssumption DEF ChartSets, MeteogramAssumption
  <2>6. hover' \in Hovers /\ hover'.holding = {gen}
    BY <2>1, <2>2, <2>4, ClearedType DEF Hovers
  <2>7. chartBudget' \in ChartBudgets
    BY <1>2, <2>1, MeteogramAssumption
    DEF MeteogramAssumption, MeteogramInv, MeteogramTypes, ChartBudgets
  <2> QED
    BY <2>4, <2>5, <2>6, <2>7
<1> QED
  BY <1>1, <1>2

\* The effects of a render run.
LEMMA ChartEffectsStep == MeteogramInv /\ Meteogram!RunEffects => MeteogramInv'
<1> SUFFICES ASSUME MeteogramInv, Meteogram!RunEffects PROVE MeteogramInv'
  OBVIOUS
<1>1. /\ marker' = IF "marker" \in chartDue THEN chartPage.station ELSE marker
      /\ series' = IF "fetch" \in chartDue THEN Meteogram!StartFetch ELSE series
      /\ chartDue' = IF "fetch" \in chartDue /\ series.status = "ready" THEN {"charts"} ELSE {}
      /\ UNCHANGED chartPage
      /\ "charts" \in chartDue /\ series.status = "ready" => chartBudget.builds > 0
  BY DEF Meteogram!RunEffects
<1>2. Meteogram!Question' = Meteogram!Question
  BY <1>1 DEF Meteogram!Question
<1>3. /\ series' \in SeriesFetches /\ AskedIsSelected' /\ LiveIsWaited'
      /\ "fetch" \in chartDue => series'.of = Nothing
  <2>1. CASE "fetch" \in chartDue
    <3>1. /\ series' \in SeriesFetches /\ series'.status = "loading"
          /\ series'.asked = Meteogram!Question /\ series'.of = Nothing
          /\ \A flight \in series'.flights : flight.live => flight.ask = Meteogram!Question
      BY <1>1, <2>1, StartFetchType
    <3>2. Meteogram!Question # Nothing /\ chartPage.station # Nothing
      BY <2>1, QuestionType, MeteogramAssumption
      DEF MeteogramAssumption, MeteogramInv, AskedIsSelected
    <3> QED
      BY <1>1, <1>2, <3>1, <3>2 DEF AskedIsSelected, LiveIsWaited
  <2>2. CASE "fetch" \notin chartDue
    BY <1>1, <1>2, <2>2 DEF MeteogramInv, MeteogramTypes, AskedIsSelected, LiveIsWaited
  <2> QED
    BY <2>1, <2>2
<1>4. /\ charts' \in ChartSets /\ hover' \in Hovers /\ chartBudget' \in ChartBudgets
      /\ hover'.holding \subseteq {charts'.gen}
      /\ charts'.of = series.of \/ UNCHANGED charts
  <2>1. CASE "charts" \in chartDue
    BY <1>1, <2>1, DrawChartsType DEF Meteogram!RunEffects
  <2>2. CASE "charts" \notin chartDue
    BY <2>2 DEF Meteogram!RunEffects, MeteogramInv, MeteogramTypes
  <2> QED
    BY <2>1, <2>2
<1>5. ChartsAreDrawn'
  <2> SUFFICES ASSUME chartDue' = {}
               PROVE  /\ charts'.of = series'.of
                      /\ charts'.of # Nothing => charts'.units = charts'.of[3]
    BY <1>1 DEF ChartsAreDrawn
  <2>1. series'.of = series.of /\ ("fetch" \in chartDue => series.of = Nothing)
    BY <1>1, <1>3 DEF MeteogramInv, LiveIsWaited
  <2>2. CASE "charts" \in chartDue
    <3>1. /\ charts'.of = series.of
          /\ series.status = "ready" => charts'.units = chartPage.units
      BY <1>1, <2>2, DrawChartsType DEF Meteogram!RunEffects
    <3>2. ASSUME series.of # Nothing
          PROVE  charts'.units = series.of[3]
      <4>1. series.status = "ready" /\ "fetch" \notin chartDue /\ series.of = series.asked
        BY <2>1, <3>2 DEF MeteogramInv, LiveIsWaited
      <4>2. series.of = Meteogram!Question /\ Meteogram!Question[3] = chartPage.units
        BY <4>1, QuestionType DEF MeteogramInv, AskedIsSelected
      <4> QED
        BY <3>1, <4>1, <4>2
    <3> QED
      BY <2>1, <3>1, <3>2
  <2>3. CASE "charts" \notin chartDue
    <3>1. UNCHANGED charts
      BY <2>3 DEF Meteogram!RunEffects
    <3> QED
      BY <2>1, <2>3, <3>1 DEF MeteogramInv, ChartsAreDrawn
  <2> QED
    BY <2>2, <2>3
<1>6. MeteogramTypes'
  BY <1>1, <1>3, <1>4 DEF MeteogramInv, MeteogramTypes, ChartPages, Meteogram!Effects
<1> QED
  BY <1>3, <1>4, <1>5, <1>6 DEF MeteogramInv

\* A request is answered or fails.
LEMMA SeriesAnswersStep ==
    ASSUME MeteogramInv, NEW flight \in series.flights, Meteogram!Land(flight) \/ Meteogram!Fail(flight)
    PROVE  MeteogramInv'
<1>1. /\ series \in SeriesFetches /\ flight \in SeriesFlights
      /\ flight.live => series.status = "loading" /\ flight.ask = series.asked
  BY DEF MeteogramInv, MeteogramTypes, SeriesFetches, LiveIsWaited
<1>2. UNCHANGED chartPage => Meteogram!Question' = Meteogram!Question
  BY DEF Meteogram!Question
<1>3. ASSUME flight.live, NEW other \in series.flights \ {flight}
      PROVE  ~other.live
  <2>1. other \in SeriesFlights /\ (other.live => other.ask = flight.ask)
    BY <1>1, <1>3 DEF MeteogramInv, MeteogramTypes, SeriesFetches, LiveIsWaited
  <2> QED
    BY <1>1, <1>3, <2>1 DEF SeriesFlights
<1>4. CASE Meteogram!Land(flight) /\ flight.live
  <2>1. series' = [series EXCEPT !.flights = @ \ {flight}, !.status = "ready", !.of = flight.ask]
    BY <1>4 DEF Meteogram!Land, Meteogram!Heeds
  <2>2. /\ series'.flights = series.flights \ {flight} /\ series'.status = "ready"
        /\ series'.of = flight.ask /\ series'.asked = series.asked
    BY <1>1, <2>1 DEF SeriesFetches
  <2>3. series' \in SeriesFetches
    BY <1>1, <2>1 DEF SeriesFetches, SeriesFlights
  <2>4. /\ chartDue' = chartDue \cup {"charts"}
        /\ UNCHANGED <<chartPage, charts, hover, marker, chartBudget>>
    BY <1>4 DEF Meteogram!Land, Meteogram!Heeds
  <2>5. MeteogramTypes'
    BY <2>3, <2>4 DEF MeteogramInv, MeteogramTypes, Meteogram!Effects
  <2>6. AskedIsSelected'
    BY <1>1, <1>2, <1>4, <2>2, <2>4 DEF MeteogramInv, AskedIsSelected
  <2>7. LiveIsWaited'
    BY <1>1, <1>3, <1>4, <2>2 DEF MeteogramInv, LiveIsWaited
  <2> QED
    BY <2>4, <2>5, <2>6, <2>7 DEF MeteogramInv, ChartsAreDrawn
<1>5. CASE Meteogram!Land(flight) /\ ~flight.live
  <2>1. series' = [series EXCEPT !.flights = @ \ {flight}] /\ chartDue' = chartDue
        /\ UNCHANGED <<chartPage, charts, hover, marker, chartBudget>>
    BY <1>5 DEF Meteogram!Land, Meteogram!Heeds
  <2>2. /\ series'.flights = series.flights \ {flight} /\ series'.status = series.status
        /\ series'.of = series.of /\ series'.asked = series.asked /\ series' \in SeriesFetches
    BY <1>1, <2>1 DEF SeriesFetches
  <2> QED
    BY <1>2, <2>1, <2>2
    DEF MeteogramInv, MeteogramTypes, AskedIsSelected, LiveIsWaited, ChartsAreDrawn
<1>6. CASE Meteogram!Fail(flight)
  <2>1. /\ flight.live /\ series' = [series EXCEPT !.flights = @ \ {flight}, !.status = "error"]
        /\ UNCHANGED <<chartPage, chartDue, charts, hover, marker>>
    BY <1>6 DEF Meteogram!Fail
  <2>2. /\ series'.flights = series.flights \ {flight} /\ series'.status = "error"
        /\ series'.of = series.of /\ series'.asked = series.asked /\ series' \in SeriesFetches
    BY <1>1, <2>1 DEF SeriesFetches
  <2>3. chartBudget' \in ChartBudgets
    BY <1>6, MeteogramAssumption
    DEF MeteogramAssumption, Meteogram!Fail, MeteogramInv, MeteogramTypes, ChartBudgets
  <2>4. MeteogramTypes'
    BY <2>1, <2>2, <2>3 DEF MeteogramInv, MeteogramTypes
  <2>5. AskedIsSelected'
    BY <1>1, <1>2, <2>1, <2>2 DEF MeteogramInv, AskedIsSelected
  <2>6. LiveIsWaited'
    BY <1>1, <1>3, <2>1, <2>2 DEF MeteogramInv, LiveIsWaited
  <2> QED
    BY <2>1, <2>2, <2>4, <2>5, <2>6 DEF MeteogramInv, ChartsAreDrawn
<1> QED
  BY <1>4, <1>5, <1>6

\* The pointer moves over a chart, or a frame draws the crosshair.
LEMMA MeteogramHoverStep ==
    ASSUME MeteogramInv,
           \/ \E index \in Hours \cup {Nothing} : Meteogram!Hover(index)
           \/ \E gen \in hover.frames : Meteogram!Frame(gen)
    PROVE  MeteogramInv'
<1>1. UNCHANGED <<chartPage, chartDue, series, charts, marker, chartBudget>>
  BY DEF Meteogram!Hover, Meteogram!Frame
<1>2. hover' \in Hovers /\ hover'.holding = hover.holding
  <2>1. ASSUME NEW index \in Hours \cup {Nothing}, Meteogram!Hover(index)
        PROVE  hover' \in Hovers /\ hover'.holding = hover.holding
    <3>0. charts.gen \in 0..Builds /\ charts.gen # 0
      BY <2>1 DEF Meteogram!Hover, MeteogramInv, MeteogramTypes, ChartSets
    <3>1. charts.gen \in 1..Builds
      BY <3>0, MeteogramAssumption DEF MeteogramAssumption
    <3> QED
      BY <2>1, <3>1 DEF Meteogram!Hover, MeteogramInv, MeteogramTypes, Hovers
  <2>2. ASSUME NEW gen \in hover.frames, Meteogram!Frame(gen)
        PROVE  hover' \in Hovers /\ hover'.holding = hover.holding
    BY <2>2 DEF Meteogram!Frame, MeteogramInv, MeteogramTypes, Hovers
  <2> QED
    BY <2>1, <2>2
<1>3. Meteogram!Question' = Meteogram!Question
  BY <1>1 DEF Meteogram!Question
<1> QED
  BY <1>1, <1>2, <1>3
  DEF MeteogramInv, MeteogramTypes, AskedIsSelected, LiveIsWaited, ChartsAreDrawn

\* Every step keeps the invariant.
LEMMA MeteogramStep == MeteogramInv /\ [Meteogram!Next]_meteogramVars => MeteogramInv'
<1> SUFFICES ASSUME MeteogramInv, [Meteogram!Next]_meteogramVars PROVE MeteogramInv'
  OBVIOUS
<1>1. CASE UNCHANGED meteogramVars
  <2>1. Meteogram!Question' = Meteogram!Question
    BY <1>1 DEF meteogramVars, Meteogram!Question
  <2> QED
    BY <1>1, <2>1
    DEF meteogramVars, MeteogramInv, MeteogramTypes, AskedIsSelected, LiveIsWaited, ChartsAreDrawn
<1> QED
  BY <1>1, ChartPageStep, MeteogramCloseStep, MeteogramRetryStep, ChartEffectsStep,
     SeriesAnswersStep, MeteogramHoverStep
  DEF Meteogram!Next

\* ChartsMatchSeries: the charts are those of the series on display, and a frame asked
\* for by a hover draws on no charts that were destroyed before it came.
THEOREM ChartsAreOfTheSeries == PageSpec => []ChartsMatchSeries
<1>1. PageInit => MeteogramInv
  BY MeteogramInit DEF PageInit
<1>2. MeteogramInv /\ [PageNext]_pageVars => MeteogramInv'
  BY MeteogramMoves, MeteogramStep
<1>3. MeteogramInv => ChartsMatchSeries
  BY MeteogramContract
<1> QED
  BY <1>1, <1>2, <1>3, PTL DEF PageSpec

\* A step of the drawer, as one of LatestRequest.
LEMMA SeriesRefines ==
  MeteogramInv /\ [Meteogram!Next]_meteogramVars =>
      [Meteogram!Series!Next]_<<series.asked, series.of>>
<1> SUFFICES ASSUME MeteogramInv, [Meteogram!Next]_meteogramVars,
                    <<series.asked, series.of>>' # <<series.asked, series.of>>
             PROVE  Meteogram!Series!Next
  OBVIOUS
<1>1. CASE Meteogram!RunEffects
  <2>1. "fetch" \in chartDue
    BY <1>1 DEF Meteogram!RunEffects
  <2>2. series'.asked \in Meteogram!Questions /\ series'.of = Nothing
    BY <1>1, <2>1, StartFetchType, QuestionType DEF Meteogram!RunEffects
  <2> QED
    BY <2>2 DEF Meteogram!Series!Next, Meteogram!Series!Ask, Meteogram!Series!KeepOrClear
<1>2. CASE Meteogram!CloseDrawer
  <2>1. series'.asked = Nothing /\ series'.of = Nothing
    BY <1>2 DEF Meteogram!CloseDrawer, MeteogramInv, MeteogramTypes, SeriesFetches
  <2> QED
    BY <2>1 DEF Meteogram!Series!Next, Meteogram!Series!Withdraw, Meteogram!Series!KeepOrClear
<1>3. ASSUME NEW flight \in series.flights, Meteogram!Land(flight)
      PROVE  Meteogram!Series!Next
  <2>1. /\ series \in SeriesFetches /\ flight \in SeriesFlights
        /\ flight.live => series.status = "loading" /\ flight.ask = series.asked
    BY DEF MeteogramInv, MeteogramTypes, SeriesFetches, LiveIsWaited
  <2>2. series'.asked = series.asked
    BY <1>3, <2>1 DEF Meteogram!Land, SeriesFetches
  <2>3. flight.live /\ series'.of = flight.ask
    BY <1>3, <2>1, <2>2 DEF Meteogram!Land, Meteogram!Heeds, SeriesFetches
  <2>4. series.asked # Nothing
    BY <2>1, <2>3, MeteogramAssumption DEF MeteogramAssumption, SeriesFlights
  <2> QED
    BY <2>1, <2>2, <2>3, <2>4 DEF Meteogram!Series!Next, Meteogram!Series!Answer
<1>4. ASSUME NEW flight \in series.flights, Meteogram!Fail(flight)
      PROVE  FALSE
  BY <1>4 DEF Meteogram!Fail, MeteogramInv, MeteogramTypes, SeriesFetches
<1> QED
  BY <1>1, <1>2, <1>3, <1>4
  DEF Meteogram!Next, meteogramVars, Meteogram!PickStation, Meteogram!SwitchCycle,
      Meteogram!SwitchUnits, Meteogram!Render, Meteogram!Retry, Meteogram!RemountMap,
      Meteogram!Hover, Meteogram!Frame

\* Refinement: the meteogram implements LatestRequest.
LEMMA SeriesIsLatest == PageSpec => Meteogram!SeriesIsLatest
<1>1. PageInit => MeteogramInv
  BY MeteogramInit DEF PageInit
<1>2. MeteogramInv /\ [PageNext]_pageVars => MeteogramInv'
  BY MeteogramMoves, MeteogramStep
<1>3. PageInit => Meteogram!Series!Init
  BY DEF PageInit, Meteogram!Init, Meteogram!Series!Init
<1>4. MeteogramInv /\ [PageNext]_pageVars => [Meteogram!Series!Next]_<<series.asked, series.of>>
  BY MeteogramMoves, SeriesRefines
<1> QED
  BY <1>1, <1>2, <1>3, <1>4, PTL DEF PageSpec, Meteogram!SeriesIsLatest, Meteogram!Series!Spec

\* PanelsAreLatest: what both panels show answers the question asked last, or nothing is
\* shown, however requests, aborts, answers and renders cross.
THEOREM PanelsShowLatest == PageSpec => PanelsAreLatest
BY WindIsLatest, SeriesIsLatest DEF PanelsAreLatest

-----------------------------------------------------------------------------
(*****************************************************************************)
(* The vector overlays (VectorOverlays).                                     *)
(*****************************************************************************)

\* A step of the page is a step of the overlays, or leaves them alone.
LEMMA OverlayMoves == [PageNext]_pageVars => [Overlay!Next]_overlayVars
BY DEF PageNext, Only, pageVars, overlayVars

\* The map: which one of the session, and how far it is.
Maps == [id : 0..OverlayRemounts + 1, phase : {"none", "styling", "styled"}, idle : BOOLEAN]

\* The promise of warning areas that outlives the maps.
Sessions ==
    [promise : {"null", "pending", "data"}, waiting : SUBSET (0..OverlayRemounts + 1),
     fetched : 0..Fetches]

\* The toggles.
Chips == [on : SUBSET Overlay!Overlays, chip : BOOLEAN]

\* The layers of the style.
Drawn == [Overlay!Overlays -> {"absent", "visible", "none"}]

\* The types.
OverlayTypes ==
    /\ toggles \in Chips
    /\ toggleDue \in BOOLEAN
    /\ overlayMap \in Maps
    /\ layers \in Drawn
    /\ setup \in {"due", "waiting", "done"}
    /\ session \in Sessions
    /\ toggleBudget \in 0..Toggles
    /\ overlayMap.idle => overlayMap.phase = "styled"

\* There is one more map to mount, and only a mounted one is set up.
MapIsCounted ==
    /\ overlayMap.phase = "none" => overlayMap.id <= OverlayRemounts
    /\ setup = "done" => overlayMap.phase # "none"

\* A map that is set up waits on the promise of the session while it is pending.
SetUpMapWaits == setup = "done" /\ session.promise = "pending" => overlayMap.id \in session.waiting

\* The inductive invariant of the overlays.
OverlayInv == OverlayTypes /\ MapIsCounted /\ SetUpMapWaits /\ BoundariesFollowData

\* The types of the proof are those of the module.
LEMMA OverlayTypesSuffice == OverlayTypes => Overlay!TypeOK
BY DEF OverlayTypes, Overlay!TypeOK, Maps, Sessions, Chips, Drawn

\* The invariant holds before a map is mounted.
LEMMA OverlayInit == Overlay!Init => OverlayInv
<1> SUFFICES ASSUME Overlay!Init PROVE OverlayInv
  OBVIOUS
<1>1. /\ toggles \in Chips /\ overlayMap \in Maps /\ session \in Sessions
      /\ overlayMap.id = 0 /\ ~overlayMap.idle /\ session.promise = "null"
  BY OverlayAssumption DEF OverlayAssumption, Overlay!Init, Chips, Maps, Sessions
<1>2. layers \in Drawn
  BY DEF Overlay!Init, Overlay!NoLayers, Drawn
<1>3. OverlayTypes
  <2>1. toggleDue \in BOOLEAN /\ setup \in {"due", "waiting", "done"}
    BY DEF Overlay!Init
  <2>2. toggleBudget \in 0..Toggles
    BY OverlayAssumption DEF OverlayAssumption, Overlay!Init
  <2> QED
    BY <1>1, <1>2, <2>1, <2>2 DEF OverlayTypes
<1>4. MapIsCounted
  BY <1>1, OverlayAssumption DEF OverlayAssumption, Overlay!Init, MapIsCounted
<1> QED
  BY <1>1, <1>3, <1>4
  DEF OverlayInv, SetUpMapWaits, BoundariesFollowData, Overlay!BoundariesFollowData

\* The warning areas are an overlay.
LEMMA CwaIsOverlay == Cwa \in Overlay!Overlays
BY DEF Overlay!Overlays

\* applyToggles neither adds nor removes a layer.
LEMMA ApplyTogglesType ==
    ASSUME NEW drawn \in Drawn, NEW idle \in BOOLEAN
    PROVE  /\ Overlay!ApplyToggles(drawn, idle) \in Drawn
           /\ drawn[Cwa] # "absent" => Overlay!ApplyToggles(drawn, idle)[Cwa] # "absent"
BY CwaIsOverlay DEF Overlay!ApplyToggles, Drawn, Overlay!Wanted

\* After a call the session has the data, or the map that called waits for them.
LEMMA FetchCwaaType ==
    ASSUME OverlayInv, Overlay!FetchCwaa(session).fetched <= Fetches
    PROVE  LET s == Overlay!FetchCwaa(session)
           IN  /\ s \in Sessions /\ s.promise # "null"
               /\ s.promise = "data" <=> session.promise = "data"
               /\ s.promise = "pending" => overlayMap.id \in s.waiting
<1>1. session \in Sessions /\ overlayMap.id \in 0..OverlayRemounts + 1
  BY DEF OverlayInv, OverlayTypes, Maps
<1>2. CASE session.promise = "data"
  <2>1. Overlay!FetchCwaa(session) = session
    BY <1>2 DEF Overlay!FetchCwaa
  <2> QED
    BY <1>1, <1>2, <2>1
<1>3. CASE session.promise = "pending"
  <2>1. Overlay!FetchCwaa(session) = [session EXCEPT !.waiting = @ \cup {overlayMap.id}]
    BY <1>3 DEF Overlay!FetchCwaa
  <2> QED
    BY <1>1, <1>3, <2>1 DEF Sessions
<1>4. CASE session.promise = "null"
  <2>1. Overlay!FetchCwaa(session) = [promise |-> "pending", waiting |-> {overlayMap.id},
                                      fetched |-> session.fetched + 1]
    BY <1>4 DEF Overlay!FetchCwaa
  <2>2. session.fetched + 1 \in 0..Fetches
    BY <1>1, <2>1, OverlayAssumption DEF OverlayAssumption, Sessions
  <2> QED
    BY <1>1, <1>4, <2>1, <2>2 DEF Sessions
<1> QED
  BY <1>1, <1>2, <1>3, <1>4 DEF Sessions

\* The setup runs: its layers are added, and it waits for the warning areas or adds them.
LEMMA SetUpStep ==
    ASSUME OverlayInv, NEW m \in Maps, m.id = overlayMap.id, m.phase # "none",
           m.idle => m.phase = "styled", Overlay!SetUp(m), UNCHANGED <<toggleDue, toggleBudget>>
    PROVE  OverlayInv'
<1> DEFINE s == Overlay!FetchCwaa(session)
           here == s.promise = "data"
           bare == [o \in Overlay!Overlays |-> IF o \in Base THEN "visible" ELSE "absent"]
           drawn == Overlay!ApplyToggles(bare, m.idle)
<1>1. /\ session' = s /\ s.fetched <= Fetches /\ setup' = "done"
      /\ layers' = IF here THEN [drawn EXCEPT ![Cwa] = "visible"] ELSE drawn
      /\ overlayMap' = IF here THEN [m EXCEPT !.idle = FALSE] ELSE m
      /\ toggles' = IF here THEN [toggles EXCEPT !.chip = TRUE] ELSE toggles
  BY DEF Overlay!SetUp
<1>2. /\ s \in Sessions /\ (s.promise = "pending" => overlayMap.id \in s.waiting)
  BY <1>1, FetchCwaaType
<1>3. drawn \in Drawn
  <2>1. bare \in Drawn /\ m.idle \in BOOLEAN
    BY DEF Drawn, Maps
  <2> QED
    BY <2>1, ApplyTogglesType
<1> HIDE DEF s, drawn
<1>4. layers' \in Drawn /\ (here => layers'[Cwa] = "visible")
  BY <1>1, <1>3, CwaIsOverlay DEF Drawn
<1>5. /\ overlayMap' \in Maps /\ overlayMap'.id = overlayMap.id /\ overlayMap'.phase # "none"
      /\ overlayMap'.idle => overlayMap'.phase = "styled"
  BY <1>1 DEF Maps
<1>6. toggles' \in Chips
  BY <1>1 DEF OverlayInv, OverlayTypes, Chips
<1>7. OverlayTypes'
  BY <1>1, <1>2, <1>4, <1>5, <1>6 DEF OverlayInv, OverlayTypes
<1> QED
  BY <1>1, <1>2, <1>4, <1>5, <1>7
  DEF OverlayInv, MapIsCounted, SetUpMapWaits, BoundariesFollowData, Overlay!BoundariesFollowData

\* A map is mounted, set up, styled, loads tiles or is removed.
LEMMA MapStep ==
    ASSUME OverlayInv,
           \/ Overlay!MountMap \/ Overlay!SetupEffect \/ Overlay!UnmountMap
           \/ Overlay!StyleLoads \/ Overlay!SourcesChange
    PROVE  OverlayInv'
<1>0. overlayMap \in Maps
  BY DEF OverlayInv, OverlayTypes
<1>1. CASE Overlay!MountMap
  <2>1. overlayMap.id \in 0..OverlayRemounts
    BY <1>0, <1>1, OverlayAssumption
    DEF OverlayAssumption, Overlay!MountMap, OverlayInv, MapIsCounted, Maps
  <2>2. overlayMap' \in Maps /\ overlayMap'.phase = "styling" /\ overlayMap'.idle = overlayMap.idle
    <3>1. overlayMap.id + 1 \in 0..OverlayRemounts + 1
      BY <2>1, OverlayAssumption DEF OverlayAssumption
    <3> QED
      BY <1>0, <1>1, <3>1 DEF Overlay!MountMap, Maps
  <2>3. ~overlayMap'.idle
    BY <1>1, <2>2 DEF Overlay!MountMap, OverlayInv, OverlayTypes
  <2> QED
    BY <1>1, <2>2, <2>3
    DEF Overlay!MountMap, OverlayInv, OverlayTypes, MapIsCounted, SetUpMapWaits,
        BoundariesFollowData, Overlay!BoundariesFollowData
<1>2. CASE Overlay!SetupEffect
  <2>1. CASE overlayMap.idle
    <3>1. /\ Overlay!SetUp(overlayMap) /\ UNCHANGED <<toggleDue, toggleBudget>>
          /\ overlayMap.phase # "none"
      BY <1>2, <2>1 DEF Overlay!SetupEffect
    <3> QED
      BY <1>0, <3>1, SetUpStep DEF OverlayInv, OverlayTypes
  <2>2. CASE ~overlayMap.idle
    BY <1>2, <2>2
    DEF Overlay!SetupEffect, OverlayInv, OverlayTypes, MapIsCounted, SetUpMapWaits,
        BoundariesFollowData, Overlay!BoundariesFollowData
  <2> QED
    BY <2>1, <2>2
<1>3. CASE Overlay!UnmountMap
  <2>1. /\ overlayMap' \in Maps /\ overlayMap'.phase = "none" /\ ~overlayMap'.idle
        /\ overlayMap'.id <= OverlayRemounts
    BY <1>0, <1>3 DEF Overlay!UnmountMap, Maps
  <2>2. layers' \in Drawn
    BY <1>3 DEF Overlay!UnmountMap, Overlay!NoLayers, Drawn
  <2> QED
    BY <1>3, <2>1, <2>2
    DEF Overlay!UnmountMap, OverlayInv, OverlayTypes, MapIsCounted, SetUpMapWaits,
        BoundariesFollowData, Overlay!BoundariesFollowData
<1>4. CASE Overlay!StyleLoads
  <2> DEFINE styled == [overlayMap EXCEPT !.phase = "styled"]
  <2>1. styled \in Maps /\ styled.id = overlayMap.id /\ styled.phase = "styled"
    BY <1>0 DEF Maps
  <2>2. CASE setup = "waiting"
    <3>1. Overlay!SetUp(styled) /\ UNCHANGED <<toggleDue, toggleBudget>>
      BY <1>4, <2>2 DEF Overlay!StyleLoads
    <3> HIDE DEF styled
    <3> QED
      BY <2>1, <3>1, SetUpStep
  <2>3. CASE setup # "waiting"
    <3>1. overlayMap' = styled
      BY <1>4, <2>3 DEF Overlay!StyleLoads
    <3> HIDE DEF styled
    <3> QED
      BY <1>4, <2>1, <2>3, <3>1
      DEF Overlay!StyleLoads, OverlayInv, OverlayTypes, MapIsCounted, SetUpMapWaits,
          BoundariesFollowData, Overlay!BoundariesFollowData
  <2> QED
    BY <2>2, <2>3
<1>5. CASE Overlay!SourcesChange
  <2>1. overlayMap' \in Maps /\ overlayMap'.phase = "styled" /\ overlayMap'.id = overlayMap.id
    BY <1>0, <1>5 DEF Overlay!SourcesChange, Maps
  <2> QED
    BY <1>5, <2>1
    DEF Overlay!SourcesChange, OverlayInv, OverlayTypes, MapIsCounted, SetUpMapWaits,
        BoundariesFollowData, Overlay!BoundariesFollowData
<1> QED
  BY <1>1, <1>2, <1>3, <1>4, <1>5

\* A toggle is pressed, and its effect runs.
LEMMA ToggleStep ==
    ASSUME OverlayInv,
           (\E o \in Overlay!Overlays : Overlay!Toggle(o)) \/ Overlay!RunToggleEffect
    PROVE  OverlayInv'
<1>1. ASSUME NEW o \in Overlay!Overlays, Overlay!Toggle(o) PROVE OverlayInv'
  <2>1. toggles' \in Chips
    BY <1>1 DEF Overlay!Toggle, OverlayInv, OverlayTypes, Chips
  <2>2. toggleBudget' \in 0..Toggles
    BY <1>1, OverlayAssumption DEF OverlayAssumption, Overlay!Toggle, OverlayInv, OverlayTypes
  <2> QED
    BY <1>1, <2>1, <2>2
    DEF Overlay!Toggle, OverlayInv, OverlayTypes, MapIsCounted, SetUpMapWaits,
        BoundariesFollowData, Overlay!BoundariesFollowData
<1>2. CASE Overlay!RunToggleEffect
  <2>1. layers' \in Drawn /\ (layers[Cwa] # "absent" => layers'[Cwa] # "absent")
    BY <1>2, ApplyTogglesType DEF Overlay!RunToggleEffect, OverlayInv, OverlayTypes, Maps
  <2> QED
    BY <1>2, <2>1
    DEF Overlay!RunToggleEffect, OverlayInv, OverlayTypes, MapIsCounted, SetUpMapWaits,
        BoundariesFollowData, Overlay!BoundariesFollowData
<1> QED
  BY <1>1, <1>2

\* The warning areas arrive or fail.
LEMMA CwaaStep ==
    ASSUME OverlayInv, Overlay!CwaaArrives \/ Overlay!CwaaFails
    PROVE  OverlayInv'
<1>0. session \in Sessions /\ overlayMap \in Maps /\ toggles \in Chips /\ layers \in Drawn
  BY DEF OverlayInv, OverlayTypes
<1>1. CASE Overlay!CwaaArrives
  <2>1. session' \in Sessions /\ session'.promise = "data"
    BY <1>0, <1>1 DEF Overlay!CwaaArrives, Sessions
  <2>2. toggles' \in Chips
    BY <1>0, <1>1 DEF Overlay!CwaaArrives, Chips
  <2>3. CASE session.waiting = Overlay!Removed
    <3>1. setup # "done"
      BY <1>1, <2>3
         DEF Overlay!CwaaArrives, Overlay!Removed, OverlayInv, MapIsCounted, SetUpMapWaits
    <3> QED
      BY <1>1, <2>1, <2>2, <2>3, <3>1
      DEF Overlay!CwaaArrives, OverlayInv, OverlayTypes, MapIsCounted, SetUpMapWaits,
          BoundariesFollowData, Overlay!BoundariesFollowData
  <2>4. CASE session.waiting # Overlay!Removed
    <3>1. layers' \in Drawn /\ layers'[Cwa] = "visible"
      BY <1>0, <1>1, <2>4, CwaIsOverlay DEF Overlay!CwaaArrives, Drawn
    <3>2. /\ overlayMap' \in Maps /\ ~overlayMap'.idle /\ overlayMap'.phase = overlayMap.phase
          /\ overlayMap'.id = overlayMap.id
      BY <1>0, <1>1, <2>4 DEF Overlay!CwaaArrives, Maps
    <3> QED
      BY <1>1, <2>1, <2>2, <3>1, <3>2
      DEF Overlay!CwaaArrives, OverlayInv, OverlayTypes, MapIsCounted, SetUpMapWaits,
          BoundariesFollowData, Overlay!BoundariesFollowData
  <2> QED
    BY <2>3, <2>4
<1>2. CASE Overlay!CwaaFails
  <2>1. session' \in Sessions /\ session'.promise = "null"
    BY <1>0, <1>2 DEF Overlay!CwaaFails, Sessions
  <2>2. toggles' \in Chips
    BY <1>0, <1>2 DEF Overlay!CwaaFails, Chips
  <2> QED
    BY <1>2, <2>1, <2>2
    DEF Overlay!CwaaFails, OverlayInv, OverlayTypes, MapIsCounted, SetUpMapWaits,
        BoundariesFollowData, Overlay!BoundariesFollowData
<1> QED
  BY <1>1, <1>2

\* Every step keeps the invariant.
LEMMA OverlayStep == OverlayInv /\ [Overlay!Next]_overlayVars => OverlayInv'
<1> SUFFICES ASSUME OverlayInv, [Overlay!Next]_overlayVars PROVE OverlayInv'
  OBVIOUS
<1>1. CASE UNCHANGED overlayVars
  BY <1>1 DEF overlayVars, OverlayInv, OverlayTypes, MapIsCounted, SetUpMapWaits,
              BoundariesFollowData, Overlay!BoundariesFollowData
<1> QED
  BY <1>1, MapStep, ToggleStep, CwaaStep DEF Overlay!Next

\* BoundariesFollowData: once the warning areas are known every map that is set up shows
\* their layer, however the one promise and several maps cross.
THEOREM BoundariesAreDrawn == PageSpec => []BoundariesFollowData
<1>1. PageInit => OverlayInv
  BY OverlayInit DEF PageInit
<1>2. OverlayInv /\ [PageNext]_pageVars => OverlayInv'
  BY OverlayMoves, OverlayStep
<1>3. OverlayInv => BoundariesFollowData
  BY DEF OverlayInv
<1> QED
  BY <1>1, <1>2, <1>3, PTL DEF PageSpec
=============================================================================
