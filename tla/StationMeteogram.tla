-------------------------- MODULE StationMeteogram --------------------------
(***************************************************************************)
(* The station meteogram: a click on the map or a drag of the pin picks a  *)
(* place (frontend/src/components/map/StationPicker.tsx, StationMarker.tsx,*)
(* MapShell.tsx), and a drawer (src/components/meteogram/                  *)
(* MeteogramModal.tsx) fetches its series and draws four charts that share *)
(* one hover index (chartPlugins.ts).  The four charts, made and destroyed *)
(* together, are one here; each set of them is a generation.               *)
(***************************************************************************)
EXTENDS Naturals

CONSTANTS
    Places,
    Cycles,   \* domain and cycle of the page
    Units,
    Indexes,  \* the hours of a series
    Nothing,
    Changes,  \* bound: picks, and changes of cycle or units
    Failures, \* bound: fetches that fail
    Builds    \* bound: sets of charts made

Questions == Places \X Cycles \X Units

VARIABLES
    page,    \* cycle, units, the station
    due,     \* the effects of the drawer and the marker that have to run
    fetch,   \* the drawer: its status and the question of its data; the requests
    charts,  \* the charts on the screen: generation, question, units of their barbs
    hover,   \* the index shared by the charts; the generations whose shared state
             \* still holds charts, and those that have asked for a frame
    marker,  \* the place of the pin
    budget

vars == <<page, due, fetch, charts, hover, marker, budget>>

Effects == {"fetch", "charts", "marker"}

NoCharts == [gen |-> 0, of |-> Nothing, units |-> Nothing]

TypeOK ==
    /\ page \in [cycle : Cycles, units : Units, station : Places \cup {Nothing}]
    /\ due \subseteq Effects
    /\ fetch \in [status : {"closed", "loading", "error", "ready"},
                  asked : Questions \cup {Nothing}, of : Questions \cup {Nothing},
                  flights : SUBSET [ask : Questions, live : BOOLEAN]]
    /\ charts \in [gen : 0..Builds, of : Questions \cup {Nothing}, units : Units \cup {Nothing}]
    /\ hover \in [index : Indexes \cup {Nothing}, holding : SUBSET (1..Builds),
                  frames : SUBSET (1..Builds)]
    /\ marker \in Places \cup {Nothing}
    /\ budget \in [changes : 0..Changes, failures : 0..Failures, builds : 0..Builds]

Init ==
    /\ page = [cycle |-> CHOOSE c \in Cycles : TRUE, units |-> CHOOSE u \in Units : TRUE,
               station |-> Nothing]
    /\ due = {}
    /\ fetch = [status |-> "closed", asked |-> Nothing, of |-> Nothing, flights |-> {}]
    /\ charts = NoCharts
    /\ hover = [index |-> Nothing, holding |-> {}, frames |-> {}]
    /\ marker = Nothing
    /\ budget = [changes |-> Changes, failures |-> Failures, builds |-> Builds]

-----------------------------------------------------------------------------
(***************************************************************************)
(* The page.  A render is followed by its effects before the next event of *)
(* the user; answers and frames may come in between.                       *)
(***************************************************************************)

Render(new, effects) ==
    /\ due = {}
    /\ budget.changes > 0
    /\ budget' = [budget EXCEPT !.changes = @ - 1]
    /\ page' = new
    /\ due' = IF new.station = Nothing THEN effects \cap {"marker"} ELSE effects
    /\ UNCHANGED <<fetch, charts, hover, marker>>

\* A click on the map, or the end of a drag of the pin.
PickStation(place) ==
    /\ place # page.station
    /\ Render([page EXCEPT !.station = place], {"fetch", "marker"})

SwitchCycle(cycle) ==
    /\ cycle # page.cycle
    /\ Render([page EXCEPT !.cycle = cycle], {"fetch"})

\* The effect of the charts depends on the units as well.
SwitchUnits(units) ==
    /\ units # page.units
    /\ Render([page EXCEPT !.units = units], {"fetch", "charts"})

\* The cleanups of the chart effect: destroy() on every chart, shared.clear().
Cleared(h) == [h EXCEPT !.index = Nothing, !.holding = @ \ {charts.gen}]

Cancelled == {[f EXCEPT !.live = FALSE] : f \in fetch.flights}

\* The x, or Escape: the drawer is unmounted.
CloseDrawer ==
    /\ due = {}
    /\ page.station # Nothing
    /\ page' = [page EXCEPT !.station = Nothing]
    /\ due' = {"marker"}
    /\ fetch' = [fetch EXCEPT !.status = "closed", !.asked = Nothing, !.of = Nothing,
                              !.flights = Cancelled]
    /\ charts' = NoCharts
    /\ hover' = Cleared(hover)
    /\ UNCHANGED <<marker, budget>>

\* The button of the error message.
Retry ==
    /\ due = {}
    /\ fetch.status = "error"
    /\ due' = {"fetch"}
    /\ UNCHANGED <<page, fetch, charts, hover, marker, budget>>

\* The error boundary of the map drops map and pin, and builds them again.
RemountMap ==
    /\ due = {}
    /\ due' = {"marker"}
    /\ marker' = Nothing
    /\ UNCHANGED <<page, fetch, charts, hover, budget>>

-----------------------------------------------------------------------------
(***************************************************************************)
(* The effects.                                                            *)
(***************************************************************************)

Question == <<page.station, page.cycle, page.units>>

StartFetch ==
    [fetch EXCEPT !.status = "loading", !.asked = Question, !.of = Nothing,
                  !.flights = Cancelled \cup {[ask |-> Question, live |-> TRUE]}]

\* Mutant: charts go without shared.clear().
DrawChartsLeavesShared ==
    /\ charts' = IF fetch.status # "ready" THEN NoCharts
                 ELSE [gen |-> Builds - budget.builds + 1, of |-> fetch.of, units |-> page.units]
    /\ hover' = IF fetch.status # "ready" THEN [hover EXCEPT !.index = Nothing]
                ELSE [hover EXCEPT !.index = Nothing, !.holding = @ \cup {charts'.gen}]
    /\ budget' = IF fetch.status # "ready" THEN budget ELSE [budget EXCEPT !.builds = @ - 1]

\* The old charts are destroyed; with data there are new ones.
DrawCharts ==
    /\ charts' = IF fetch.status # "ready" THEN NoCharts
                 ELSE [gen |-> Builds - budget.builds + 1, of |-> fetch.of, units |-> page.units]
    /\ hover' = IF fetch.status # "ready" THEN Cleared(hover)
                ELSE [Cleared(hover) EXCEPT !.holding = @ \cup {charts'.gen}]
    /\ budget' = IF fetch.status # "ready" THEN budget ELSE [budget EXCEPT !.builds = @ - 1]

\* A fetch sets the status to loading, which takes the data from the charts: their
\* effect is due again.
RunEffects ==
    /\ due # {}
    /\ "charts" \in due /\ fetch.status = "ready" => budget.builds > 0
    /\ marker' = IF "marker" \in due THEN page.station ELSE marker
    /\ fetch' = IF "fetch" \in due THEN StartFetch ELSE fetch
    /\ IF "charts" \in due THEN DrawCharts
       ELSE UNCHANGED <<charts, hover, budget>>
    /\ due' = IF "fetch" \in due /\ fetch.status = "ready" THEN {"charts"} ELSE {}
    /\ UNCHANGED page

-----------------------------------------------------------------------------
(***************************************************************************)
(* Answers, the cursor, frames.                                            *)
(***************************************************************************)

\* Mutant: an answer is used whatever has happened since.
HeedsAny(flight) == fetch.status # "closed"

\* The guard of then and catch.
Heeds(flight) == flight.live

Land(flight) ==
    /\ fetch' = IF Heeds(flight)
                THEN [fetch EXCEPT !.flights = @ \ {flight}, !.status = "ready", !.of = flight.ask]
                ELSE [fetch EXCEPT !.flights = @ \ {flight}]
    /\ due' = IF Heeds(flight) THEN due \cup {"charts"} ELSE due
    /\ UNCHANGED <<page, charts, hover, marker, budget>>

\* Outside the domain, no data for the cycle, or no service.
Fail(flight) ==
    /\ flight.live
    /\ budget.failures > 0
    /\ budget' = [budget EXCEPT !.failures = @ - 1]
    /\ fetch' = [fetch EXCEPT !.flights = @ \ {flight}, !.status = "error"]
    /\ UNCHANGED <<page, due, charts, hover, marker>>

\* onHover of a chart, setIndex: the timeline is scrubbed and a frame is asked for.
Hover(index) ==
    /\ charts.gen # 0
    /\ index # hover.index
    /\ hover' = [hover EXCEPT !.index = index, !.frames = @ \cup {charts.gen}]
    /\ UNCHANGED <<page, due, fetch, charts, marker, budget>>

\* A frame draws the charts that its shared state still holds.
Frame(gen) ==
    /\ gen \in hover.frames
    /\ hover' = [hover EXCEPT !.frames = @ \ {gen}]
    /\ UNCHANGED <<page, due, fetch, charts, marker, budget>>

Next ==
    \/ \E place \in Places : PickStation(place)
    \/ \E cycle \in Cycles : SwitchCycle(cycle)
    \/ \E units \in Units : SwitchUnits(units)
    \/ CloseDrawer
    \/ Retry
    \/ RemountMap
    \/ RunEffects
    \/ \E flight \in fetch.flights : Land(flight) \/ Fail(flight)
    \/ \E index \in Indexes \cup {Nothing} : Hover(index)
    \/ \E gen \in hover.frames : Frame(gen)

Spec == Init /\ [][Next]_vars

-----------------------------------------------------------------------------
(***************************************************************************)
(* Properties.                                                             *)
(***************************************************************************)

\* The drawer keeps the promise of LatestRequest: a series on the screen answers the
\* question of the station, cycle and units selected last.
Series == INSTANCE LatestRequest WITH asked <- fetch.asked, shown <- fetch.of

SeriesIsLatest == Series!Spec

\* "create on data, destroy on every data change / close": once the effects have run
\* there are charts exactly of the series on the screen, in its units; and a frame that
\* a hover has asked for never draws charts that were destroyed meanwhile.
ChartsMatchSeries ==
    /\ due = {} => /\ charts.of = fetch.of
                   /\ charts.of # Nothing => charts.units = charts.of[3]
    /\ hover.frames \cap hover.holding \subseteq {charts.gen}
=============================================================================
