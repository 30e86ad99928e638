------------------------------- MODULE MCPage -------------------------------
(***************************************************************************)
(* The components of the page that keep a state of their own, for TLC.     *)
(* They share no variable: what one of them tells another (the hour shown, *)
(* a notice, a station) is an input of the other's model.  So one behaviour*)
(* here runs one component, the focus; the others stay as they start, and  *)
(* the state spaces add up instead of multiplying.                         *)
(***************************************************************************)
EXTENDS WeatherRasterLayer, ProbeReadout

CONSTANTS
    WindViews, WindChanges, WindFailures,
    Base, Cwa, OnByDefault, Toggles, OverlayRemounts, Fetches,
    Domains, NoNotice, FirstCycle, LastCycle, Ladder, Lists, Recent, Outstanding, FeedChanges,
    FeedKey, PanelKey, TileKeys, PanelKeys, MaxVisible, Pushes,
    Places, SeriesCycles, Units, SeriesChanges, SeriesFailures, Builds,
    NoOption, Choices,
    Pinned, None, SavedChanges, Loads,
    Pointers, Mouse, Counts, MinFps, MaxFps, Presses

VARIABLES
    focus,
    windPage, camera, windDue, life, field, fetch, canvas, windBudget,
    toggles, toggleDue, overlayMap, layers, setup, session, toggleBudget,
    clock, server, feedPage, ladder, domainDue, loads, told, feedBudget,
    toasts, timers, pushes, throttled, panel, faulty,
    chartPage, chartDue, series, charts, hover, marker, chartBudget,
    selection, drawer, choices,
    storage, shown, phase, saveDue, saveBudget,
    bar, pointers, drag, presses

Wind == INSTANCE WindParticleLayer WITH
    Views <- WindViews, Changes <- WindChanges, Failures <- WindFailures,
    page <- windPage, due <- windDue, budget <- windBudget

Overlay == INSTANCE VectorOverlays WITH
    Remounts <- OverlayRemounts, due <- toggleDue, map <- overlayMap, budget <- toggleBudget

Follow == INSTANCE RunFeed WITH
    Changes <- FeedChanges, page <- feedPage, due <- domainDue, flights <- loads, budget <- feedBudget

Notice == INSTANCE Notices WITH
    Feed <- FeedKey, Panel <- PanelKey, Tiles <- TileKeys, Keys <- PanelKeys

Meteogram == INSTANCE StationMeteogram WITH
    Cycles <- SeriesCycles, Indexes <- Hours, Changes <- SeriesChanges,
    Failures <- SeriesFailures, page <- chartPage, due <- chartDue, fetch <- series,
    budget <- chartBudget

Catalog == INSTANCE ProductCatalog WITH budget <- choices

Saved == INSTANCE Preferences WITH
    Products <- Pinned, Changes <- SavedChanges, page <- shown, due <- saveDue,
    budget <- saveBudget

Dock == INSTANCE TimelineDock

-----------------------------------------------------------------------------
(***************************************************************************)
(* What the components take for granted of their constants: bounds are     *)
(* numbers, there is something to choose from, and what stands for         *)
(* "nothing" is not one of the things.                                     *)
(***************************************************************************)

ASSUME WindAssumption ==
    /\ Nothing \notin Hours /\ Nothing \notin WindViews /\ Nothing \notin Wind!Questions
    /\ Nothing \notin Wind!Canvases
    /\ WindChanges \in Nat /\ WindFailures \in Nat

ASSUME OverlayAssumption ==
    /\ Cwa \notin Base /\ OnByDefault \subseteq Overlay!Overlays
    /\ Toggles \in Nat /\ OverlayRemounts \in Nat /\ Fetches \in Nat

ASSUME FollowAssumption ==
    /\ Domains # {}
    /\ FirstCycle \in Nat /\ LastCycle \in Nat /\ FirstCycle <= LastCycle
    /\ Ladder \in Nat \ {0} /\ Recent \in Nat
    /\ Lists \subseteq SUBSET (1..Ladder) /\ \E hours \in Lists : hours # {}
    /\ \A hours \in Lists \ {{}} : \E first \in hours : \A h \in hours : first <= h
    /\ Outstanding \in Nat /\ FeedChanges \in Nat

ASSUME NoticeAssumption ==
    /\ MaxVisible \in Nat \ {0} /\ Pushes \in Nat
    /\ PanelKeys # {} /\ Nothing \notin PanelKeys

ASSUME MeteogramAssumption ==
    /\ Places # {} /\ SeriesCycles # {} /\ Units # {}
    /\ Nothing \notin Places /\ Nothing \notin Meteogram!Questions
    /\ SeriesChanges \in Nat /\ SeriesFailures \in Nat /\ Builds \in Nat

ASSUME CatalogAssumption ==
    /\ NoOption \notin Catalog!Percentiles /\ NoOption \notin Catalog!Accumulations
    /\ Choices \in Nat

ASSUME SavedAssumption ==
    /\ \A favorites \in SUBSET Pinned : favorites # None
    /\ None \notin Saved!UnitSystems /\ None \notin Saved!WindDisplays /\ None \notin Saved!Themes
    /\ SavedChanges \in Nat /\ Loads \in Nat

ASSUME DockAssumption ==
    /\ Counts \subseteq Nat /\ Counts # {}
    /\ \E longest \in Counts : \A n \in Counts : n <= longest
    /\ \E n \in Counts : n > 1
    /\ MinFps \in Nat /\ MaxFps \in Nat /\ MinFps <= MaxFps
    /\ Presses \in Nat
    /\ Nothing \notin Nat

-----------------------------------------------------------------------------
Components == {"raster", "probe", "wind", "overlay", "feed", "notice", "meteogram", "catalog", "saved",
               "dock"}

windVars == <<windPage, camera, windDue, life, field, fetch, canvas, windBudget>>
overlayVars == <<toggles, toggleDue, overlayMap, layers, setup, session, toggleBudget>>
feedVars == <<clock, server, feedPage, ladder, domainDue, loads, told, feedBudget>>
noticeVars == <<toasts, timers, pushes, throttled, panel, faulty>>
meteogramVars == <<chartPage, chartDue, series, charts, hover, marker, chartBudget>>
catalogVars == <<selection, drawer, choices>>
savedVars == <<storage, shown, phase, saveDue, saveBudget>>
dockVars == <<bar, pointers, drag, presses>>

pageVars == <<focus, vars, probeVars, windVars, overlayVars, feedVars, noticeVars, meteogramVars,
              catalogVars, savedVars, dockVars>>

\* A component without the focus starts in one of its initial states, always the same.
OneStart ==
    /\ focus # "raster" => page.frame = CHOOSE frame \in Frames : TRUE
    /\ focus # "probe" => /\ hour = CHOOSE h \in Hours : TRUE
                          /\ mouse.at = CHOOSE x \in Points : TRUE
    /\ focus # "wind" => /\ windPage.hour = CHOOSE h \in Hours : TRUE
                         /\ windPage.mode = "barbs"
                         /\ camera.view = CHOOSE v \in WindViews : TRUE
    /\ focus # "saved" => storage.units = None /\ storage.favorites = None /\ storage.old = None

PageInit ==
    /\ Init
    /\ ProbeInit
    /\ Wind!Init
    /\ Overlay!Init
    /\ Follow!Init
    /\ Notice!Init
    /\ Meteogram!Init
    /\ Catalog!Init
    /\ Saved!Init
    /\ Dock!Init
    /\ focus \in Components
    /\ OneStart

\* The others do not move while that component has the focus.
Only(component) ==
    /\ focus = component
    /\ UNCHANGED focus
    /\ component # "raster" => UNCHANGED vars
    /\ component # "probe" => UNCHANGED probeVars
    /\ component # "wind" => UNCHANGED windVars
    /\ component # "overlay" => UNCHANGED overlayVars
    /\ component # "feed" => UNCHANGED feedVars
    /\ component # "notice" => UNCHANGED noticeVars
    /\ component # "meteogram" => UNCHANGED meteogramVars
    /\ component # "catalog" => UNCHANGED catalogVars
    /\ component # "saved" => UNCHANGED savedVars
    /\ component # "dock" => UNCHANGED dockVars

PageNext ==
    \/ Only("raster") /\ Next
    \/ Only("probe") /\ ProbeNext
    \/ Only("wind") /\ Wind!Next
    \/ Only("overlay") /\ Overlay!Next
    \/ Only("feed") /\ Follow!Next
    \/ Only("notice") /\ Notice!Next
    \/ Only("meteogram") /\ Meteogram!Next
    \/ Only("catalog") /\ Catalog!Next
    \/ Only("saved") /\ Saved!Next
    \/ Only("dock") /\ Dock!Next

\* The fairness of the components that state one; only what has the focus moves.
RasterFairness ==
    /\ WF_vars(focus = "raster" /\ RunEffect)
    /\ WF_vars(focus = "raster" /\ MountMap)
    /\ WF_vars(focus = "raster" /\ StyleLoads)
    /\ WF_vars(focus = "raster" /\ TimerFires)

WindFairness ==
    /\ WF_windVars(focus = "wind" /\ Wind!RunEffects)
    /\ WF_windVars(focus = "wind" /\ Wind!TimerFires)
    /\ WF_windVars(focus = "wind" /\ \E flight \in fetch.flights :
                          Wind!FieldLands(flight) \/ Wind!FetchFails(flight))

FeedFairness ==
    /\ WF_feedVars(focus = "feed" /\ Follow!LoadRun)
    /\ WF_feedVars(focus = "feed" /\ Follow!RunEffect)
    /\ WF_feedVars(focus = "feed" /\ Follow!SetHours)
    /\ \A i \in 1..Outstanding :
           WF_feedVars(focus = "feed" /\ \E flight \in loads :
                              flight.id = i /\ (Follow!Reply(flight) \/ Follow!Land(flight)))

PageSpec == PageInit /\ [][PageNext]_pageVars
            /\ RasterFairness /\ WindFairness /\ FeedFairness

-----------------------------------------------------------------------------
(***************************************************************************)
(* The properties of the components; each one is stated in its module.     *)
(* Those of WeatherRasterLayer and ProbeReadout keep their names.          *)
(***************************************************************************)

\* The state of every component has its type.
PageTypeOK ==
    /\ TypeOK
    /\ ProbeTypeOK
    /\ Wind!TypeOK
    /\ Overlay!TypeOK
    /\ Follow!TypeOK
    /\ Notice!TypeOK
    /\ Meteogram!TypeOK
    /\ Catalog!TypeOK
    /\ Saved!TypeOK
    /\ Dock!TypeOK

\* WeatherRasterLayer: a frame not shown before on which the page rests is shown.
PageShowsNewPosition == focus = "raster" => NewPositionWins

\* WindParticleLayer, StationMeteogram: the wind field and the series on the screen are
\* answers to the question asked last, as LatestRequest promises.
PanelsAreLatest == Wind!FieldIsLatest /\ Meteogram!SeriesIsLatest

\* WindParticleLayer: a hidden overlay leaves nothing behind and no two loops run.
UnmountContract == Wind!UnmountContract

\* WindParticleLayer: the field follows the hour on which the page rests.
FieldCatchesUp == Wind!FieldCatchesUp

\* VectorOverlays: a map that is set up shows the warning areas once they are known.
BoundariesFollowData == Overlay!BoundariesFollowData

\* RunFeed: an unchanged condition of the feed is not announced again.
AnnouncedOnce == Follow!AnnouncedOnce

\* RunFeed: the page comes to show the run that the server stays with.
PageFollowsServer == focus = "feed" => Follow!PageFollowsServer

\* Notices: a visible toast has exactly the timer of its latest push, a key one toast.
ToastsAreTimed == Notice!ToastsAreTimed

\* Notices: a captured error is one of what the panel shows now.
CrashIsCurrent == Notice!CrashIsCurrent

\* StationMeteogram: charts are those of the series, and no frame draws destroyed ones.
ChartsMatchSeries == Meteogram!ChartsMatchSeries

\* ProductCatalog: every option shown as selected is one of the selected product.
OptionsBelongToProduct == Catalog!OptionsBelongToProduct

\* Preferences: only a toggle changes the favorites that a later load will find.
OnlyTogglesChangeFavorites == Saved!OnlyTogglesChangeFavorites

\* TimelineDock: no preview stays when the last pointer has left the scrub bar.
PreviewEnds == Dock!PreviewEnds
=============================================================================
