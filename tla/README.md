# NWS-NBM-Viewer: models, checks and proofs

A TLA+ development of the parts of the NBM viewer in which several actors share
state: the active-cycle poller and its run pointer, cycle discovery, the tile and
probe pipeline of a worker, and in the browser the forecast timeline and every
component of the page that keeps timers, requests or saved state. TLC checks each
model on small instances. TLAPS proves the safety of every model, each invariant and
each action property that a run checks, and the four refinements, for every value of
the constants; liveness is checked only.
Paths below are relative to `src/`.

## 1. The system

The backend (FastAPI, several uvicorn workers over one cache directory) watches
NOAA's S3 bucket for new NBM cycles, renders map tiles from GRIB fields and
answers point probes. The frontend (Next.js, MapLibre) shows one frame (domain,
cycle, element, forecast hour) and animates through the hours.

| Part | Source | State it keeps | Operations | What is hard |
|---|---|---|---|---|
| Poller | `backend/app/cron/poller.py` | one warm-up task per process, counters | poll tick, startup and immediate poll, manual poll, warm-up with progress | decides on a pointer read before others write it; polls of one process that overlap; a task that outlives ticks |
| Run pointer | `backend/app/core/pointer.py` | a row in the shared disk cache, a 5 s memo per process | publish, fetch, attach warm-up progress | read-modify-write without a lock between processes |
| Runs API | `backend/app/api/endpoints/runs.py` | none | discovery over 24 h of cycles, `/runs/latest` | results that mix several moments; a late one over a newer one |
| Poller API | `backend/app/api/endpoints/poller_ops.py` | time of the last manual poll | poll now, evict now, status | polls next to the scheduled ones |
| Scheduler, lock | `backend/app/scheduler.py`, `cron/lock.py` | `flock` on a file, job table | start, stop | ownership across crashes |
| S3 client | `backend/app/core/s3_client.py` | cooldown, `.idx` cache | retry loop, existence probe, ranges | retries, throttling |
| Tile pipeline | `backend/app/tiles/renderer.py`, `cache.py`, `source.py` | grid LRU, tile cache, lock table, active source | render, decode once, fall back | lock table cleared under locks; one-way degradation |
| Probe service | `backend/app/probe/*` | semaphore, value cache | point, meteogram, wind field | fan-out behind the semaphore, one sample of many failing; grid cache and source change under it |
| Caches, retention | `backend/app/services/*` | disk caches | TTL cap, age sweep | sweeps under readers |
| Upstream, health | `backend/app/upstream.py`, `api/routes/health.py` | one cached probe | check | concurrent probes, last writer wins |
| Static data | catalogs, colormaps, GRIB decoding | none | look-ups, numerics | nothing concurrent |
| Timeline | `frontend/src/components/timeline/*` | engine, preloader, hour ladder | play, pause, seek, tick, ladder and context changes | playhead and page write each other; image events of evicted frames |
| Raster layer | `frontend/components/map/WeatherRasterLayer.tsx` | applied and pending frame, settle timer | request, settle, remount | map events, timers, effects in any order |
| Run feed | `frontend/components/map/MapShell.tsx`, `layout/Header.tsx` | cycle, ladder, status, last notice | load run, pick a cycle | overlapping requests answered in any order |
| Overlays | `VectorOverlays.tsx`, `OverlayControls.tsx` | toggles, one promise per session | set up, toggle, fetch | style not loaded when a toggle comes |
| Cursor readout | `ProbeReadout.tsx` | controller, sequence number, probed point | probe, coalesce, abort | aborted and overtaken answers |
| Wind layer | `src/components/map/WindParticleLayer.tsx` | loop, pool, throttle, field | mount, fetch, draw | trailing fetch, camera in motion, cleanups of three effects |
| Station meteogram | `meteogram/MeteogramModal.tsx`, `chartPlugins.ts`, `StationPicker.tsx`, `StationMarker.tsx` | series, charts, shared hover | pick, fetch, hover, close | frames asked for by charts that are gone |
| Notices | `ToastProvider.tsx`, `TileErrorWatcher.tsx`, `ErrorBoundary.tsx` | toasts, timer table, captured error | push, dismiss, retry | timers of toasts pushed out or pushed again |
| Catalog | `controls/catalog.ts`, `ProductSelector.tsx` | selected product and options | select, filter | options left over from another product |
| Saved choices | `useFavorites.ts`, `MapShell.tsx` | localStorage | load, toggle | effects that save before others have read |
| Dock | `TimelineBar.tsx`, `PlaybackControls.tsx` | pointers, hover preview | drag, hover, keys | several pointers, events between renders |
| Deployment | `docker/*`, `deploy/*` | none | proxy, services | outside the program |

How they meet: a *discovery* (poll or live) probes the bucket through the S3
client and publishes a pointer; the poller starts a *warm-up* for a complete
cycle, which renders tiles through the tile pipeline and writes its progress
back on the pointer; `/runs/latest` reads the pointer from any worker; the page
turns its answer into an hour ladder and a context; the timeline moves the
page's hour and preloads tiles; the raster layer re-points its source at the
page's frame; both fetch tiles from the pipeline. Readout, wind layer and meteogram
ask the probe service, which reads the grids that tiles have decoded and the same
data source. The rest of the page shares props only: a component tells another an
hour, a station or a message, and keeps its refs to itself.

What makes each part correct, in a sentence: the pointer never says what the
bucket does not hold and comes to name the newest cycle; a warm-up is started
once, when due, and ends; a discovery ends with a result true of the time it
took; a field is decoded once and every request ends; a frame's tiles all
settle and playhead, page and map come to show the same frame; a panel shows the
answer to the question asked last; the page comes to show the run the server stays
with; what a component mounts, arms or asks for goes when the component does; saved
choices change only when the user changes them.

## 2. Modules

| Module | Models | State |
|---|---|---|
| `NbmFeed` | the bucket, filled hour by hour; what a discovery may report of it | `posted` |
| `CyclePoller` (+ `MCCyclePoller`) | the fleet around the pointer: polls, live discoveries, warm-ups, memos, lock, crashes | `shared`, `memo`, `pending`, `discovery`, `warmup`, `rendered`, `owner`, `up`, `due`, `calm` |
| `CyclePollerProofs` | theorems about `CyclePoller` | - |
| `CycleDiscovery` (+ `MCCycleDiscovery`) | one discovery, request by request | `stage`, `left`, `todo`, `tries`, `flight`, `seen`, `cooling`, `result`, ... |
| `CycleDiscoveryProofs` | theorems about `CycleDiscovery`: it returns `Discoveries` of `NbmFeed` | - |
| `TilePreloader` | the preloader as operators on a value | - |
| `Timeline` (+ `MCTimeline`) | engine, preloader, page, React effects | `engine`, `asked`, `page`, `due`, `moves` |
| `TimelineProofs` | theorems about `Timeline` and the preloader in it | - |
| `WeatherRasterLayer` | the raster layer over one map source | `page`, `due`, `map`, `source`, `layer` |
| `WeatherRasterProofs` | theorems about `WeatherRasterLayer` | - |
| `TileService` (+ `MCTileService`) | the tile pipeline of a process | `request`, `locks`, `queue`, `grids`, `tiles`, `source`, ... |
| `ProbeService` (+ `MCProbeService`) | the probe service next to the tile pipeline, which it extends | `calls`, `tasks`, `permits`, `values` |
| `TileServiceProofs` | theorems about `TileService`, alone and within `ProbeService`, and about `ProbeService` | - |
| `LatestRequest` | abstract: the answer shown is the answer to the last question | `asked`, `shown` |
| `ProbeReadout` | the cursor readout; implements `LatestRequest` | `hour`, `mouse`, `refs`, `flights`, `readout` |
| `ProbeReadoutProofs` | theorems about `ProbeReadout`, the refinement among them | - |
| `WindParticleLayer` | life cycle, fetch and barbs of the wind overlay; implements `LatestRequest` | `page`, `camera`, `life`, `field`, `fetch`, `canvas` |
| `StationMeteogram` | picking a station, its series, its charts; implements `LatestRequest` | `fetch`, `charts`, `hover`, `marker` |
| `RunFeed` | `loadRun` of the page against a server that moves on | `clock`, `server`, `page`, `ladder`, `flights`, `told` |
| `VectorOverlays` | overlays, chips and the session's one fetch | `toggles`, `map`, `layers`, `setup`, `session` |
| `Notices` | toasts, tile error watcher, error boundary | `toasts`, `timers`, `throttled`, `panel` |
| `ProductCatalog` | the product and its options | `selection`, `drawer` |
| `Preferences` | localStorage and the effects that read and write it | `storage`, `page`, `phase`, `due` |
| `TimelineDock` | scrub bar, transport buttons, hotkeys | `bar`, `pointers`, `drag` |
| `MCPage` | the ten components of the page in one instance | `focus` and theirs |
| `PanelProofs` | theorems about wind layer, meteogram and overlays, two refinements among them | - |
| `PageProofs` | theorems about feed, notices, catalog, saved choices and dock, and the types of the page | - |

`NbmFeed` is the abstract specification of discovery: `CyclePoller` uses its
`Discoveries` as the set of results a poll may get, and `CycleDiscovery`, which
makes the probes one at a time, is checked and proved to return only members of that
set.
`Timeline` uses `TilePreloader`.

`LatestRequest` is the abstract specification of the three panels that fetch. Its
two variables are mapped to the question of the panel's current request and the
question whose answer is on the screen. The refinement is
checked and proved for `ProbeReadout`, `WindParticleLayer` and `StationMeteogram`. It is a
property of order, not of arrival: aborted requests whose answers still come,
answers out of order and failure notes of old requests must all be steps that leave
`shown` alone.

`ProbeService` extends `TileService`: its tasks look fields up in `grids`, refresh
their place in the LRU order, and read and change `source`, between any two steps of
tile requests. It never puts a grid into that cache.

`MCPage` puts the components of the page together. They share no variable, so a
product of them would say nothing more than each alone: `focus`, chosen in the
initial state, is the one component that moves in a behaviour, and its inputs from
the others (an hour, a station, a message) are its own nondeterministic actions. Every
property is checked of every component; the state spaces add up.

**Atomicity.** A worker is an event loop, so its code between two awaits is not
interleaved with other code of the worker. It is with other processes:
in `CyclePoller` each access to the shared cache is a step. A section
"fetch, then publish" leaves the pointer to be written in `pending[w]`, blocks
the worker, and ends with `Publish(w)`. A discovery awaits: `StartDiscovery`
keeps the feed at its start, and the step that uses the result follows any number
of others. Who discovers is a *caller*: the tick, the startup job and the daemon's
immediate poll are three coroutines of the process that holds the lock (`due[w]` has
those of them that are still to begin), and manual polls and live discoveries come from
requests, any number of each. One caller makes one discovery at a time, different
callers overlap. In `TileService` a step ends at each await; awaits between which
nothing visible to other requests changes are one stage. In the frontend an
event handler, an effect or a timer is a step, and the gap between a render and
its effects is explicit. In `TimelineDock` a press, a release or a key is rendered
before the next event, as React does for discrete events; a move or a leave is
rendered later.

**Names.** Actions are named for the handler (`PollPublishes` is
`poll_active_cycle` after its await, `TileRendered` a `warm_one` that succeeds,
`GetGrid` the code of `_grid` up to its first await, `SourceData` the
`sourcedata` handler, and so on). `PROJECT.json` maps each to its lines.
Definitions marked "Mutant" are altered copies used to show that each property
can fail; no specification uses them.

### Abstractions

* A pointer's age is left out: any reader may find it fresh or not, so
  `/runs/latest` may read it or discover. Its 24 h expiry is left out.
* The error branch of `poll_active_cycle` and its backoff are left out: the
  exceptions of a probe are swallowed by `_index_exists`, so the branch is not
  reached from S3.
* Progress counters are reduced to the status they carry. `of`, the cycle a
  progress is about, is not stored by the code; it is there to state
  properties.
* A cycle is a number, newer ones larger; an hour list is a set.
* In the preloader, `lost` counts slots whose images were released with an
  evicted frame: their handlers will never run and nothing removes them.
* Time in the timeline is the number of frames (0 to 3) an animation frame
  advances by. Frame rate, subscriptions and `destroy` are left out.
* A tile's payload is its origin, S3 or synthetic. Warping, colours, encoding
  and the negative cache's marker are left out; so are the lock around an index
  fetch (it only serialises fetches) and client cancellation. Tiles are of past
  cycles, where the long TTL and `immutable` apply.
* A probe value is the origin of the grid it was sampled from; a full value cache
  loses any entry instead of the oldest. Permits of the semaphore go to any waiting
  task. An error from a probe has no text.
* A question of a panel is what distinguishes its answers: point and hour, hour and
  view, place with cycle and units. The screen of the readout is a line of pixels.
* The catalog keeps one product for each combination of types, options and
  defaults; the thresholds of a product are their number.
* A grid cache keeps to a number of bytes and of entries. `Fits` is the set of the sets of
  fields that do, so a grid may be too large for the cache alone, and one that is put in
  may drive out several.
* The answers of `/runs/latest` to the page have a cycle, a list of hours (which may be
  empty, and only grows within a cycle), whether more is to come and
  whether the feed is in trouble: stale and unreachable differ in their wording only.
* The engine behind `RunFeed` is the ladder it has, which follows the page's at some later
  time; the hours it reports are of its own ladder. Behind `TimelineDock` it is the index,
  the length of the ladder and the speed; a jump by a day leads to any frame.
* The catalog's panel is in view always on a wide screen, on a narrow one while it is open
  (`InView`).
* A cycle of `RunFeed` is the number of its hour, so that the turn of the day is in
  the instance.
* Constants like `NoPointer`, `NoTask` or `NoFrame` stand for `None` or `null`.

## 3. Runs

| Run | Question | Properties |
|---|---|---|
| `poller_fleet` | two processes, either of which may get the lock; tick and immediate poll overlap; posts, failing probes and cache, crashes | `PointerTruthful`, `WarmupHasItsWindow`, `PollerIsAlone` |
| `poller_sole` | one process, tick and manual polls overlap; failing tiles and bounds | `TypeOK`, `DoneMeansRendered`, `CaughtUpStays`, `NoRepeatedWarmup`, `RunningEnds` |
| `poller_converge` | does everything wash out? | `AnswersConverge` |
| `discovery` | probes, retries, cooldown, moving feed | `TypeOK`, `ResultsAreDiscoveries`, `DiscoveryEnds` |
| `timeline` | playback against page, effects, images | `TypeOK`, `PendingIsOnItsWay`, `SpinnerIsHonest`, `AtRestTheyAgree`, `EveryTileSettles` |
| `page` | each component of the page: scrubs, timers, remounts, crossing answers, pointers, reloads | `PageTypeOK`; raster: `AppliedIsShown`, `PendingDrains`, `PageShowsNewPosition`; readout: `ReadoutIsLatest`; wind and meteogram: `PanelsAreLatest`, `UnmountContract`, `FieldCatchesUp`, `ChartsMatchSeries`; overlays: `BoundariesFollowData`; feed: `AnnouncedOnce`, `PageFollowsServer`; notices: `ToastsAreTimed`, `CrashIsCurrent`; catalog: `OptionsBelongToProduct`; saved choices: `OnlyTogglesChangeFavorites`; dock: `PreviewEnds` |
| `tiles` | overlapping tile requests and probes, eviction, failures, restart | `WorkerTypeOK`, `SingleFlight`, `EveryRequestEnds`, `EveryProbeEnds` |
| `poller_retry` | is a skipped warm-up retried? No. | `NextTickRetries` |
| `poller_overlap` | does one process keep the pointer from going back? No. | `PointerNeverRegresses` |
| `timeline_stall` | does the spinner never wedge? It can. | `SpinnerNeverWedges` |
| `raster_final` | does the final position always win? No. | `FinalPositionWins` |
| `tiles_frozen` | does a past tile never change? It can. | `TileNeverChanges` |

Nothing in the code keeps the pointer from going back: a discovery that began earlier
and ends later puts the older cycle in its place, within one process (`poller_overlap`)
as between processes. What holds is in two properties. `CaughtUpStays` says in which
states that is over: when every pointer in memory tells of a run and every discovery
under way saw that run when it began, the pointer does not fall behind the run again,
unless a probe fails (`_index_exists` turns every error into "absent", and the poll
publishes less). `AnswersConverge` says that such a state comes. `NoRepeatedWarmup` needs
one process and a cache that answers: with a second process, or a lost write, a poll may
decide on a pointer that does not have the record of the warm-up.

`PollerIsAlone` is about work in the background. A manual poll starts a warm-up in the
process that serves the request, lock or not, so the run has none.

### Bounds

* **Poller.** Two cycles are enough for "older over newer", two workers for two
  processes around the row, two callers for an overlap: tick and immediate poll, tick
  and live discovery, tick and manual poll (the startup job is like the immediate poll,
  and the theorems are about all). `poller_fleet` has a two-hour window, so that partial
  cycles exist; `poller_sole` has an hour outside the window, so that the
  hours of a complete cycle still change. One or two tiles give first, middle
  and last tile, and mixtures of success and failure. No counter is bounded:
  the state spaces are finite as they are.
* **Discovery.** Three cycles (first, middle, last candidate), two hours,
  two attempts, two probes at once.
* **Timeline.** Three hours (1, 2 and 4: uneven steps as in the real ladder) and
  a ladder of one; two cached frames and two fetch slots, so that eviction meets
  fetches; `Moves` bounds user actions and page changes, `MaxLoops` the
  callbacks outstanding. Tick and image events are not bounded.
* **Page.** Raster layer: three frames, four changes of frame, one remount. Readout:
  three pixels and a jump of two (near and far both occur, and a chain of near moves
  is far), two hours, two probes and one remount. Wind: two hours, two views, three
  changes, one failure, so that a fetch, its trailing successor and a return to
  the first view fit. Overlays: one on and one off by default besides the warning
  areas, three presses, two remounts, three fetches of which some fail. Feed: two
  domains, the last hour of a day and the first of the next, two outstanding
  requests, two changes, and answers without a list of hours or with the first of two, so
  that the ladder shrinks under the hour shown and grows again. Notices: two visible toasts of three keys, four pushes. Meteogram: two
  places, cycles, units, three changes, one failure, three builds of charts. Catalog:
  three choices. Saved choices: two products, three changes, two loads. Dock: two
  pointers, a ladder of one or three, one button or ladder. The bounded counters count
  acts of the user or the server; answers, timers, effects, pointer moves and
  frames are not bounded.
* **Tiles and probes.** Three fields and a grid cache that holds either of two but not
  both (each use of the other evicts), the third being too large for it; a lock table of one (cleared on the third lock: at 512 in the
  code); four tile requests, one failure, one loss or restart. One permit, so that
  samples queue; a value cache of one entry, so that it evicts; two fields are sampled and
  two are wind components, one is both. One prober, that is one probe request at a time,
  and two requests in a behaviour: the two tasks of a request already compete for the
  permit, and a wind field's leftover task meets the next request. What several probers
  add, more tasks waiting for the permit, is not in the run; the theorems about the worker
  hold for any number of probers, `EveryProbeEnds` is checked for one. A behaviour that probes makes one tile
  request (`Mixed`): probes and tiles meet in the grid cache and the source, which
  one request on each side reaches.

The runs of the timeline, the page and the tiles do not check deadlock: a
page nobody touches any more, or a service that has used its bound of requests,
stops. The others never stop.

### Fairness

* Poller: weak fairness of `Boot` (the supervisor, `deploy/systemd`, restarts a
  dead worker), of `Publish` (a synchronous call) and of the memo's expiry
  (5 s); strong fairness of the tick (an APScheduler interval job), of the end
  of every other caller's discovery (HTTP timeouts end it), though not of its beginning, and of the warm-up task. Strong,
  because a synchronous section of the same worker disables them for a
  moment, again and again. Nothing is assumed of NOAA or of the clients.
* Discovery: weak fairness of the walk and of each probe (a request has a
  total timeout). Not of ticks, the cooldown or NOAA.
* Timeline: the browser loads or fails each image it fetches. Not of the user,
  React or animation frames.
* Page: React runs effects (that of the timeline on the run's hours included), the map is built, its style loads, timers fire; each
  request for a run or a wind field is answered or fails (`fetch` ends, as the
  browser's own timeouts do); the feed's timer asks again. That a source loads is not
  assumed: the settle timer is there for it. The other components state safety
  only.
* Tiles and probes: each request that can go on goes on (event loop, threads that
  finish, HTTP timeouts), a probe through any of its tasks. Weak fairness is
  enough: nothing takes the permit from a task but tasks that end.

## 4. Disagreements found

1. **The pointer goes back** (`poller_overlap`). The daemon polls once at its start
   (`backend/app/cron/poller.py:586`), next to its first tick; when a cycle is posted
   between the two and the older discovery ends last, the older cycle replaces the newer,
   until the next tick. `backend/app/core/pointer.py:74` and `:168` call the pointer the
   newest cycle observed.
2. **A skipped warm-up is not retried** (`poller_retry`). `schedule_warmup` logs
   "next tick retries" (`backend/app/cron/poller.py:291`); the tick that was
   skipped has published the hours, so the next finds nothing changed. The older
   task then writes its own progress on the new cycle's pointer.
3. **Fetch slots leak** (`timeline_stall`). An evicted frame's images lose their
   handlers but stay in `inFlight`
   (`frontend/src/components/timeline/TilePreloader.ts:186`); with every slot
   lost a pending frame never settles, against the comment at line 155.
   The state lasts until the context changes, which clears the preloader.
4. **The final position does not always win** (`raster_final`). A request for
   the applied frame is dropped while another is pending
   (`frontend/components/map/WeatherRasterLayer.tsx:115`, comment at 22).
   `NewPositionWins` (`PageShowsNewPosition` in the `page` run) is the part that
   does hold.
5. **A past tile can change** (`tiles_frozen`). One failed fetch makes the
   process synthetic for good (`backend/app/tiles/source.py:647`), while
   `backend/app/tiles/cache.py:608` says a past tile never changes.

Four more are stated as operators that the modules define and no passing run can
have; make the operator an invariant of `page.cfg` (through a definition of
`MCPage`, for the instances) or `timeline.cfg` to see its counterexample.

6. **Overlays do not follow their toggles** (`VectorOverlays`,
   `OverlaysFollowToggles`). `applyToggles` returns when the style is not loaded, which
   is also so at `style.load` and while tiles load
   (`frontend/components/map/VectorOverlays.tsx:98`): layers that are off by default
   come up drawn, and a toggle pressed during a pan is lost.
7. **A far jump is taken for a near one** (`ProbeReadout`, `FarJumpsAreProbed`).
   After a drag that leaves the canvas and comes back, the controller of a probe is
   there without its point, and every move is coalesced
   (`frontend/components/map/ProbeReadout.tsx:212`).
8. **The wind field of another view stays** (`WindParticleLayer`,
   `FieldCoversView`). A pan away and back with the trailing request in between
   leaves the field of the place in between, as the view key is the old one
   (`frontend/src/components/map/WindParticleLayer.tsx:293`).
9. **The page's hour is not on its ladder** (`Timeline`, `PlayheadIsPageHour`). A seek or
   a tick between the render of a shorter ladder and its effects reports an hour of the
   old one. If the playhead is on the frame nearest to it by then, the sync effect changes
   and reports nothing (`frontend/src/components/timeline/useTimeline.ts:116`), and the
   page keeps the hour it does not have, though it is the "source of truth" (lines 6-7). `AtRestTheyAgree` is
   what holds: the two agree wherever the ladder has the page's hour. In `RunFeed` the
   next answer of the server puts the hour right, which `PageFollowsServer` includes.

Seen while modelling, without a run: `_index_exists` swallows the `S3Throttled`
that `object_exists` raises for discovery to notice
(`backend/app/core/s3_client.py:574`); `syncIndex` calls `onFrameChange`
although its comment says it does not
(`frontend/src/components/timeline/AnimationEngine.ts:211`), harmlessly by
`AtRestTheyAgree`; a tick that pauses on a shrunken ladder asks for another
animation frame (line 395), so a quick resume runs two loops where
`frontend/scripts/verify-timeline-leaks.mjs:221` wants one. In the frontend also: barbs
cleared by a camera movement are not drawn again when it ends without a new field;
between 00:00Z and 00:39Z `computeFallbackCycle` (`frontend/lib/nbm.ts:171`) names
23Z of the day that has just begun; a feed that goes from stale to down is not
announced again; a cycle picked by hand is replaced by the next poll; the option
selectors of a product do not reach the tile URL; the northern component in
`windDirectionFromUV` (`windParticleCore.ts:102`) has the wrong sign. In the probe
service: the lock table of `backend/app/probe/service.py:1003` is never used, so
concurrent samples of a field load it several times; the comment at line 845 wants a
missing index entry to read as nodata, but under the automatic source it is a
`LookupError` that turns the whole process synthetic; and values sampled from
synthetic grids stay in the value cache while a late bucket probe sets the source
back to S3.

## 5. Proofs

Every invariant and every action property of the passing runs, and every refinement,
is a theorem. Each assumes only the named `ASSUME`s of the modules it is about, which
give the shapes of the constants; what they say beyond that, and the two theorems that
assume more (`OneProcessPolls`, `SoleNoRepeatedWarmup`), is said below.

| Module | Theorem | Statement |
|---|---|---|
| `CyclePollerProofs` | `PollerInvariant`, `TypeCorrect` | `Spec => []PollerInv`, `[]TypeOK` |
| | `PointerIsTruthful` | `Spec => []PointerTruthful` |
| | `WarmupsHaveTheirWindow` | `Spec => []WarmupHasItsWindow` |
| | `DoneIsRendered` | `Spec => []DoneMeansRendered` |
| | `OneProcessPolls` | no manual polls: `Spec => []PollerIsAlone` |
| | `PointerStaysCaughtUp` | `Spec => CaughtUpStays`, `FairSpec => CaughtUpStays` |
| | `SoleNoRepeatedWarmup` | `SoleWriter`: `Spec => NoRepeatedWarmup`, `FairSpec => NoRepeatedWarmup` |
| `CycleDiscoveryProofs` | `DiscoveryInvariant`, `DiscoveryTypeCorrect` | `Spec => []WalkInv`, `[]TypeOK` |
| | `DiscoveriesAreSound` | `Spec => ResultsAreDiscoveries` |
| `TileServiceProofs` | `TileTypeCorrect`, `TileSingleFlight` | `Spec => []TypeOK`, `[]SingleFlight` |
| | `WorkerTypeCorrect`, `WorkerSingleFlight` | `WorkerSpec => []WorkerTypeOK`, `[]SingleFlight` |
| `TimelineProofs` | `TimelineInvariant`, `TimelineTypeCorrect` | `Spec => []TimelineInv`, `[]TypeOK` |
| | `TilesAreOnTheirWay` | `Spec => []PendingIsOnItsWay` |
| | `SpinnerStaysHonest` | `Spec => []SpinnerIsHonest` |
| | `PlayheadFollowsPage` | `Spec => []AtRestTheyAgree` |
| `WeatherRasterProofs` | `RasterTypeCorrect`, `AppliedFrameIsShown` | `Spec => []TypeOK`, `[]AppliedIsShown` |
| `ProbeReadoutProofs` | `ProbeTypeCorrect` | `ProbeSpec => []ProbeTypeOK` |
| | `ProbeShowsLatest` | `ProbeSpec => ReadoutIsLatest` |
| `PanelProofs` | `WindUnmountsCleanly` | `PageSpec => []UnmountContract` |
| | `ChartsAreOfTheSeries` | `PageSpec => []ChartsMatchSeries` |
| | `PanelsShowLatest` | `PageSpec => PanelsAreLatest` |
| | `BoundariesAreDrawn` | `PageSpec => []BoundariesFollowData` |
| `PageProofs` | `ConditionsAreAnnouncedOnce` | `PageSpec => AnnouncedOnce` |
| | `NoticeInvariant`, `ToastsKeepTheirTimers`, `CrashesAreCurrent` | `PageSpec => []NoticeInv`, `[]ToastsAreTimed`, `[]CrashIsCurrent` |
| | `OptionsAreOfTheProduct` | `PageSpec => []OptionsBelongToProduct` |
| | `FavoritesAreOnlyToggled` | `PageSpec => OnlyTogglesChangeFavorites` |
| | `PreviewAlwaysEnds` | `PageSpec => []PreviewEnds` |
| | `PageTypeCorrect` | `PageSpec => []PageTypeOK` |

### Poller

`CyclePollerProofs` holds for any sets of workers, cycles and hours, any window, any
number of tiles and any selection of failures. It assumes `FeedAssumption` and
`PollerAssumption`: the shapes of the constants, that hour 1 is probed, and that the
`No...` values are not ordinary ones.

`PointerTruthful` speaks of all copies of the pointer: the row,
the memos and the ones about to be written. `CopiesAccounted` shows that a
step of a worker makes a copy only (a) from another copy, (b) from another copy
with new progress, or (c) from a discovery's result, which `FoundCovered`
bounds by the feed at its end. The feed only grows (`PostedGrows`), so what was
true of a copy stays true. `WarmupHasItsWindow` follows in the same way: a task
comes from a complete result.

`DoneMeansRendered` is not inductive: the end of a
warm-up writes "done" if some tile succeeded, and nothing in the property ties
the task's counter to the tile cache. `GoodIsRendered` does: a task that counts a
success has cached a tile of its cycle. `PollerInv` is the conjunction of
`TypeOK`, `GoodIsRendered`, `PointerTruthful`, `WarmupHasItsWindow` and
`DoneMeansRendered`; each conjunct has a lemma for the next step.

`OneProcessPolls` assumes that nobody polls by hand. Its invariant is
`BackgroundHasLock`: whoever polls by itself, warms tiles, or has a first poll still to
begin, holds the lock. The first polls must be in it, since the process that got the lock
makes them later; and the lock only passes on when its holder dies with all its work.

`PointerStaysCaughtUp` assumes nothing of the fleet. That the row is at least some run is
not kept by a step: what a worker remembers, is about to write, or has begun to look for,
may be older. `CaughtUp(run)` asks it of all of these, and that is kept
(`WorkerTells`): what is fetched tells of the run (`FetchedIsCaughtUp`), progress
does not change what a pointer tells (`UpdateTells`), and a discovery that saw the run at
its start reports it or more, unless a probe fails (`FoundIsAtLeast`). `StillCaughtUp` is
the common part of all other steps.

`SoleNoRepeatedWarmup` assumes `SoleWriter`: one worker and a cache that can be read and
written; polls of all kinds may overlap, probes and tiles may fail, the process may die,
and `/runs/latest` may discover. The invariant is that the memo is the row or empty
(`MemoIsShared`), so that the pointer a poll decides on is the one in the cache
(`TaskFromPoll`).

### Discovery

`DiscoveriesAreSound` is the step from the abstract feed to the code's walk: what a
discovery returns, probe by probe, is in `Discoveries` of the feed between its start
and its end, for any finite set of cycles, any hours, attempts and concurrency. The
models of the poller take that set for the result of one step. In the invariant
`WalkInv` the feed has only grown since the start, what was found is posted
(`FoundIsPosted`), and unless a request glitched no hour posted at the start is lost from
what the current batch has still to do or has found (`NoneIsLost`). A candidate is
crossed off only when it is the newest left (`WalkIsInOrder`), so a fact about one
candidate becomes a fact about all newer ones.

### Tiles and probes

`TileServiceProofs` holds for any requests, fields, tiles and sizes.
`SingleFlight` speaks of two requests that fetch; what keeps
them apart is their lock, which it does not mention. The invariant `TileInv` adds
`QueueInv` (who is in a queue waits for that lock and is there once, who waits is in
the queue of its lock, who fetches is the first there), `LocksKept` (until the table is
cleared, whoever waits does so at the lock the table has for its field), `FetchesNew`
(until then nobody fetches a cached field) and `OriginKnown` (what is put into the cache
has an origin). Two fetches of a field would then both be the first of one queue
(`InvSingleFlight`). A request joins a queue, goes on in it or leaves it as its first
(`JoinStep`, `InsideStep`, `LeaveStep`); a fetch that ends caches its own field,
which has another lock than any other fetch has (`FetchOver`). `FreeLock` counts: with
a lock for each field and each request there is always one that neither the table nor
a queue uses, as a new `asyncio.Lock` is. Steps of the probe service leave requests,
locks and queues alone and cache no field (`SharedStep`). Once the table has been
cleared under held locks, the code itself allows two fetches, so nothing is claimed
before the next restart.

`WorkerTypeCorrect` has the bounds of the probe service in it: the tasks that sample
and the free permits add up to the semaphore's size, and the value cache keeps its cap.
The first needs that a task samples at most once at a time and that a task exists as
long as somebody counts on it: the invariant `ProberInv` (`PermitsKept`, `ValuesKept`,
`TasksKept`, `SamplesOnce`), kept also when a wind field's other task goes on after its
request has failed.

### Timeline

`TimelineProofs` holds for any hours, ladders, tiles, cache and slot sizes. Besides the
shapes of the constants it assumes that ladders are ascending and not empty, as
`sanitizeHours` (`frontend/src/components/timeline/frames.ts:42`) and the canonical
ladder make them, and that the preloader keeps at least two frames
(`Math.max(2, ...)`, `TilePreloader.ts:62`).

The invariant `TimelineInv` has four parts. `GoodEngine`: the playhead is inside the
ladder, the callback that `rafHandle` names is outstanding, and the books of the
preloader balance (`Booked`): a frame waits for exactly those of its tiles that are
queued or in flight, each is so once, and the slots in use and those lost never exceed
the limit. `Honest`: the indicator shows only while the loop plays on a frame that is
not ready. `PageTyped`: the types of page and effects. `RestInv`: what the effects that
are still due hide. Once "hours" has run, engine and page have one ladder; once "sync"
has run and no other hour is asked for, the playhead is at the frame nearest to the page's
hour; and "hours" is never due without "sync". `AtRestTheyAgree` is the case where neither
is due, and the nearest frame of an hour on the ladder is its own (`NearestIsExact`, where
the ascending ladder is used).

`PreloaderInv` is kept by each operation of the preloader (`RequestIsBooked`,
`SettledIsBooked`, `EvictIsBooked`, `PumpIsBooked`). `NoReadier`, that a request makes
no frame ready that was not, is why a preload never ends a wait by itself. The
preloader drops and requests items in sequence, written as recursive functions:
`LeastExists` and `Induction` derive induction from the well-founded order of the
naturals, which the library states without a parameter, and `RecursionExists` shows
once that a function so defined exists and unfolds.

### Page

The components share no variable, and each is proved by an invariant of its own, with
a lemma per group of actions; a step of the page is a step of the component or leaves
it alone (`WindMoves` and its like).

* *Raster layer*. The handlers are functions on a pair of source and refs:
  `ApplySound`, `TrySound` and `RequestSound` show that each keeps a pair sound and
  neither makes nor drops a source, and every action but those of the page is one
  of them on a sound pair.
* *Cursor readout*. `ProbeInv`: types and `LiveIsKept`: a request that is not aborted is
  the one the refs hold. It shows that the abort alone keeps overtaken answers away, and
  the sequence number is a second guard. `StepIsLatest` takes each action to a step of
  `LatestRequest`.
* *Wind layer*. `WindInv`: `LifeFollowsPage` (the loop that lives is the one the page
  asks for), `OffIsClear` (without one there is no frame asked for, no canvas and no
  field) and `LiveIsAsked` (a request not aborted is for the view asked last).
  `WindRefines` maps each action to `LatestRequest`.
* *Meteogram*. `MeteogramInv`: the question asked is the selection (`AskedIsSelected`),
  a request not cancelled is the one waited for (`LiveIsWaited`), charts are drawn of
  the series shown (`ChartsAreDrawn`), and a frame that is asked for belongs to the
  charts of the current build. `SeriesRefines` maps each action.
* *Overlays*. `OverlayInv`: what is known of the session's fetch agrees with each map
  that waits for it (`SetUpMapWaits`, `MapIsCounted`).
* *Feed*. `FeedInv`: types and, for `AnnouncedOnce`, `ToldOfTrouble`: the condition remembered is the one
  that was told last.
* *Notices*. `NoticeInv`: ids are given out once (`IdsAreGivenOut`), so a key pushed
  again keeps the id of its toast and the timer that belongs to it.
* *Dock*. `DockInv`: a captured pointer is over the track (`CapturedAreOver`), a drag
  has one, and no preview is set while no pointer is over it (`NothingIsSet`).
  `DockAssumption` wants a longest ladder.
* *Catalog and saved choices*. `CatalogInv` and `SavedInv` (`FavoritesOnTheWay`: what an
  effect is due to save is what has been read or toggled). That each product of the
  tables has its options is proved table by table.

`PageInv` joins the ten, and gives `PageTypeCorrect`. The assumptions about constants
are in the modules and, for those that `MCPage` instantiates, in `MCPage`: besides bounds
being naturals they say that `Nothing`, `None` and `NoOption` are not ordinary values.

### Left to TLC

Liveness: `AnswersConverge`, `RunningEnds`, `DiscoveryEnds`, `EveryTileSettles`,
`PendingDrains`, `NewPositionWins`, `FieldCatchesUp`, `PageFollowsServer`,
`EveryRequestEnds`, `EveryProbeEnds`. TLAPS does not reason about `ENABLED`, which weak
and strong fairness are defined by. The five runs that expect a violation are
counterexamples, found by TLC on their instance.

## 6. Not modelled, and the plan

What is left, most important first:

1. Caches: TTL cap and retention sweep, upstream probe, `.idx` cache. What a sweep
   does to a tile is `LoseTile` of `TileService`.
2. Pure algorithms over bounded inputs: `.idx` parsing and byte ranges, hour ladder
   and nearest hour, wind barbs, TTL choice. The models have the ladders and
   choices they need as constants.
3. Runs for the leak contract of the animation loop and for the throttled discovery
   that reports an empty feed.

Not modelled by intent: static catalogs, colormaps, GRIB decoding and warping
(numerical, nothing concurrent), request validation, layout and legends, the
COG tiler (its state is the library's), proxies and service files. The branch
of the lock that grants it when the file cannot be opened is the code's stated
choice and is left out. `poller_fleet` contains the crash in the middle of a
warm-up, after which the row says "running" and no tick warms that cycle: no
document promises otherwise, so no property does.
