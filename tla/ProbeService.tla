---------------------------- MODULE ProbeService ----------------------------
(***************************************************************************)
(* The probe of one worker process (backend/app/probe/service.py), next to *)
(* the tile pipeline with which it shares the grid cache and the data      *)
(* source: point probes and meteograms, which sample cells (a field at a   *)
(* place) behind a semaphore and remember the values, and wind fields,     *)
(* which load two whole grids.                                             *)
(*                                                                         *)
(* As in TileService a step ends at an await, and a payload is its origin. *)
(***************************************************************************)
EXTENDS TileService

CONSTANTS
    Probers,    \* the probe requests a worker has at once
    Places,
    Sampled,    \* the fields of the elements that probes sample
    WindFields, \* u10 and v10
    Permits,    \* max_concurrency
    MaxValues,  \* max_entries of the value cache
    Calls,      \* bound: probe requests in a behaviour
    WholeGrid, NoProber, NoValue

ASSUME ProbeServiceAssumption ==
    /\ IsFiniteSet(Places)
    /\ Sampled \subseteq Fields
    /\ WindFields \subseteq Fields
    /\ Permits \in Nat \ {0}
    /\ MaxValues \in Nat \ {0}
    /\ Calls \in Nat
    /\ WholeGrid \notin Places
    /\ NoProber \notin Probers
    /\ NoValue \notin Origin

VARIABLES
    calls,   \* calls[p]: what the request p waits for
    tasks,   \* the coroutines given to asyncio.gather
    permits, \* what is left of the semaphore
    values,  \* _ValueCache
    callsLeft

serviceVars == <<calls, tasks, permits, values, callsLeft>>

workerVars == <<vars, serviceVars>>

Cells == Sampled \X Places

\* A task of a wind field is for a whole grid.  The others of a wind request that
\* failed go on, for no request.
Tasks == [of : Probers \cup {NoProber}, cell : Fields \X (Places \cup {WholeGrid}),
          stage : {"waiting", "probe", "fetch"}, origin : Origin \cup {NoSource}]

Samples(task) == task.cell[2] # WholeGrid

WorkerTypeOK ==
    /\ TypeOK
    /\ calls \in [Probers -> {"idle", "samples", "grids", "interpolation"}]
    /\ tasks \subseteq Tasks
    /\ values \in [Cells -> Origin \cup {NoValue}]
    /\ callsLeft \in 0..Calls
    \* the bounds the code sets itself
    /\ permits \in 0..Permits
    /\ Cardinality({c \in Cells : values[c] # NoValue}) <= MaxValues

NoCalls == [p \in Probers |-> "idle"]

NoValues == [c \in Cells |-> NoValue]

WorkerInit ==
    /\ Init
    /\ calls = NoCalls
    /\ tasks = {}
    /\ permits = Permits
    /\ values = NoValues
    /\ callsLeft = Calls

-----------------------------------------------------------------------------
(***************************************************************************)
(* Requests.                                                               *)
(***************************************************************************)

Begins(p, what, cells) ==
    /\ calls[p] = "idle"
    /\ callsLeft > 0
    /\ callsLeft' = callsLeft - 1
    /\ calls' = IF cells = {} THEN calls ELSE [calls EXCEPT ![p] = what]
    /\ tasks' = tasks \cup
           {[of |-> p, cell |-> c, stage |-> "waiting", origin |-> NoSource] : c \in cells}
    /\ UNCHANGED <<permits, values, grids, source, budget>>

\* probe_point and probe_meteogram: a task for each cell that the value cache lacks.
ProbeCells(p, asked) == Begins(p, "samples", {c \in asked : values[c] = NoValue})

ProbeWind(p) == Begins(p, "grids", WindFields \X {WholeGrid})

\* The interpolation of a wind field, in a thread.
Interpolated(p) ==
    /\ calls[p] = "interpolation"
    /\ calls' = [calls EXCEPT ![p] = "idle"]
    /\ UNCHANGED <<tasks, permits, values, callsLeft, grids, source, budget>>

-----------------------------------------------------------------------------
(***************************************************************************)
(* Tasks.                                                                  *)
(***************************************************************************)

Siblings(task) == {u \in tasks \ {task} : u.of = task.of}

\* The task has its grid.  The last one lets the request go on.
Completes(task) ==
    /\ tasks' = tasks \ {task}
    /\ calls' = IF task.of = NoProber \/ Siblings(task) # {} THEN calls
                ELSE [calls EXCEPT ![task.of] = IF Samples(task) THEN "idle" ELSE "interpolation"]

\* The task raises.  gather turns the exception of a sample into a nodata, and the
\* request waits for the others; that of a grid ends the request at once.
Fails(task) ==
    IF Samples(task) \/ task.of = NoProber THEN Completes(task)
    ELSE /\ tasks' = (tasks \ ({task} \cup Siblings(task))) \cup
                         {[u EXCEPT !.of = NoProber] : u \in Siblings(task)}
         /\ calls' = [calls EXCEPT ![task.of] = "idle"]

\* _ValueCache.put; when it is full another entry goes (any, instead of the oldest).
Remembered(cell, origin) ==
    LET all   == [values EXCEPT ![cell] = origin]
        known == {c \in Cells : all[c] # NoValue}
    IN  IF Cardinality(known) <= MaxValues THEN {all}
        ELSE {[all EXCEPT ![c] = NoValue] : c \in known \ {cell}}

Sample(task, origin) ==
    IF Samples(task) THEN values' \in Remembered(task.cell, origin) ELSE UNCHANGED values

\* The semaphore when a task leaves it; grids are loaded without it.
Left(task) == IF Samples(task) THEN permits + 1 ELSE permits

\* _load_grid up to its first await: a grid of the tile cache is sampled at once.
LoadGrid(task) ==
    /\ task.stage = "waiting"
    /\ Samples(task) => permits > 0
    /\ \/ /\ task.cell[1] \in CachedFields
          /\ Sample(task, GridOrigin(task.cell[1]))
          /\ Use(task.cell[1])
          /\ Completes(task)
          /\ UNCHANGED permits
       \/ /\ task.cell[1] \notin CachedFields
          /\ tasks' = (tasks \ {task}) \cup
                 {[task EXCEPT !.stage = IF source.active = NoSource THEN "probe" ELSE "fetch",
                               !.origin = source.active]}
          /\ permits' = IF Samples(task) THEN permits - 1 ELSE permits
          /\ UNCHANGED <<values, grids, calls>>
    /\ UNCHANGED <<source, budget, callsLeft>>

\* _AutoSource.grid finds no active source and probes the bucket, as message does.
BucketAnswers(task, origin) ==
    /\ task.stage = "probe"
    /\ IF origin = "s3" THEN UNCHANGED budget ELSE Spend("faults")
    /\ source' = [source EXCEPT !.active = origin]
    /\ tasks' = (tasks \ {task}) \cup {[task EXCEPT !.stage = "fetch", !.origin = origin]}
    /\ UNCHANGED <<calls, permits, values, callsLeft, grids>>

\* Mutant: the grid goes into the tile pipeline's cache.
GridLoadsCaching(task) ==
    /\ task.stage = "fetch"
    /\ Sample(task, task.origin)
    /\ Completes(task)
    /\ permits' = Left(task)
    /\ Put(task.cell[1], task.origin)
    /\ UNCHANGED <<callsLeft, source, budget>>

\* The grid has come and is sampled; it is not put into the tile pipeline's cache.
GridLoads(task) ==
    /\ task.stage = "fetch"
    /\ Sample(task, task.origin)
    /\ Completes(task)
    /\ permits' = Left(task)
    /\ UNCHANGED <<callsLeft, grids, source, budget>>

\* A LookupError from S3, with the fallback of _AutoSource.
LoadFallsBack(task) ==
    /\ task.stage = "fetch" /\ task.origin = "s3"
    /\ Spend("faults")
    /\ source.active = "s3" /\ ~source.degraded
    /\ source' = [active |-> "synthetic", degraded |-> TRUE]
    /\ tasks' = (tasks \ {task}) \cup {[task EXCEPT !.origin = "synthetic"]}
    /\ UNCHANGED <<calls, permits, values, callsLeft, grids>>

\* Mutant: the semaphore is left on success only.
LoadRaisesHolding(task) ==
    /\ task.stage = "fetch" /\ task.origin = "s3"
    /\ Spend("faults")
    /\ Fails(task)
    /\ UNCHANGED <<permits, values, callsLeft, grids, source>>

\* The fetch or the decode raises.
LoadRaises(task) ==
    /\ task.stage = "fetch" /\ task.origin = "s3"
    /\ Spend("faults")
    /\ Fails(task)
    /\ permits' = Left(task)
    /\ UNCHANGED <<values, callsLeft, grids, source>>

TaskStep(task) ==
    \/ LoadGrid(task)
    \/ \E origin \in Origin : BucketAnswers(task, origin)
    \/ GridLoads(task)
    \/ LoadFallsBack(task)
    \/ LoadRaises(task)

-----------------------------------------------------------------------------
(***************************************************************************)
(* The worker: tiles and probes.                                           *)
(***************************************************************************)

ProbeServiceNext ==
    /\ \/ \E p \in Probers, asked \in SUBSET Cells \ {{}} : ProbeCells(p, asked)
       \/ \E p \in Probers : ProbeWind(p)
       \/ \E p \in Probers : Interpolated(p)
       \/ \E task \in tasks : TaskStep(task)
    /\ UNCHANGED <<request, locks, queue, tiles, cleared, answers>>

WorkerRestarts ==
    /\ Restart
    /\ calls' = NoCalls
    /\ tasks' = {}
    /\ permits' = Permits
    /\ values' = NoValues
    /\ UNCHANGED callsLeft

WorkerNext ==
    \/ \E r \in Requests, t \in Tiles : Ask(r, t) /\ UNCHANGED serviceVars
    \/ \E r \in Requests : Step(r) /\ UNCHANGED serviceVars
    \/ \E t \in Tiles : LoseTile(t) /\ UNCHANGED serviceVars
    \/ ProbeServiceNext
    \/ WorkerRestarts

\* What a request waits for: one of its tasks, or the interpolation.
CallStep(p) ==
    /\ Interpolated(p) \/ \E task \in tasks : task.of = p /\ TaskStep(task)
    /\ UNCHANGED <<request, locks, queue, tiles, cleared, answers>>

WorkerFairness ==
    /\ \A r \in Requests : WF_workerVars(Step(r) /\ UNCHANGED serviceVars)
    /\ \A p \in Probers : WF_workerVars(CallStep(p))

WorkerSpec == WorkerInit /\ [][WorkerNext]_workerVars /\ WorkerFairness

-----------------------------------------------------------------------------
(***************************************************************************)
(* Properties.                                                             *)
(***************************************************************************)

\* A probe is answered, however many of its samples fail, whatever others wait for
\* the semaphore, and although the tile pipeline changes cache and source under it.
EveryProbeEnds == \A p \in Probers : calls[p] # "idle" ~> calls[p] = "idle"
=============================================================================
