---------------------------- MODULE TileService ----------------------------
(***************************************************************************)
(* The tile pipeline of one worker process:                                *)
(*   backend/app/tiles/renderer.py  TileRenderer.render, _grid, _grid_lock *)
(*   backend/app/tiles/cache.py     GridCache (layer 1), TileCache (2)     *)
(*   backend/app/tiles/source.py    the "auto" data source                 *)
(*                                                                         *)
(* A tile is rendered from the decoded grid of its field (domain, cycle,   *)
(* element, hour).  Requests run on one event loop: code between two       *)
(* awaits is one step, every await ends one.  All that a payload shows     *)
(* here is its origin: NOAA's bucket or the synthetic source.  The cycles  *)
(* are past the latest one, so their tiles carry "immutable".              *)
(***************************************************************************)
EXTENDS Integers, FiniteSets, SequencesExt

CONSTANTS
    Requests,   \* the tile requests a worker has at once
    Fields,     \* the fields of the grid cache
    Tiles,      \* the tiles: pairs of a field and a place
    Fits,       \* the sets of fields whose grids keep to its max_bytes and max_entries
    MaxLocks,   \* 512, the bound of the lock table
    Asks,       \* bound: requests in a behaviour
    Faults,     \* bound: failures of S3, of a decode or a probe
    Losses,     \* bound: tiles that expire or are not stored, restarts
    NoLock, NoTile, NoSource

ASSUME TileServiceAssumption ==
    /\ IsFiniteSet(Requests) /\ IsFiniteSet(Fields)
    /\ \A t \in Tiles : t[1] \in Fields
    /\ Fits \subseteq SUBSET Fields /\ {} \in Fits
    /\ MaxLocks \in Nat
    /\ Asks \in Nat /\ Faults \in Nat /\ Losses \in Nat
    /\ NoLock \notin Nat

VARIABLES
    request,  \* request[r]: where its coroutine is
    locks,    \* _GRID_LOCKS
    queue,    \* queue[l]: the holder of a lock, then those that wait for it
    grids,    \* layer 1, from the least to the most recently used
    tiles,    \* layer 2, which survives the process
    source,   \* _AutoSource
    cleared,  \* ghost: the lock table has been cleared
    answers,  \* ghost: the origins of the answers given for a tile
    budget    \* what is left of the bounds

vars == <<request, locks, queue, grids, tiles, source, cleared, answers, budget>>

Origin == {"s3", "synthetic"}

\* A lock is named by a number: a lock that the table still has, or that some
\* request holds, is in use; the others are garbage and can be made again.
LockIds == 1..(Cardinality(Fields) + Cardinality(Requests))

\* lookup, fetch and render stand for several awaits each, between which nothing
\* that another request can see changes: message and decode, warp and store.
Stage == {"lookup", "missed", "queued", "probe", "fetch", "render"}

NoRequest == [stage |-> "idle"]

CachedFields == {grids[i].field : i \in DOMAIN grids}

TypeOK ==
    /\ request \in [Requests -> {NoRequest} \cup
           [stage : Stage, tile : Tiles, lock : LockIds \cup {NoLock},
            origin : Origin \cup {NoSource}]]
    /\ locks \in [Fields -> LockIds \cup {NoLock}]
    /\ queue \in [LockIds -> Seq(Requests)]
    /\ grids \in Seq([field : Fields, origin : Origin])
    /\ tiles \in [Tiles -> Origin \cup {NoTile}]
    /\ source \in [active : Origin \cup {NoSource}, degraded : BOOLEAN]
    /\ cleared \in BOOLEAN
    /\ answers \in [Tiles -> SUBSET Origin]
    /\ budget \in [asks : 0..Asks, faults : 0..Faults, losses : 0..Losses]
    \* the bounds the code sets itself
    /\ CachedFields \in Fits
    /\ Cardinality({f \in Fields : locks[f] # NoLock}) <= MaxLocks + 1

FreshSource == [active |-> NoSource, degraded |-> FALSE]

Init ==
    /\ request = [r \in Requests |-> NoRequest]
    /\ locks = [f \in Fields |-> NoLock]
    /\ queue = [l \in LockIds |-> <<>>]
    /\ grids = <<>>
    /\ tiles = [t \in Tiles |-> NoTile]
    /\ source = FreshSource
    /\ cleared = FALSE
    /\ answers = [t \in Tiles |-> {}]
    /\ budget = [asks |-> Asks, faults |-> Faults, losses |-> Losses]

-----------------------------------------------------------------------------
(***************************************************************************)
(* The caches and the lock table.                                          *)
(***************************************************************************)

Field(r) == request[r].tile[1]

Slot(f) == CHOOSE i \in DOMAIN grids : grids[i].field = f

GridOrigin(f) == grids[Slot(f)].origin

\* GridCache.put: a grid that would not fit alone is left out, and what is cached stays.
\* Else it is the newest entry, and as many of the oldest go as must.
Put(f, origin) ==
    LET others  == IF f \in CachedFields THEN RemoveAt(grids, Slot(f)) ELSE grids
        all     == Append(others, [field |-> f, origin |-> origin])
        From(n) == {all[i].field : i \in n..Len(all)}
    IN  IF {f} \notin Fits THEN grids' = grids
        ELSE \E n \in DOMAIN all :
                 /\ From(n) \in Fits /\ (n > 1 => From(n - 1) \notin Fits)
                 /\ grids' = SubSeq(all, n, Len(all))

\* get and peek: move_to_end.
Use(f) == grids' = Append(RemoveAt(grids, Slot(f)), grids[Slot(f)])

\* Mutant: the table is never cleared.
GridLocksUnbounded(f) ==
    LET inUse == {locks[g] : g \in Fields} \cup {l \in LockIds : queue[l] # <<>>}
        new   == CHOOSE l \in LockIds : l \notin inUse
    IN  IF locks[f] # NoLock THEN locks ELSE [locks EXCEPT ![f] = new]

\* _grid_lock: the lock of the field, made if need be; a table that has outgrown
\* its bound is cleared first.
GridLocks(f) ==
    LET inUse == {locks[g] : g \in Fields} \cup {l \in LockIds : queue[l] # <<>>}
        new   == CHOOSE l \in LockIds : l \notin inUse
        size  == Cardinality({g \in Fields : locks[g] # NoLock})
    IN  IF locks[f] # NoLock THEN locks
        ELSE [g \in Fields |-> IF g = f THEN new
                               ELSE IF size > MaxLocks THEN NoLock ELSE locks[g]]

-----------------------------------------------------------------------------
(***************************************************************************)
(* The steps of a request, from await to await.                            *)
(***************************************************************************)

At(r, stage) == request[r].stage = stage

Goes(r, stage) == request' = [request EXCEPT ![r].stage = stage]

Spend(what) == budget[what] > 0 /\ budget' = [budget EXCEPT ![what] = @ - 1]

Release(r) == queue' = [queue EXCEPT ![request[r].lock] = Tail(@)]

\* The request ends: its answer shows a payload of this origin, or none.
Ends(r) == request' = [request EXCEPT ![r] = NoRequest]

Answers(r, origin) ==
    /\ Ends(r)
    /\ answers' = [answers EXCEPT ![request[r].tile] = @ \cup {origin}]

\* The tile meets the domain: the layer 2 lookup goes to a thread.
Ask(r, t) ==
    /\ At(r, "idle")
    /\ Spend("asks")
    /\ request' = [request EXCEPT ![r] = [stage |-> "lookup", tile |-> t, lock |-> NoLock,
                                          origin |-> NoSource]]
    /\ UNCHANGED <<locks, queue, grids, tiles, source, cleared, answers>>

Lookup(r) ==
    /\ At(r, "lookup")
    /\ LET found == tiles[request[r].tile]
       IN  IF found # NoTile THEN Answers(r, found)
           ELSE Goes(r, "missed") /\ UNCHANGED answers
    /\ UNCHANGED <<locks, queue, grids, tiles, source, cleared, budget>>

\* The grid is cached: the warp goes to a thread.
UseGrid(r) ==
    /\ Field(r) \in CachedFields
    /\ request' = [request EXCEPT ![r].stage = "render", ![r].origin = GridOrigin(Field(r)),
                                  ![r].lock = NoLock]
    /\ Use(Field(r))

\* message: the first request of the process probes the bucket first.
StartFetch(r, lock) ==
    request' = [request EXCEPT ![r].stage = IF source.active = NoSource THEN "probe" ELSE "fetch",
                               ![r].origin = source.active,
                               ![r].lock = lock]

\* _grid up to its first await: a cached grid, else the lock of the field, else
\* (the lock is free, so nothing awaited since the cache was read) the source.
GetGrid(r) ==
    /\ At(r, "missed")
    /\ \/ UseGrid(r) /\ UNCHANGED <<locks, queue, cleared>>
       \/ /\ Field(r) \notin CachedFields
          /\ locks' = GridLocks(Field(r))
          /\ cleared' = (cleared \/ \E g \in Fields : locks[g] # NoLock /\ locks'[g] = NoLock)
          /\ LET lock == locks'[Field(r)]
             IN  /\ queue' = [queue EXCEPT ![lock] = Append(@, r)]
                 /\ IF queue[lock] = <<>> THEN StartFetch(r, lock)
                    ELSE request' = [request EXCEPT ![r].stage = "queued", ![r].lock = lock]
          /\ UNCHANGED grids
    /\ UNCHANGED <<tiles, source, answers, budget>>

\* The lock was passed on to a request that waited for it.
Acquire(r) ==
    /\ At(r, "queued")
    /\ queue[request[r].lock][1] = r
    /\ \/ UseGrid(r) /\ Release(r)
       \/ /\ Field(r) \notin CachedFields
          /\ StartFetch(r, request[r].lock)
          /\ UNCHANGED <<queue, grids>>
    /\ UNCHANGED <<locks, tiles, source, cleared, answers, budget>>

\* _probe answers; every request that found no source active has its own.
ProbeEnds(r, origin) ==
    /\ At(r, "probe")
    /\ IF origin = "s3" THEN UNCHANGED budget ELSE Spend("faults")
    /\ source' = [source EXCEPT !.active = origin]
    /\ request' = [request EXCEPT ![r].stage = "fetch", ![r].origin = origin]
    /\ UNCHANGED <<locks, queue, grids, tiles, cleared, answers>>

\* The message is fetched and decoded.
FetchEnds(r) ==
    /\ At(r, "fetch")
    /\ Put(Field(r), request[r].origin)
    /\ Release(r)
    /\ request' = [request EXCEPT ![r].stage = "render", ![r].lock = NoLock]
    /\ UNCHANGED <<locks, tiles, source, cleared, answers, budget>>

\* A LookupError from S3: the field is not in the index, or its bytes could not be
\* fetched.  The first one takes the process to the synthetic source, for good,
\* and is answered from there; a later one is raised.
FetchFallsBack(r) ==
    /\ At(r, "fetch") /\ request[r].origin = "s3"
    /\ Spend("faults")
    /\ source.active = "s3" /\ ~source.degraded
    /\ source' = [active |-> "synthetic", degraded |-> TRUE]
    /\ request' = [request EXCEPT ![r].origin = "synthetic"]
    /\ UNCHANGED <<locks, queue, grids, tiles, cleared, answers>>

\* Mutant: the lock is released on success only.
RaisesHolding(r) ==
    /\ At(r, "fetch") /\ request[r].origin = "s3"
    /\ Spend("faults")
    /\ Ends(r)
    /\ UNCHANGED <<queue, locks, grids, tiles, source, cleared, answers>>

\* The index cannot be read, S3 fails when there is no falling back, the message
\* does not decode: the exception leaves the lock and the request.
Raises(r) ==
    /\ At(r, "fetch") /\ request[r].origin = "s3"
    /\ Spend("faults")
    /\ Ends(r)
    /\ Release(r)
    /\ UNCHANGED <<locks, grids, tiles, source, cleared, answers>>

\* The tile is warped and stored.  TileCache.set swallows the backend's errors.
RenderEnds(r, stored) ==
    /\ At(r, "render")
    /\ IF stored THEN UNCHANGED budget ELSE Spend("losses")
    /\ tiles' = IF stored THEN [tiles EXCEPT ![request[r].tile] = request[r].origin] ELSE tiles
    /\ Answers(r, request[r].origin)
    /\ UNCHANGED <<locks, queue, grids, source, cleared>>

Step(r) ==
    \/ Lookup(r)
    \/ GetGrid(r)
    \/ Acquire(r)
    \/ \E origin \in Origin : ProbeEnds(r, origin)
    \/ FetchEnds(r)
    \/ FetchFallsBack(r)
    \/ Raises(r)
    \/ \E stored \in BOOLEAN : RenderEnds(r, stored)

\* A tile reaches its TTL or the retention sweep; a read of it fails.
LoseTile(t) ==
    /\ tiles[t] # NoTile
    /\ Spend("losses")
    /\ tiles' = [tiles EXCEPT ![t] = NoTile]
    /\ UNCHANGED <<request, locks, queue, grids, source, cleared, answers>>

\* The worker process dies and is started again.
Restart ==
    /\ source # FreshSource
    /\ Spend("losses")
    /\ request' = [r \in Requests |-> NoRequest]
    /\ locks' = [f \in Fields |-> NoLock]
    /\ queue' = [l \in LockIds |-> <<>>]
    /\ grids' = <<>>
    /\ source' = FreshSource
    /\ cleared' = FALSE
    /\ UNCHANGED <<tiles, answers>>

Next ==
    \/ \E r \in Requests, t \in Tiles : Ask(r, t)
    \/ \E r \in Requests : Step(r)
    \/ \E t \in Tiles : LoseTile(t)
    \/ Restart

\* Threads finish, HTTP requests end or time out, and the event loop runs every
\* coroutine that can go on.
Fairness == \A r \in Requests : WF_vars(Step(r))

Spec == Init /\ [][Next]_vars /\ Fairness

-----------------------------------------------------------------------------
(***************************************************************************)
(* Properties.                                                             *)
(***************************************************************************)

Flights(f) ==
    {r \in Requests : request[r].stage \in {"probe", "fetch"} /\ Field(r) = f}

\* "Layer-1 lookup, decoding at most once per key per process": whatever requests
\* overlap and fail, one of them at most fetches and decodes a field, and none
\* does so while the grid is in the cache, until the table of locks is cleared.
SingleFlight ==
    ~cleared => \A f \in Fields :
        /\ Cardinality(Flights(f)) <= 1
        /\ Flights(f) # {} => f \notin CachedFields

\* A request is answered or fails, even when those ahead of it fail and when the
\* table is cleared under the locks they hold.
EveryRequestEnds == \A r \in Requests : ~At(r, "idle") ~> At(r, "idle")

\* cache_control_headers: "once NOAA has moved on, a given (cycle, element, fhour)
\* tile can never change, so it is cacheable forever".
TileNeverChanges == \A t \in Tiles : Cardinality(answers[t]) <= 1
=============================================================================
