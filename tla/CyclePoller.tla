----------------------------- MODULE CyclePoller -----------------------------
(***************************************************************************)
(* The active-cycle poller and the run pointer it maintains, in a fleet of *)
(* uvicorn worker processes over one cache directory:                      *)
(*   backend/app/cron/poller.py        poll tick, warm-up task             *)
(*   backend/app/core/pointer.py       shared pointer, per-process memo    *)
(*   backend/app/api/endpoints/runs.py live discovery in /runs/latest      *)
(*   backend/app/api/endpoints/poller_ops.py  POST /poller/poll            *)
(*   backend/app/scheduler.py, cron/lock.py   who polls in the background  *)
(*                                                                         *)
(* Atomicity.  Each worker is one event loop: code between two awaits is   *)
(* not interleaved with other code of that worker, but every access to the *)
(* shared cache is a step of its own for the other processes.  So a        *)
(* section "fetch_pointer ... publish_pointer" is two steps: the first     *)
(* leaves in pending[w] the pointer about to be written, and w does        *)
(* nothing else until Publish(w).  A discovery awaits, so it spans         *)
(* StartDiscovery and the step that uses its result.                       *)
(***************************************************************************)
EXTENDS NbmFeed

CONSTANTS
    Workers,        \* the worker processes
    Requesters,     \* the workers that receive HTTP requests
    Callers,        \* the callers of discover_latest_run this instance considers
    Failures,       \* the kinds of failure this instance considers
    Tiles,          \* the number of root tiles of one warm-up
    ProgressEvery,  \* WARMUP_PROGRESS_EVERY
    NoPointer, NoMemo, NoWarmup, NoTask, NoSnapshot, NoWorker

FailureKinds == {"probe", "cache", "tile", "bounds", "crash"}

\* Who discovers in a process.  The interval job (max_instances = 1), the startup
\* job (CACHE_WARMUP_ON_START) and the immediate poll of the daemon are three
\* coroutines, which overlap; so do any number of requests for a manual poll or,
\* while the pointer is not fresh, for /runs/latest.
Tick      == <<"tick", 1>>
Startup   == <<"startup", 1>>
Immediate == <<"immediate", 1>>
OneShots  == {Startup, Immediate}
Automatic == OneShots \cup {Tick}
Manual    == {"manual"} \X Nat
Live      == {"live"} \X Nat

\* WarmupProgress.  `of' is the cycle whose tiles the counters count: it is not
\* stored, the code takes it to be the cycle of the pointer.
Warmup  == [status : {"running", "done", "failed"}, of : Cycles]

Pointer == [cycle    : Cycles,
            hours    : SUBSET Hours,
            complete : BOOLEAN,
            warmup   : Warmup \cup {NoWarmup}]

Task    == [cycle : Cycles,
            stage : {"scheduled", "unbounded", "rendering"},
            good  : 0..Tiles,
            bad   : 0..Tiles]

ASSUME PollerAssumption ==
    /\ Requesters \subseteq Workers
    /\ Tick \in Callers
    /\ Callers \subseteq Automatic \cup Manual \cup Live
    /\ Failures \subseteq FailureKinds
    /\ Tiles \in Nat \ {0}
    /\ ProgressEvery \in Nat \ {0}
    /\ NoPointer \notin Pointer
    /\ NoMemo \notin Pointer \cup {NoPointer}
    /\ NoWarmup \notin Warmup
    /\ NoTask \notin Task
    /\ NoSnapshot \notin Feed
    /\ NoWorker \notin Workers

VARIABLES
    shared,     \* the pointer in the shared DiskCache
    memo,       \* memo[w]: the process memo _local
    pending,    \* pending[w]: the pointer w is about to publish
    discovery,  \* discovery[w][c]: the feed when the discovery of c began
    warmup,     \* warmup[w]: the process's _warmup_task
    rendered,   \* cycles with root tiles in the shared tile cache
    owner,      \* the worker that holds the poller lock
    up,         \* the workers that are running
    due,        \* due[w]: the one-shot polls of w that have not begun yet
    calm        \* no more posts or failures (for the liveness properties)

local == <<memo, pending, discovery, warmup>>
vars  == <<posted, shared, memo, pending, discovery, warmup, rendered, owner, up, due, calm>>

TypeOK ==
    /\ posted \in Feed
    /\ shared \in Pointer \cup {NoPointer}
    /\ memo \in [Workers -> Pointer \cup {NoPointer, NoMemo}]
    /\ pending \in [Workers -> Pointer \cup {NoPointer}]
    /\ discovery \in [Workers -> [Callers -> Feed \cup {NoSnapshot}]]
    /\ warmup \in [Workers -> Task \cup {NoTask}]
    /\ rendered \subseteq Cycles
    /\ owner \in Workers \cup {NoWorker}
    /\ up \subseteq Workers
    /\ due \in [Workers -> SUBSET (OneShots \cap Callers)]
    /\ calm \in BOOLEAN

NoDiscovery == [caller \in Callers |-> NoSnapshot]

Init ==
    /\ FeedInit
    /\ shared = NoPointer
    /\ memo = [w \in Workers |-> NoMemo]
    /\ pending = [w \in Workers |-> NoPointer]
    /\ discovery = [w \in Workers |-> NoDiscovery]
    /\ warmup = [w \in Workers |-> NoTask]
    /\ rendered = {}
    /\ owner = NoWorker
    /\ up = {}
    /\ due = [w \in Workers |-> {}]
    /\ calm = FALSE

-----------------------------------------------------------------------------
(***************************************************************************)
(* The pointer store.                                                      *)
(***************************************************************************)

Possible(failure) == failure \in Failures /\ ~calm

\* The event loop of w is free: not inside a synchronous section.
Idle(w) ==
    /\ w \in up
    /\ pending[w] = NoPointer
    /\ warmup[w] # NoTask => warmup[w].stage # "unbounded"

\* fetch_pointer: the memo while it is younger than five seconds, else the
\* cache, whose errors read as "no pointer".
FetchResults(w) ==
    IF memo[w] # NoMemo THEN {memo[w]}
    ELSE {shared} \cup (IF Possible("cache") THEN {NoPointer} ELSE {})

Remember(w, pointer) == memo' = [memo EXCEPT ![w] = pointer]

\* Mutant: only a memoised "no pointer" ever expires.
ExpireNothing(w) ==
    /\ memo[w] = NoPointer
    /\ Remember(w, NoMemo)
    /\ UNCHANGED <<posted, shared, pending, discovery, warmup, rendered, owner, up, due, calm>>

\* The memo of w grows older than _LOCAL_TTL_SECONDS.
ExpireMemo(w) ==
    /\ memo[w] # NoMemo
    /\ Remember(w, NoMemo)
    /\ UNCHANGED <<posted, shared, pending, discovery, warmup, rendered, owner, up, due, calm>>

\* Every endpoint that only reads the pointer: /runs/latest while it is fresh
\* (and before a live discovery when it is not), /poller/status, deep health.
ReadPointer(w) ==
    /\ Idle(w)
    /\ w \in Requesters
    /\ \E pointer \in FetchResults(w) : Remember(w, pointer)
    /\ UNCHANGED <<posted, shared, pending, discovery, warmup, rendered, owner, up, due, calm>>

\* publish_pointer writes the cache, whose failure is suppressed, then the memo.
Publish(w) ==
    /\ pending[w] # NoPointer
    /\ \/ shared' = pending[w]
       \/ Possible("cache") /\ UNCHANGED shared
    /\ Remember(w, pending[w])
    /\ pending' = [pending EXCEPT ![w] = NoPointer]
    /\ UNCHANGED <<posted, discovery, warmup, rendered, owner, up, due, calm>>

\* update_warmup: attach progress to whatever pointer the fetch returns, whether
\* or not it is a pointer to the cycle being warmed.
UpdateWarmup(w, status) ==
    \E current \in FetchResults(w) :
        /\ Remember(w, current)
        /\ pending' =
             IF current = NoPointer THEN pending
             ELSE [pending EXCEPT ![w] =
                     [current EXCEPT !.warmup =
                        [status |-> status, of |-> warmup[w].cycle]]]

-----------------------------------------------------------------------------
(***************************************************************************)
(* Discovery and the poll tick.                                            *)
(***************************************************************************)

\* The tick belongs to the holder of the lock, which is also due the one-shot
\* polls of its start; the others are asked for by requests.
MayDiscover(w, caller) ==
    CASE caller = Tick        -> owner = w
      [] caller \in OneShots  -> caller \in due[w]
      [] OTHER                -> w \in Requesters

StartDiscovery(w, caller) ==
    /\ Idle(w)
    /\ MayDiscover(w, caller)
    /\ discovery[w][caller] = NoSnapshot
    /\ discovery' = [discovery EXCEPT ![w][caller] = posted]
    /\ due' = [due EXCEPT ![w] = @ \ {caller}]
    /\ UNCHANGED <<posted, shared, memo, pending, warmup, rendered, owner, up, calm>>

Found(w, caller) ==
    Discoveries(discovery[w][caller], posted, Possible("probe"))

DiscoveryOver(w, caller) ==
    /\ Idle(w)
    /\ discovery[w][caller] # NoSnapshot
    /\ discovery' = [discovery EXCEPT ![w][caller] = NoSnapshot]
    /\ UNCHANGED <<posted, shared, rendered, owner, up, due, calm>>

\* discover_latest_run found nothing: keep the pointer, which is only read.
FindNothing(w, caller) ==
    /\ DiscoveryOver(w, caller)
    /\ NoRun \in Found(w, caller)
    /\ \E pointer \in FetchResults(w) : Remember(w, pointer)
    /\ UNCHANGED <<pending, warmup>>

PointerTo(run, progress) ==
    [cycle |-> run.cycle, hours |-> run.hours,
     complete |-> IsComplete(run.hours), warmup |-> progress]

SameCycle(run, previous) ==
    previous # NoPointer /\ previous.cycle = run.cycle

Changed(run, previous) ==
    ~SameCycle(run, previous) \/ previous.hours # run.hours

\* Mutant: a finished warm-up does not count.
AlreadyWarmRunning(run, previous) ==
    /\ SameCycle(run, previous)
    /\ previous.warmup # NoWarmup
    /\ previous.warmup.status = "running"

AlreadyWarm(run, previous) ==
    /\ SameCycle(run, previous)
    /\ previous.warmup # NoWarmup
    /\ previous.warmup.status \in {"running", "done"}

CarriedProgress(run, previous) ==
    IF SameCycle(run, previous) THEN previous.warmup ELSE NoWarmup

\* Mutant: a partial cycle is warmed too.
WarmupDueEarly(run, previous, asked) ==
    asked \/ (Changed(run, previous) /\ ~AlreadyWarm(run, previous))

WarmupDue(run, previous, asked) ==
    /\ IsComplete(run.hours)
    /\ asked \/ (Changed(run, previous) /\ ~AlreadyWarm(run, previous))

NewTask(cycle) == [cycle |-> cycle, stage |-> "scheduled", good |-> 0, bad |-> 0]

\* schedule_warmup: a task that is still running makes the call a no-op.
ScheduleWarmup(w, cycle) ==
    warmup' = IF warmup[w] = NoTask
              THEN [warmup EXCEPT ![w] = NewTask(cycle)]
              ELSE warmup

\* poll_active_cycle after its await, from the scheduler or from poll_now; the
\* latter then calls schedule_warmup itself for a complete cycle unless the
\* request says warm=false.
PollPublishes(w, caller) ==
    /\ caller \notin Live
    /\ DiscoveryOver(w, caller)
    /\ \E run \in Found(w, caller) \ {NoRun}, previous \in FetchResults(w),
          asked \in {FALSE, (caller \in Manual)} :
         /\ Remember(w, previous)
         /\ pending' = [pending EXCEPT ![w] =
                          PointerTo(run, CarriedProgress(run, previous))]
         /\ IF WarmupDue(run, previous, asked)
            THEN ScheduleWarmup(w, run.cycle)
            ELSE UNCHANGED warmup

\* latest_run after its await: publishes what it found, with no progress.
LivePublishes(w, caller) ==
    /\ caller \in Live
    /\ DiscoveryOver(w, caller)
    /\ \E run \in Found(w, caller) \ {NoRun} :
         pending' = [pending EXCEPT ![w] = PointerTo(run, NoWarmup)]
    /\ UNCHANGED <<memo, warmup>>

-----------------------------------------------------------------------------
(***************************************************************************)
(* The warm-up task.                                                       *)
(***************************************************************************)

InStage(w, stage) == warmup[w] # NoTask /\ warmup[w].stage = stage

Finished(task) == task.good + task.bad

\* First slice of warmup_run, up to the renders or, when the bounds of the
\* domain cannot be resolved, up to the update that says so.
WarmupBegins(w) ==
    /\ Idle(w)
    /\ InStage(w, "scheduled")
    /\ UpdateWarmup(w, "running")
    /\ \E stage \in {"rendering"} \cup (IF "bounds" \in Failures THEN {"unbounded"} ELSE {}) :
         warmup' = [warmup EXCEPT ![w].stage = stage]
    /\ UNCHANGED <<posted, shared, discovery, rendered, owner, up, due, calm>>

WarmupUnbounded(w) ==
    /\ w \in up
    /\ pending[w] = NoPointer
    /\ InStage(w, "unbounded")
    /\ UpdateWarmup(w, "failed")
    /\ warmup' = [warmup EXCEPT ![w] = NoTask]
    /\ UNCHANGED <<posted, shared, discovery, rendered, owner, up, due, calm>>

\* warm_one: a tile is rendered (or found cached); progress is published every
\* ProgressEvery tiles and after the last one.
TileRendered(w) ==
    /\ Idle(w)
    /\ InStage(w, "rendering")
    /\ Finished(warmup[w]) < Tiles
    /\ warmup' = [warmup EXCEPT ![w].good = @ + 1]
    /\ rendered' = rendered \cup {warmup[w].cycle}
    /\ LET done == Finished(warmup[w]) + 1
       IN  IF done % ProgressEvery = 0 \/ done = Tiles
           THEN UpdateWarmup(w, IF done < Tiles THEN "running" ELSE "done")
           ELSE UNCHANGED <<memo, pending>>
    /\ UNCHANGED <<posted, shared, discovery, owner, up, due, calm>>

\* warm_one: the render failed; counted, never published on the spot.
TileFailed(w) ==
    /\ Idle(w)
    /\ "tile" \in Failures
    /\ InStage(w, "rendering")
    /\ Finished(warmup[w]) < Tiles
    /\ warmup' = [warmup EXCEPT ![w].bad = @ + 1]
    /\ UNCHANGED <<posted, shared, memo, pending, discovery, rendered, owner, up, due, calm>>

\* Mutant: the errors are not looked at.
FinalStatusDone(task) == IF task.bad >= 0 THEN "done" ELSE "failed"

\* Mutant: a mixture of successes and errors gets a word of its own.
FinalStatusPartial(task) ==
    IF task.bad = 0 THEN "done" ELSE IF task.good = 0 THEN "failed" ELSE "partial"

FinalStatus(task) ==
    IF task.bad > 0 /\ task.good = 0 THEN "failed" ELSE "done"

\* Mutant: the task relies on the progress published by its last tile.
WarmupEndsSilently(w) ==
    /\ Idle(w)
    /\ InStage(w, "rendering")
    /\ Finished(warmup[w]) = Tiles
    /\ warmup' = [warmup EXCEPT ![w] = NoTask]
    /\ UNCHANGED <<posted, shared, memo, pending, discovery, rendered, owner, up, due, calm>>

\* Last slice of warmup_run, after every tile.
WarmupEnds(w) ==
    /\ Idle(w)
    /\ InStage(w, "rendering")
    /\ Finished(warmup[w]) = Tiles
    /\ UpdateWarmup(w, FinalStatus(warmup[w]))
    /\ warmup' = [warmup EXCEPT ![w] = NoTask]
    /\ UNCHANGED <<posted, shared, discovery, rendered, owner, up, due, calm>>

-----------------------------------------------------------------------------
(***************************************************************************)
(* Processes.                                                              *)
(***************************************************************************)

\* What the process that polls does once after its start; only the standalone
\* daemon, which serves no requests, polls at once as well.
FirstPolls(w) ==
    Callers \cap (IF w \in Requesters THEN {Startup} ELSE OneShots)

\* Mutant: the lock is granted to every process that asks for it.
BootUnlocked(w) ==
    /\ w \notin up
    /\ up' = up \cup {w}
    /\ owner' = w
    /\ due' = [due EXCEPT ![w] = FirstPolls(w)]
    /\ UNCHANGED <<posted, shared, local, rendered, calm>>

\* start_scheduler, _run_forever: the lock is asked for once, when the process
\* starts.
Boot(w) ==
    /\ w \notin up
    /\ up' = up \cup {w}
    /\ IF owner = NoWorker
       THEN owner' = w /\ due' = [due EXCEPT ![w] = FirstPolls(w)]
       ELSE UNCHANGED <<owner, due>>
    /\ UNCHANGED <<posted, shared, local, rendered, calm>>

\* A process dies: its memory is gone, the OS releases its flock.
Crash(w) ==
    /\ Possible("crash")
    /\ w \in up
    /\ up' = up \ {w}
    /\ owner' = IF owner = w THEN NoWorker ELSE owner
    /\ due' = [due EXCEPT ![w] = {}]
    /\ memo' = [memo EXCEPT ![w] = NoMemo]
    /\ pending' = [pending EXCEPT ![w] = NoPointer]
    /\ discovery' = [discovery EXCEPT ![w] = NoDiscovery]
    /\ warmup' = [warmup EXCEPT ![w] = NoTask]
    /\ UNCHANGED <<posted, shared, rendered, calm>>

NoaaPosts(c, h) ==
    /\ ~calm
    /\ PostHour(c, h)
    /\ UNCHANGED <<shared, local, rendered, owner, up, due, calm>>

Settle ==
    /\ ~calm
    /\ calm' = TRUE
    /\ UNCHANGED <<posted, shared, local, rendered, owner, up, due>>

-----------------------------------------------------------------------------
WorkerStep(w) ==
    \/ ExpireMemo(w)
    \/ ReadPointer(w)
    \/ Publish(w)
    \/ \E caller \in Callers : StartDiscovery(w, caller)
    \/ \E caller \in Callers : FindNothing(w, caller)
    \/ \E caller \in Callers : PollPublishes(w, caller)
    \/ \E caller \in Callers : LivePublishes(w, caller)
    \/ WarmupBegins(w)
    \/ WarmupUnbounded(w)
    \/ TileRendered(w)
    \/ TileFailed(w)
    \/ WarmupEnds(w)
    \/ Boot(w)
    \/ Crash(w)

Next ==
    \/ \E c \in Cycles, h \in Hours : NoaaPosts(c, h)
    \/ \E w \in Workers : WorkerStep(w)

Spec == Init /\ [][Next]_vars

\* What the scheduling gives.  asyncio runs every coroutine that is ready in its
\* turn: SF, because a synchronous section of one disables the others for a
\* moment.  APScheduler starts a tick at every interval and HTTP probes time
\* out; a supervisor restarts a dead worker; the memo ages.
DiscoveryEnds(w, caller) ==
    FindNothing(w, caller) \/ PollPublishes(w, caller) \/ LivePublishes(w, caller)

WarmupLoop(w) ==
    WarmupBegins(w) \/ WarmupUnbounded(w) \/ TileRendered(w) \/ TileFailed(w) \/ WarmupEnds(w)

Fairness ==
    \A w \in Workers :
        /\ WF_vars(Boot(w) \/ Publish(w))
        /\ WF_vars(ExpireMemo(w))
        /\ SF_vars(StartDiscovery(w, Tick) \/ DiscoveryEnds(w, Tick))
        /\ \A caller \in Callers \ {Tick} : SF_vars(DiscoveryEnds(w, caller))
        /\ SF_vars(WarmupLoop(w))

\* The liveness properties are about behaviours that may come to rest.
FairSpec == Init /\ [][Next \/ Settle]_vars /\ Fairness

-----------------------------------------------------------------------------
(***************************************************************************)
(* Properties.                                                             *)
(***************************************************************************)

\* Every copy of the pointer in the fleet.
Copies ==
    ({shared} \cup {memo[w] : w \in Workers} \cup {pending[w] : w \in Workers})
        \ {NoPointer, NoMemo}

\* Whatever the interleaving of polls, live discoveries and read-modify-writes
\* of warm-up progress, no copy of the pointer advertises a forecast hour NOAA
\* has not posted, and "complete" says exactly that the core window is there.
PointerTruthful ==
    \A p \in Copies :
        /\ p.hours # {}
        /\ p.hours \subseteq posted[p.cycle]
        /\ p.complete <=> Window \subseteq p.hours

\* Root tiles are only warmed for a cycle whose whole core window is in the
\* bucket, even when the poll that scheduled the task read a stale pointer.
WarmupHasItsWindow ==
    \A w \in Workers : warmup[w] # NoTask => Window \subseteq posted[warmup[w].cycle]

\* A pointer says a warm-up is done only if the task that wrote it cached at
\* least one tile: a warm-up whose tiles all failed reports "failed".
DoneMeansRendered ==
    \A p \in Copies :
        p.warmup # NoWarmup /\ p.warmup.status = "done" => p.warmup.of \in rendered

InBackground(w) ==
    \/ warmup[w] # NoTask
    \/ \E caller \in Callers \cap Automatic : discovery[w][caller] # NoSnapshot

\* lock.py: one process of the machine polls, so that workers neither multiply the
\* traffic nor race on warm-up.  Through every crash and restart, no two processes
\* are polling by themselves or warming tiles at a time (nobody polling by hand).
PollerIsAlone ==
    \A v, w \in Workers : InBackground(v) /\ InBackground(w) => v = w

\* What a request to w is answered with while no failure intervenes.
Answer(w) == IF memo[w] # NoMemo THEN memo[w] ELSE shared

\* The answer of w is the newest cycle with a posted f001, with all its hours.
UpToDate(w) ==
    \A c \in Cycles :
        (1 \in posted[c] /\ \A d \in Cycles : d > c => 1 \notin posted[d]) =>
            /\ Answer(w) # NoPointer
            /\ Answer(w).cycle = c
            /\ Answer(w).hours = posted[c]

\* Once NOAA and the failures pause, every worker comes to answer with the
\* newest cycle and stays there: stale memos, late discoveries and the old
\* pointers that progress updates write back all wash out.
AnswersConverge == <>[](calm => \A w \in up : UpToDate(w))

AtLeast(pointer, run) ==
    \/ pointer.cycle > run.cycle
    \/ pointer.cycle = run.cycle /\ run.hours \subseteq pointer.hours

Shows(feed, run) == 1 \in feed[run.cycle] /\ run.hours \subseteq feed[run.cycle]

\* The pointer tells of run, and whatever may still be published does: memos,
\* pointers about to be written, discoveries under way by what they saw at first.
CaughtUp(run) ==
    /\ Shows(posted, run)
    /\ shared # NoPointer /\ AtLeast(shared, run)
    /\ \A w \in Workers :
         /\ memo[w] \notin {NoPointer, NoMemo} => AtLeast(memo[w], run)
         /\ pending[w] # NoPointer => AtLeast(pending[w], run)
         /\ \A caller \in Callers :
              discovery[w][caller] # NoSnapshot => Shows(discovery[w][caller], run)

\* Once nothing under way is older than a run, the pointer never again falls behind
\* that run, unless a probe fails: polls, live discoveries and progress updates of
\* all processes may overlap and end in any order, die, or fail to write.
CaughtUpStays ==
    [][ \A run \in Run : CaughtUp(run) /\ ~Possible("probe") => CaughtUp(run)' ]_vars

\* pointer.py: the pointer is the newest cycle the poller has positively observed.
\* So it would not go back to an older cycle or to fewer hours of the same one; it
\* does, when two polls of one process overlap and the older one ends last.
PointerNeverRegresses ==
    [][ shared # NoPointer => shared' # NoPointer /\ AtLeast(shared', shared) ]_shared

\* No poll, however many overlap in the process that polls, warms again a cycle
\* whose own warm-up the pointer records as running or done; only a manual poll
\* does, which is asked to.
NoRepeatedWarmup ==
    [][ \A w \in Workers :
          /\ warmup[w] = NoTask /\ warmup'[w] # NoTask
          /\ \A caller \in Callers \cap Manual : discovery'[w][caller] = discovery[w][caller]
          => ~ /\ shared # NoPointer
               /\ shared.warmup # NoWarmup
               /\ shared.warmup.of = shared.cycle
               /\ shared.cycle = warmup'[w].cycle
               /\ shared.warmup.status \in {"running", "done"}
      ]_warmup

\* "running" does not stay on the pointer: the task ends and says how, also when
\* its last tile failed and so published no progress.
SaysRunning == shared # NoPointer /\ shared.warmup # NoWarmup /\ shared.warmup.status = "running"
RunningEnds == SaysRunning ~> ~SaysRunning

\* schedule_warmup: a cycle skipped because another warm-up was running is warmed
\* by the next tick: a tick that publishes a complete cycle of which no warm-up
\* has left a trace, with no task running, starts one.
NextTickRetries ==
    [][ \A w \in Workers :
          /\ discovery[w][Tick] # NoSnapshot /\ discovery'[w][Tick] = NoSnapshot
          /\ pending'[w] # NoPointer
          /\ pending'[w].complete
          /\ pending'[w].warmup = NoWarmup \/ pending'[w].warmup.of # pending'[w].cycle
          => warmup'[w] # NoTask
      ]_vars
=============================================================================
