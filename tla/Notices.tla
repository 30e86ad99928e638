------------------------------ MODULE Notices ------------------------------
(***************************************************************************)
(* How the page tells that something failed: the toasts of ToastProvider   *)
(* (frontend/components/common/ToastProvider.tsx), the watcher that turns  *)
(* failing tiles into one toast (components/map/TileErrorWatcher.tsx), and *)
(* the error boundary of a panel (components/common/ErrorBoundary.tsx).    *)
(*                                                                         *)
(* A panel renders one of Keys, its resetKey; a key whose data makes it    *)
(* throw is faulty.  Every toast the page pushes has a key and a delay.    *)
(***************************************************************************)
EXTENDS Naturals, SequencesExt

CONSTANTS
    Feed,       \* the key of the run feed's toasts
    Panel,      \* the label of the boundary
    Tiles,      \* keys element:hour:status of the watcher
    Keys,       \* what the panel renders
    Nothing,
    MaxVisible, \* MAX_VISIBLE
    Pushes      \* bound: toasts pushed

VARIABLES
    toasts,    \* the visible toasts, the newest last
    timers,    \* the timers armed: for which toast, by which push
    pushes,    \* pushes so far; the number of the first one is the id
    throttled, \* tile keys shown less than THROTTLE_MS ago
    panel,     \* the resetKey, and the one that the captured error is of
    faulty

vars == <<toasts, timers, pushes, throttled, panel, faulty>>

Sources == {Feed, Panel} \cup Tiles

TypeOK ==
    /\ toasts \in BoundedSeq([id : 1..Pushes, key : Sources, push : 1..Pushes], MaxVisible)
    /\ timers \subseteq [id : 1..Pushes, push : 1..Pushes]
    /\ pushes \in 0..Pushes
    /\ throttled \subseteq Tiles
    /\ panel \in [key : Keys, error : Keys \cup {Nothing}]
    /\ faulty \subseteq Keys
    /\ \A i, j \in DOMAIN toasts : toasts[i].id = toasts[j].id => i = j

Init ==
    /\ toasts = <<>>
    /\ timers = {}
    /\ pushes = 0
    /\ throttled = {}
    /\ panel = [key |-> CHOOSE k \in Keys : TRUE, error |-> Nothing]
    /\ faulty = {}

-----------------------------------------------------------------------------
(***************************************************************************)
(* push and dismiss.                                                       *)
(***************************************************************************)

Newest(s) == IF Len(s) > MaxVisible THEN Tail(s) ELSE s

\* No two toasts have the same id, so filtering by id takes at most one of them out.
Without(id) ==
    LET at == {i \in DOMAIN toasts : toasts[i].id = id}
    IN  IF at = {} THEN toasts ELSE RemoveAt(toasts, Min(at))

\* The toast with the key, the first one, is refreshed in place of a second one.
IdFor(key) ==
    LET same == {i \in DOMAIN toasts : toasts[i].key = key}
    IN  IF same = {} THEN pushes + 1 ELSE toasts[Min(same)].id

\* Mutant: the pending timer of a refreshed toast goes on.
RearmKeepsPending(id) == timers \cup {[id |-> id, push |-> pushes + 1]}

Rearm(id) == {t \in timers : t.id # id} \cup {[id |-> id, push |-> pushes + 1]}

Push(key) ==
    /\ pushes < Pushes
    /\ pushes' = pushes + 1
    /\ LET id == IdFor(key)
       IN  /\ toasts' = Newest(Append(Without(id), [id |-> id, key |-> key, push |-> pushes + 1]))
           /\ timers' = Rearm(id)

Dismiss(id) ==
    /\ timers' = {t \in timers : t.id # id}
    /\ toasts' = Without(id)

\* The x of a toast.
Close(toast) ==
    /\ Dismiss(toast.id)
    /\ UNCHANGED <<pushes, throttled, panel, faulty>>

\* The delay is over; the toast may have been pushed off the screen before.
TimerFires(timer) ==
    /\ Dismiss(timer.id)
    /\ UNCHANGED <<pushes, throttled, panel, faulty>>

-----------------------------------------------------------------------------
(***************************************************************************)
(* Who pushes.                                                             *)
(***************************************************************************)

FeedNotice ==
    /\ Push(Feed)
    /\ UNCHANGED <<throttled, panel, faulty>>

\* One toast for all tiles that fail alike.  Errors without a status, and benign ones,
\* are not reported.
OnError(tile) ==
    /\ tile \notin throttled
    /\ throttled' = throttled \cup {tile}
    /\ Push(tile)
    /\ UNCHANGED <<panel, faulty>>

ThrottleEnds(tile) ==
    /\ tile \in throttled
    /\ throttled' = throttled \ {tile}
    /\ UNCHANGED <<toasts, timers, pushes, panel, faulty>>

\* The panel renders: a throw is captured and, by a fresh fallback, announced.
Rendered(key, faults) ==
    IF key \in faults
    THEN panel' = [key |-> key, error |-> key] /\ Push(Panel)
    ELSE panel' = [key |-> key, error |-> Nothing] /\ UNCHANGED <<toasts, timers, pushes>>

\* Mutant: an error that was captured stays whatever is selected next.
SelectKeepsError(key) ==
    /\ key # panel.key
    /\ UNCHANGED <<throttled, faulty>>
    /\ IF panel.error = Nothing THEN Rendered(key, faulty)
       ELSE panel' = [panel EXCEPT !.key = key] /\ UNCHANGED <<toasts, timers, pushes>>

\* componentDidUpdate drops an error of another resetKey, and also one that the very
\* change of the resetKey has caused: the panel is then rendered a second time.
Select(key) ==
    /\ key # panel.key
    /\ UNCHANGED <<throttled, faulty>>
    /\ Rendered(key, faulty)

\* Data come that make a key throw, or render again.
DataChange(key) ==
    LET faults == IF key \in faulty THEN faulty \ {key} ELSE faulty \cup {key}
    IN  /\ faulty' = faults
        /\ UNCHANGED throttled
        /\ IF panel.error = Nothing /\ key = panel.key THEN Rendered(key, faults)
           ELSE UNCHANGED <<panel, toasts, timers, pushes>>

\* "Try again".
Retry ==
    /\ panel.error # Nothing
    /\ UNCHANGED <<throttled, faulty>>
    /\ Rendered(panel.key, faulty)

Next ==
    \/ \E toast \in ToSet(toasts) : Close(toast)
    \/ \E timer \in timers : TimerFires(timer)
    \/ FeedNotice
    \/ \E tile \in Tiles : OnError(tile) \/ ThrottleEnds(tile)
    \/ \E key \in Keys : Select(key) \/ DataChange(key)
    \/ Retry

Spec == Init /\ [][Next]_vars

-----------------------------------------------------------------------------
(***************************************************************************)
(* Properties.                                                             *)
(***************************************************************************)

\* "Toasts auto-dismiss, deduplicate by key": a visible toast has one timer, that of its
\* latest push, so that it neither stays for ever nor goes early; and no key shows twice.
ToastsAreTimed ==
    \A i \in DOMAIN toasts :
        /\ {t \in timers : t.id = toasts[i].id} = {[id |-> toasts[i].id, push |-> toasts[i].push]}
        /\ \A j \in DOMAIN toasts : toasts[j].key = toasts[i].key => i = j

\* "auto-clear a captured error": what a boundary reports as failed is what is selected
\* now, and a panel that is not reported can be rendered.
CrashIsCurrent ==
    IF panel.error = Nothing THEN panel.key \notin faulty ELSE panel.error = panel.key
=============================================================================
