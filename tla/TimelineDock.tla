---------------------------- MODULE TimelineDock ----------------------------
(***************************************************************************)
(* The dock under the map: the scrub bar (frontend/src/components/         *)
(* timeline/TimelineBar.tsx), which several pointers may touch at a time,  *)
(* and the transport controls with their hotkeys (PlaybackControls.tsx).   *)
(* Of the engine behind them this module has what they show: the playhead, *)
(* the ladder, the speed.  Timeline has the rest.                          *)
(*                                                                         *)
(* A press, a release or a key is rendered before the next event; a move   *)
(* or a leave may be rendered later, and its handlers then still see the   *)
(* hover of the render before.                                             *)
(***************************************************************************)
EXTENDS Integers

CONSTANTS
    Pointers,          \* the mouse and the fingers
    Mouse,
    Counts,            \* lengths of the ladder
    MinFps, MaxFps,
    Nothing,
    Presses            \* bound: controls pressed, ladders received

VARIABLES
    bar,      \* playhead, length of the ladder, playback
    pointers, \* those over the track, those it has captured
    drag,     \* dragging; the hover rendered and the one set last; the index reported
    presses

vars == <<bar, pointers, drag, presses>>

Positions == 0..(CHOOSE n \in Counts : \A m \in Counts : m <= n) - 1

TypeOK ==
    /\ bar \in [index : Positions, count : Counts, playing : BOOLEAN, fps : MinFps..MaxFps,
                rocking : BOOLEAN]
    /\ bar.count > 0 => bar.index < bar.count
    /\ pointers \in [over : SUBSET Pointers, captured : SUBSET Pointers]
    /\ drag \in [dragging : BOOLEAN, hover : Positions \cup {Nothing},
                 next : Positions \cup {Nothing}, told : Positions \cup {Nothing}]
    /\ presses \in 0..Presses

Init ==
    /\ bar = [index |-> 0, count |-> CHOOSE n \in Counts : n > 1, playing |-> FALSE,
              fps |-> MinFps, rocking |-> FALSE]
    /\ pointers = [over |-> {}, captured |-> {}]
    /\ drag = [dragging |-> FALSE, hover |-> Nothing, next |-> Nothing, told |-> Nothing]
    /\ presses = Presses

\* clampIndex
Clamp(index, count) ==
    IF count = 0 \/ index < 0 THEN 0 ELSE IF index >= count THEN count - 1 ELSE index

SeekIndex(index) == bar' = [bar EXCEPT !.index = Clamp(index, bar.count)]

\* indexFromClientX: the frames that a position on the track can be.
Reachable == IF bar.count < 2 THEN {Nothing} ELSE 0..bar.count - 1

\* The effect that reports the active index to the preloader.
Report(d, index) == [d EXCEPT !.told = IF d.dragging THEN index ELSE d.hover]

-----------------------------------------------------------------------------
(***************************************************************************)
(* Pointers on the track.  A finger is over it only while it is down.      *)
(***************************************************************************)

PointerDown(p, next) ==
    /\ p \notin pointers.captured
    /\ pointers' = [over |-> pointers.over \cup {p}, captured |-> pointers.captured \cup {p}]
    /\ IF next = Nothing THEN UNCHANGED bar ELSE SeekIndex(next)
    /\ drag' = Report([drag EXCEPT !.dragging = TRUE], bar'.index)
    /\ UNCHANGED presses

\* Scrubbing seeks; hovering sets the hover if it differs from the one rendered.
PointerMove(p, next) ==
    /\ p = Mouse \/ p \in pointers.over
    /\ pointers' = [pointers EXCEPT !.over = @ \cup {p}]
    /\ LET scrubs == p \in pointers.captured \/ drag.dragging
       IN  /\ IF scrubs /\ next # Nothing THEN SeekIndex(next) ELSE UNCHANGED bar
           /\ drag' = IF next # Nothing /\ (scrubs \/ drag.hover # next)
                      THEN [drag EXCEPT !.next = next] ELSE drag
    /\ UNCHANGED presses

\* Mutant: the release does not end the drag.
EndDragKeepsDragging(p) ==
    /\ p \in pointers.captured
    /\ pointers' = [pointers EXCEPT !.captured = @ \ {p}]
    /\ UNCHANGED <<bar, drag, presses>>

\* pointerup, pointercancel: of any pointer, also if another one still drags.
EndDrag(p) ==
    /\ p \in pointers.captured
    /\ pointers' = [pointers EXCEPT !.captured = @ \ {p}]
    /\ drag' = Report([drag EXCEPT !.dragging = FALSE], bar.index)
    /\ UNCHANGED <<bar, presses>>

PointerLeave(p) ==
    /\ p \in pointers.over \ pointers.captured
    /\ pointers' = [pointers EXCEPT !.over = @ \ {p}]
    /\ drag' = IF drag.dragging THEN drag ELSE [drag EXCEPT !.next = Nothing]
    /\ UNCHANGED <<bar, presses>>

\* What moves have set is rendered; then the report.
Rendered == Report([drag EXCEPT !.hover = drag.next], bar.index)

Render ==
    /\ drag # Rendered
    /\ drag' = Rendered
    /\ UNCHANGED <<bar, pointers, presses>>

-----------------------------------------------------------------------------
(***************************************************************************)
(* Controls.                                                               *)
(***************************************************************************)

\* The playhead a control asks for, from where it is.
Targets ==
    [first |-> 0, last |-> bar.count - 1, back |-> bar.index - 1, forward |-> bar.index + 1]

\* Buttons that lead nowhere are disabled; the hotkeys of the same controls are not,
\* and the engine clamps.
Disabled(control) ==
    \/ control \in {"first", "back"} /\ (bar.count = 0 \/ bar.index = 0)
    \/ control \in {"last", "forward"} /\ (bar.count = 0 \/ bar.index >= bar.count - 1)

Press ==
    /\ presses > 0
    /\ presses' = presses - 1
    /\ UNCHANGED <<pointers, drag>>

Button(control) ==
    /\ ~Disabled(control)
    /\ SeekIndex(Targets[control])
    /\ Press

Hotkey(control) ==
    /\ SeekIndex(Targets[control])
    /\ Press

\* A day back or ahead: the frame nearest to an hour that many hours away, any frame,
\* as the ladder's hours are spaced and the playhead's stands.
JumpHours(index) ==
    /\ SeekIndex(index)
    /\ Press

\* Space or the button; a ladder of one frame does not play.
TogglePlay ==
    /\ bar' = [bar EXCEPT !.playing = ~@ /\ bar.count > 1]
    /\ Press

\* "[" and "]" ask for any speed, and the engine clamps; the buttons clamp themselves.
ChangeFps(delta) ==
    /\ bar' = [bar EXCEPT !.fps = IF @ + delta \in MinFps..MaxFps THEN @ + delta ELSE @]
    /\ Press

ToggleLoop ==
    /\ bar' = [bar EXCEPT !.rocking = ~@]
    /\ Press

\* Another ladder: the playhead is clamped, the hover stays as it is.
SetHours(count) ==
    /\ count # bar.count
    /\ bar' = [bar EXCEPT !.count = count, !.index = Clamp(@, count)]
    /\ Press

\* A frame of the playback, in either direction; a ladder too short ends it.
AdvanceFrame(index) ==
    /\ bar.playing
    /\ IF bar.count < 2 THEN bar' = [bar EXCEPT !.playing = FALSE]
       ELSE /\ index \in {(bar.index + 1) % bar.count} \cup
                         (IF bar.rocking THEN {Clamp(bar.index - 1, bar.count)} ELSE {})
            /\ SeekIndex(index)
    /\ UNCHANGED <<pointers, drag, presses>>

Next ==
    \/ \E p \in Pointers, next \in Reachable : PointerDown(p, next) \/ PointerMove(p, next)
    \/ \E p \in Pointers : EndDrag(p) \/ PointerLeave(p)
    \/ Render
    \/ \E control \in DOMAIN Targets : Button(control) \/ Hotkey(control)
    \/ \E index \in Positions : JumpHours(index)
    \/ TogglePlay
    \/ \E delta \in {-1, 1} : ChangeFps(delta)
    \/ ToggleLoop
    \/ \E count \in Counts : SetHours(count)
    \/ \E index \in Positions : AdvanceFrame(index)

Spec == Init /\ [][Next]_vars

-----------------------------------------------------------------------------
(***************************************************************************)
(* Properties.                                                             *)
(***************************************************************************)

\* However many pointers hover, drag, cross and leave: the bar takes itself for dragged
\* only while it holds a pointer, and once the last pointer has left and what was set is
\* rendered, no preview stays and none is reported to the preloader.
PreviewEnds ==
    /\ drag.dragging => pointers.captured # {}
    /\ pointers.over = {} =>
           /\ drag.next = Nothing
           /\ drag = Rendered => drag.hover = Nothing /\ drag.told = Nothing
=============================================================================
