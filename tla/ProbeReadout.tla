---------------------------- MODULE ProbeReadout ----------------------------
(***************************************************************************)
(* The cursor readout (frontend/components/map/ProbeReadout.tsx): moving   *)
(* the mouse over the map probes the value under the cursor.  Moves near   *)
(* the probed point are coalesced, a far one aborts the probe under way.   *)
(*                                                                         *)
(* The screen is a line of pixels; a question is a point and the forecast  *)
(* hour of the page (domain, cycle, element and units change alike).       *)
(***************************************************************************)
EXTENDS Integers

CONSTANTS
    Points,   \* the pixels of the line
    Jump,     \* PROBE_JUMP_PX
    Hours,
    Nothing,
    Probes,        \* bound: probes of one mount
    ProbeRemounts  \* bound: times the map is torn down and built again

ASSUME ProbeAssumption ==
    /\ Points \subseteq Int
    /\ Jump \in Nat \ {0}
    /\ Probes \in Nat
    /\ ProbeRemounts \in Nat

Questions == Points \X Hours

ASSUME NothingAssumption == Nothing \notin Points /\ Nothing \notin Questions

VARIABLES
    hour,    \* the page's forecast hour, which paramsRef follows
    mouse,   \* the cursor: its point, and whether the button drags the map
    refs,    \* the refs of the component
    flights, \* the requests on the wire
    readout, \* the question the badge shows the answer of, or a note about
    remounts

probeVars == <<hour, mouse, refs, flights, readout, remounts>>

\* A fresh component.  "recent": less than PROBE_MIN_INTERVAL_MS since the last
\* request.  "inFlight" is the question of the controller kept in inFlightRef.
CleanRefs == [hovering |-> FALSE, dragging |-> FALSE, last |-> Nothing,
              recent |-> FALSE, inFlight |-> Nothing, seq |-> 0]

Flights == [seq : 1..Probes, ask : Questions, aborted : BOOLEAN]

ProbeTypeOK ==
    /\ hour \in Hours
    /\ mouse \in [at : Points, held : BOOLEAN]
    /\ refs \in [hovering : BOOLEAN, dragging : BOOLEAN, last : Points \cup {Nothing},
                 recent : BOOLEAN, inFlight : Questions \cup {Nothing}, seq : 0..Probes]
    /\ flights \subseteq Flights
    /\ readout \in Questions \cup {Nothing}
    /\ remounts \in 0..ProbeRemounts

ProbeInit ==
    /\ hour \in Hours
    /\ mouse \in [at : Points, held : {FALSE}]
    /\ refs = CleanRefs
    /\ flights = {}
    /\ readout = Nothing
    /\ remounts = ProbeRemounts

-----------------------------------------------------------------------------
(***************************************************************************)
(* The functions of the effect.                                            *)
(***************************************************************************)

Far(x, y) == x - y >= Jump \/ y - x >= Jump

\* controller.abort(): the request of inFlightRef answers with an AbortError.
Aborted == {[f EXCEPT !.aborted = TRUE] : f \in flights}

HideBadge(r) == [r EXCEPT !.hovering = FALSE, !.inFlight = Nothing]

FireProbe(r, x) ==
    /\ r.seq < Probes
    /\ refs' = [r EXCEPT !.last = x, !.recent = TRUE, !.seq = @ + 1,
                         !.inFlight = <<x, hour>>]
    /\ flights' = Aborted \cup
           {[seq |-> r.seq + 1, ask |-> <<x, hour>>, aborted |-> FALSE]}

Jumped(x) == refs.last # Nothing /\ Far(x, refs.last)

\* The two early returns of onMouseMove.
Coalesces(x) ==
    \/ refs.inFlight = Nothing /\ refs.recent /\ ~Jumped(x)
    \/ refs.inFlight # Nothing /\ ~Jumped(x)

-----------------------------------------------------------------------------
(***************************************************************************)
(* The mouse.  MapLibre goes on dragging while the button is held, also    *)
(* when the cursor has left the canvas and comes back.                     *)
(***************************************************************************)

OnMouseMove(x) ==
    /\ mouse' = [mouse EXCEPT !.at = x]
    /\ UNCHANGED <<hour, readout, remounts>>
    /\ \/ refs.dragging /\ UNCHANGED <<refs, flights>>
       \/ /\ ~refs.dragging
          /\ Coalesces(x)
          /\ refs' = [refs EXCEPT !.hovering = TRUE]
          /\ UNCHANGED flights
       \/ /\ ~refs.dragging
          /\ ~Coalesces(x)
          /\ FireProbe([refs EXCEPT !.hovering = TRUE], x)

OnDragStart ==
    /\ ~mouse.held
    /\ mouse' = [mouse EXCEPT !.held = TRUE]
    /\ refs' = HideBadge([refs EXCEPT !.dragging = TRUE])
    /\ flights' = Aborted
    /\ readout' = Nothing
    /\ UNCHANGED <<hour, remounts>>

OnDragEnd ==
    /\ mouse.held
    /\ mouse' = [mouse EXCEPT !.held = FALSE]
    /\ refs' = [refs EXCEPT !.dragging = FALSE, !.last = Nothing, !.recent = FALSE]
    /\ UNCHANGED <<hour, flights, readout, remounts>>

\* The cursor leaves the canvas, with the button held or not.
OnMouseLeave ==
    /\ refs' = HideBadge([refs EXCEPT !.dragging = FALSE])
    /\ flights' = Aborted
    /\ readout' = Nothing
    /\ UNCHANGED <<hour, mouse, remounts>>

IntervalPasses ==
    /\ refs.recent
    /\ refs' = [refs EXCEPT !.recent = FALSE]
    /\ UNCHANGED <<hour, mouse, flights, readout, remounts>>

-----------------------------------------------------------------------------
(***************************************************************************)
(* The page and the server.                                                *)
(***************************************************************************)

ShowHour(h) ==
    /\ h # hour
    /\ hour' = h
    /\ UNCHANGED <<mouse, refs, flights, readout, remounts>>

\* Mutant: every answer is used.
HeedsAny(flight) == TRUE

\* The guards of then and catch: an aborted request rejects with an AbortError,
\* and an answer that another probe overtook is ignored.
Heeds(flight) == ~flight.aborted /\ flight.seq = refs.seq

\* A value, or a note about the failure: both replace what the badge shows.
Answer(flight) ==
    /\ flights' = flights \ {flight}
    /\ readout' = IF Heeds(flight) THEN flight.ask ELSE readout
    /\ UNCHANGED <<hour, mouse, refs, remounts>>

\* The error boundary drops the map and the component; it is mounted afresh.
Remount ==
    /\ remounts > 0
    /\ remounts' = remounts - 1
    /\ refs' = CleanRefs
    /\ flights' = {}
    /\ readout' = Nothing
    /\ UNCHANGED <<hour, mouse>>

ProbeNext ==
    \/ \E x \in Points : OnMouseMove(x)
    \/ OnDragStart
    \/ OnDragEnd
    \/ OnMouseLeave
    \/ IntervalPasses
    \/ \E h \in Hours : ShowHour(h)
    \/ \E flight \in flights : Answer(flight)
    \/ Remount

ProbeSpec == ProbeInit /\ [][ProbeNext]_probeVars

-----------------------------------------------------------------------------
(***************************************************************************)
(* Properties.                                                             *)
(***************************************************************************)

\* The badge keeps the promise of LatestRequest: what it shows is the answer to
\* the probe fired last, and nothing once the cursor has left or drags.
Probe == INSTANCE LatestRequest WITH asked <- refs.inFlight, shown <- readout

ReadoutIsLatest == Probe!Spec

\* "in-flight requests aborted when the cursor jumps far": a jump away from the
\* probed point is never taken for a small move.
FarJumpsAreProbed ==
    refs.hovering /\ refs.inFlight # Nothing => ~Far(mouse.at, refs.inFlight[1])
=============================================================================
