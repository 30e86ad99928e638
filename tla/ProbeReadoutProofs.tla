------------------------- MODULE ProbeReadoutProofs -------------------------
(***************************************************************************)
(* Safety of the cursor readout, for any line of pixels, any hours and any *)
(* bounds: the badge keeps the promise of LatestRequest.                   *)
(***************************************************************************)
EXTENDS ProbeReadout, TLAPS

\* A request that was not aborted is the one whose controller the component keeps:
\* the sequence number decides nothing that the abort has not decided before.
LiveIsKept == \A f \in flights : ~f.aborted => f.ask = refs.inFlight

ProbeInv == ProbeTypeOK /\ LiveIsKept

-----------------------------------------------------------------------------
(***************************************************************************)
(* Lemmas about the functions of the effect.                               *)
(***************************************************************************)

\* After an abort every request on the wire is aborted, and no other field changes.
LEMMA AbortedFlights ==
    ASSUME flights \subseteq Flights
    PROVE  Aborted \subseteq Flights /\ \A f \in Aborted : f.aborted
BY DEF Aborted, Flights

\* fireProbe keeps the types, and the live request is the new one, for the point it was
\* given.
LEMMA FireSound ==
    ASSUME ProbeInv, NEW x \in Points, ~refs.dragging,
           FireProbe([refs EXCEPT !.hovering = TRUE], x)
    PROVE  /\ refs' \in [hovering : BOOLEAN, dragging : BOOLEAN, last : Points \cup {Nothing},
                         recent : BOOLEAN, inFlight : Questions \cup {Nothing}, seq : 0..Probes]
           /\ flights' \subseteq Flights
           /\ refs'.inFlight = <<x, hour>>
           /\ ~refs'.dragging
           /\ \A f \in flights' : ~f.aborted => f.ask = <<x, hour>>
<1> DEFINE r == [refs EXCEPT !.hovering = TRUE]
           fresh == [seq |-> r.seq + 1, ask |-> <<x, hour>>, aborted |-> FALSE]
<1>1. <<x, hour>> \in Questions
  BY DEF ProbeInv, ProbeTypeOK, Questions
<1>2. r \in [hovering : BOOLEAN, dragging : BOOLEAN, last : Points \cup {Nothing},
             recent : BOOLEAN, inFlight : Questions \cup {Nothing}, seq : 0..Probes]
  BY DEF ProbeInv, ProbeTypeOK
<1>3. r.seq + 1 \in 1..Probes
  <2>1. r.seq \in 0..Probes
    BY <1>2
  <2>2. r.seq < Probes
    BY DEF FireProbe
  <2> QED
    BY <2>1, <2>2, ProbeAssumption
<1>4. refs' = [r EXCEPT !.last = x, !.recent = TRUE, !.seq = r.seq + 1,
                        !.inFlight = <<x, hour>>]
  BY DEF FireProbe
<1>5. flights' = Aborted \cup {fresh}
  BY DEF FireProbe
<1>6. fresh \in Flights
  BY <1>1, <1>3 DEF Flights
<1>7. Aborted \subseteq Flights /\ \A f \in Aborted : f.aborted
  BY AbortedFlights DEF ProbeInv, ProbeTypeOK
<1>8. r.dragging = refs.dragging
  BY DEF ProbeInv, ProbeTypeOK
<1> HIDE DEF r
<1>9. r.seq + 1 \in 0..Probes
  BY <1>3, ProbeAssumption
<1>10. refs' \in [hovering : BOOLEAN, dragging : BOOLEAN, last : Points \cup {Nothing},
                  recent : BOOLEAN, inFlight : Questions \cup {Nothing}, seq : 0..Probes]
  BY <1>1, <1>2, <1>4, <1>9
<1>11. refs'.inFlight = <<x, hour>> /\ ~refs'.dragging
  BY <1>2, <1>4, <1>8
<1>12. fresh.ask = <<x, hour>>
  OBVIOUS
<1> HIDE DEF fresh
<1>13. flights' \subseteq Flights /\ \A f \in flights' : ~f.aborted => f.ask = <<x, hour>>
  BY <1>5, <1>6, <1>7, <1>12
<1> QED
  BY <1>10, <1>11, <1>13

-----------------------------------------------------------------------------
(***************************************************************************)
(* The invariant.                                                          *)
(***************************************************************************)

LEMMA ProbeInvInit == ProbeInit => ProbeInv
<1> SUFFICES ASSUME ProbeInit
             PROVE  ProbeInv
  OBVIOUS
<1>1. ProbeTypeOK
  <2>1. mouse \in [at : Points, held : BOOLEAN]
    BY DEF ProbeInit
  <2>2. refs \in [hovering : BOOLEAN, dragging : BOOLEAN, last : Points \cup {Nothing},
                  recent : BOOLEAN, inFlight : Questions \cup {Nothing}, seq : 0..Probes]
    BY ProbeAssumption DEF ProbeInit, CleanRefs
  <2> QED
    BY <2>1, <2>2, ProbeAssumption DEF ProbeInit, ProbeTypeOK
<1>2. LiveIsKept
  BY DEF ProbeInit, CleanRefs, LiveIsKept
<1> QED
  BY <1>1, <1>2 DEF ProbeInv

\* Every step of the component, of the mouse and of the page keeps the invariant.
LEMMA ProbeInvStep == ProbeInv /\ [ProbeNext]_probeVars => ProbeInv'
<1> SUFFICES ASSUME ProbeInv, [ProbeNext]_probeVars
             PROVE  ProbeInv'
  OBVIOUS
<1> USE DEF ProbeInv
<1>1. ASSUME NEW x \in Points, OnMouseMove(x)
      PROVE  ProbeInv'
  <2> SUFFICES (ProbeTypeOK /\ LiveIsKept)'
    OBVIOUS
  <2>1. mouse' \in [at : Points, held : BOOLEAN] /\ mouse'.at = x
    BY <1>1 DEF OnMouseMove, ProbeTypeOK
  <2>2. UNCHANGED <<hour, readout, remounts>>
    BY <1>1 DEF OnMouseMove
  <2>3. CASE refs.dragging /\ UNCHANGED <<refs, flights>>
    BY <2>1, <2>2, <2>3 DEF ProbeTypeOK, LiveIsKept
  <2>4. CASE /\ ~refs.dragging
             /\ Coalesces(x)
             /\ refs' = [refs EXCEPT !.hovering = TRUE]
             /\ UNCHANGED flights
    <3>1. /\ refs' \in [hovering : BOOLEAN, dragging : BOOLEAN, last : Points \cup {Nothing},
                        recent : BOOLEAN, inFlight : Questions \cup {Nothing}, seq : 0..Probes]
          /\ refs'.dragging = refs.dragging
          /\ refs'.inFlight = refs.inFlight
      BY <2>4 DEF ProbeTypeOK
    <3> QED
      BY <2>1, <2>2, <2>4, <3>1 DEF ProbeTypeOK, LiveIsKept
  <2>5. CASE /\ ~refs.dragging
             /\ FireProbe([refs EXCEPT !.hovering = TRUE], x)
    <3>1. /\ refs' \in [hovering : BOOLEAN, dragging : BOOLEAN, last : Points \cup {Nothing},
                        recent : BOOLEAN, inFlight : Questions \cup {Nothing}, seq : 0..Probes]
          /\ flights' \subseteq Flights
          /\ refs'.inFlight = <<x, hour>>
          /\ ~refs'.dragging
          /\ \A f \in flights' : ~f.aborted => f.ask = <<x, hour>>
      BY <2>5, FireSound
    <3> QED
      BY <2>1, <2>2, <3>1 DEF ProbeTypeOK, LiveIsKept
  <2> QED
    BY <1>1, <2>3, <2>4, <2>5 DEF OnMouseMove
<1>2. CASE OnDragStart
  <2>1. Aborted \subseteq Flights /\ \A f \in Aborted : f.aborted
    BY AbortedFlights DEF ProbeTypeOK
  <2> QED
    BY <1>2, <2>1
    DEF OnDragStart, HideBadge, ProbeTypeOK, LiveIsKept
<1>3. CASE OnDragEnd
  BY <1>3 DEF OnDragEnd, ProbeTypeOK, LiveIsKept
<1>4. CASE OnMouseLeave
  <2>1. Aborted \subseteq Flights /\ \A f \in Aborted : f.aborted
    BY AbortedFlights DEF ProbeTypeOK
  <2> QED
    BY <1>4, <2>1
    DEF OnMouseLeave, HideBadge, ProbeTypeOK, LiveIsKept
<1>5. CASE IntervalPasses
  BY <1>5 DEF IntervalPasses, ProbeTypeOK, LiveIsKept
<1>6. ASSUME NEW h \in Hours, ShowHour(h)
      PROVE  ProbeInv'
  BY <1>6 DEF ShowHour, ProbeTypeOK, LiveIsKept
<1>7. ASSUME NEW flight \in flights, Answer(flight)
      PROVE  ProbeInv'
  BY <1>7 DEF Answer, ProbeTypeOK, Flights, LiveIsKept
<1>8. CASE Remount
  BY <1>8, ProbeAssumption
  DEF Remount, CleanRefs, ProbeTypeOK, LiveIsKept
<1>9. CASE UNCHANGED probeVars
  BY <1>9 DEF probeVars, ProbeTypeOK, LiveIsKept
<1> QED
  BY <1>1, <1>2, <1>3, <1>4, <1>5, <1>6, <1>7, <1>8, <1>9 DEF ProbeNext

LEMMA ProbeInvHolds == ProbeSpec => []ProbeInv
BY ProbeInvInit, ProbeInvStep, PTL DEF ProbeSpec

-----------------------------------------------------------------------------
(***************************************************************************)
(* What it gives.                                                          *)
(***************************************************************************)

\* The refs, the requests on the wire and the badge keep their types through moves, drags,
\* answers in any order and remounts.
THEOREM ProbeTypeCorrect == ProbeSpec => []ProbeTypeOK
BY ProbeInvHolds, PTL DEF ProbeInv

\* A step of the component is a step of LatestRequest, or changes neither the question
\* nor the answer.
LEMMA StepIsLatest ==
    ASSUME ProbeInv, [ProbeNext]_probeVars
    PROVE  [Probe!Next]_<<refs.inFlight, readout>>
<1> DEFINE Goal == [Probe!Next]_<<refs.inFlight, readout>>
           Still == refs'.inFlight = refs.inFlight /\ readout' = readout
           Gone == refs'.inFlight = Nothing /\ readout' \in {readout, Nothing}
<1> USE DEF ProbeInv
<1>1. Still => Goal
  OBVIOUS
<1>2. Gone => Goal
  BY DEF Probe!Next, Probe!Withdraw, Probe!KeepOrClear
<1>3. ASSUME NEW q \in Questions, refs'.inFlight = q, readout' = readout
      PROVE  Goal
  BY <1>3 DEF Probe!Next, Probe!Ask, Probe!KeepOrClear
<1> HIDE DEF Goal
<1>4. ASSUME NEW x \in Points, OnMouseMove(x)
      PROVE  Goal
  <2>1. readout' = readout
    BY <1>4 DEF OnMouseMove
  <2>2. CASE UNCHANGED refs
    BY <1>1, <2>1, <2>2
  <2>3. CASE refs' = [refs EXCEPT !.hovering = TRUE]
    BY <1>1, <2>1, <2>3 DEF ProbeTypeOK
  <2>4. CASE ~refs.dragging /\ FireProbe([refs EXCEPT !.hovering = TRUE], x)
    <3>1. refs'.inFlight = <<x, hour>>
      BY <2>4, FireSound
    <3>2. <<x, hour>> \in Questions
      BY DEF ProbeTypeOK, Questions
    <3> QED
      BY <1>3, <2>1, <3>1, <3>2
  <2> QED
    BY <1>4, <2>2, <2>3, <2>4 DEF OnMouseMove
<1>5. ASSUME OnDragStart
      PROVE  Goal
  BY <1>2, <1>5 DEF OnDragStart, HideBadge, ProbeTypeOK
<1>6. ASSUME OnDragEnd
      PROVE  Goal
  BY <1>1, <1>6 DEF OnDragEnd, ProbeTypeOK
<1>7. ASSUME OnMouseLeave
      PROVE  Goal
  BY <1>2, <1>7 DEF OnMouseLeave, HideBadge, ProbeTypeOK
<1>8. ASSUME IntervalPasses
      PROVE  Goal
  BY <1>1, <1>8 DEF IntervalPasses, ProbeTypeOK
<1>9. ASSUME NEW h \in Hours, ShowHour(h)
      PROVE  Goal
  BY <1>1, <1>9 DEF ShowHour
<1>10. ASSUME NEW flight \in flights, Answer(flight)
       PROVE  Goal
  <2>1. CASE ~Heeds(flight)
    BY <1>1, <1>10, <2>1 DEF Answer
  <2>2. CASE Heeds(flight)
    <3>1. flight.ask = refs.inFlight
      BY <2>2 DEF Heeds, LiveIsKept
    <3>2. refs.inFlight # Nothing
      BY <3>1, NothingAssumption DEF ProbeTypeOK, Flights
    <3>3. readout' = refs.inFlight /\ refs' = refs
      BY <1>10, <2>2, <3>1 DEF Answer
    <3> QED
      BY <3>2, <3>3 DEF Goal, Probe!Next, Probe!Answer
  <2> QED
    BY <2>1, <2>2
<1>11. ASSUME Remount
       PROVE  Goal
  BY <1>2, <1>11 DEF Remount, CleanRefs
<1>12. ASSUME UNCHANGED probeVars
       PROVE  Goal
  BY <1>1, <1>12 DEF probeVars
<1>13. Goal
  BY <1>4, <1>5, <1>6, <1>7, <1>8, <1>9, <1>10, <1>11, <1>12 DEF ProbeNext
<1> QED
  BY <1>13 DEF Goal

\* The cursor readout implements LatestRequest: an aborted or overtaken probe never
\* changes the badge, and no answer appears once the cursor has left or drags.
THEOREM ProbeShowsLatest == ProbeSpec => ReadoutIsLatest
<1>1. ProbeInit => Probe!Init
  BY DEF ProbeInit, CleanRefs, Probe!Init
<1>2. ProbeInv /\ [ProbeNext]_probeVars => [Probe!Next]_<<refs.inFlight, readout>>
  BY StepIsLatest
<1> QED
  BY <1>1, <1>2, ProbeInvHolds, PTL DEF ProbeSpec, ReadoutIsLatest, Probe!Spec
=============================================================================
