------------------------ MODULE WeatherRasterProofs ------------------------
(***************************************************************************)
(* Safety of the raster layer, for any frames and any bounds.              *)
(***************************************************************************)
EXTENDS WeatherRasterLayer, TLAPS

\* What a handler works on: the source and the refs.
Pair ==
    [source : [tiles : Frames \cup {NoFrame}, loaded : BOOLEAN],
     layer  : [applied : Frames \cup {NoFrame}, pending : Frames \cup {NoFrame},
               timer : BOOLEAN]]

\* A pair that the handlers may leave behind.
Sound(s) ==
    /\ s \in Pair
    /\ s.layer.timer => HasSource(s) /\ s.layer.pending # NoFrame
    /\ s.layer.applied # NoFrame => s.source.tiles = s.layer.applied

-----------------------------------------------------------------------------
(***************************************************************************)
(* Lemmas about the functions of the setup effect.                         *)
(***************************************************************************)

\* applyPending keeps a pair sound and neither makes nor drops a source.
LEMMA ApplySound ==
    ASSUME NEW s, Sound(s)
    PROVE  Sound(ApplyPending(s)) /\ (HasSource(ApplyPending(s)) <=> HasSource(s))
BY RasterAssumption DEF Sound, Pair, ApplyPending, HasSource

\* So does tryApplyPending, which may start the timer instead.
LEMMA TrySound ==
    ASSUME NEW s, Sound(s)
    PROVE  Sound(TryApplyPending(s)) /\ (HasSource(TryApplyPending(s)) <=> HasSource(s))
<1>1. CASE TryApplyPending(s) = s
  BY <1>1
<1>2. CASE TryApplyPending(s) = ApplyPending(s)
  BY <1>2, ApplySound
<1>3. CASE /\ s.layer.pending # NoFrame /\ HasSource(s)
           /\ TryApplyPending(s) = [s EXCEPT !.layer.timer = TRUE]
  <2> DEFINE t == [s EXCEPT !.layer.timer = TRUE]
  <2>1. /\ t \in Pair
        /\ t.source = s.source
        /\ t.layer.pending = s.layer.pending
        /\ t.layer.applied = s.layer.applied
    BY DEF Sound, Pair
  <2>2. Sound(t) /\ (HasSource(t) <=> HasSource(s))
    BY <1>3, <2>1 DEF Sound, HasSource
  <2> QED
    BY <1>3, <2>2
<1> QED
  BY <1>1, <1>2, <1>3 DEF TryApplyPending

\* And so does requestKey.
LEMMA RequestSound ==
    ASSUME NEW s, Sound(s), NEW key \in Frames
    PROVE  Sound(RequestKey(s, key)) /\ (HasSource(RequestKey(s, key)) <=> HasSource(s))
<1> DEFINE t == [s EXCEPT !.layer.pending = key]
<1>1. Sound(t) /\ (HasSource(t) <=> HasSource(s))
  BY RasterAssumption DEF Sound, Pair, HasSource
<1>2. Sound(TryApplyPending(t)) /\ (HasSource(TryApplyPending(t)) <=> HasSource(t))
  BY <1>1, TrySound
<1> QED
  BY <1>1, <1>2 DEF RequestKey

-----------------------------------------------------------------------------
(***************************************************************************)
(* The invariant.                                                          *)
(***************************************************************************)

RasterInv == TypeOK /\ AppliedIsShown

\* The invariant, split into the page's part and the handlers' part.
LEMMA InvSplit ==
    RasterInv <=>
        /\ page \in [frame : Frames, seen : SUBSET Frames, fresh : BOOLEAN,
                     moves : 0..Moves, remounts : 0..Remounts]
        /\ due \in BOOLEAN
        /\ map \in {"none", "styling", "ready"}
        /\ map = "ready" <=> HasSource(Now)
        /\ Sound(Now)
BY DEF RasterInv, TypeOK, AppliedIsShown, Now, Sound, Pair, HasSource

\* What a step must leave for the invariant to hold after it.
LEMMA NextFromParts ==
    ASSUME NEW s, Sound(s), Become(s),
           page' \in [frame : Frames, seen : SUBSET Frames, fresh : BOOLEAN,
                      moves : 0..Moves, remounts : 0..Remounts],
           due' \in BOOLEAN,
           map' \in {"none", "styling", "ready"},
           map' = "ready" <=> HasSource(s)
    PROVE  RasterInv'
BY DEF RasterInv, TypeOK, AppliedIsShown, Sound, Pair, HasSource, Become

\* Nothing is applied or pending before the map is there.
LEMMA InitInv == Init => RasterInv
<1> SUFFICES ASSUME Init PROVE RasterInv
  OBVIOUS
<1>1. page \in [frame : Frames, seen : SUBSET Frames, fresh : BOOLEAN,
                moves : 0..Moves, remounts : 0..Remounts]
  <2>1. Moves \in 0..Moves /\ Remounts \in 0..Remounts
    BY RasterAssumption
  <2> QED
    BY <2>1 DEF Init
<1> QED
  BY <1>1 DEF Init, RasterInv, TypeOK, AppliedIsShown, NoSource, CleanLayer

\* Every step keeps the invariant: one case per action.
LEMMA NextInv == RasterInv /\ [Next]_vars => RasterInv'
<1> SUFFICES ASSUME RasterInv, [Next]_vars PROVE RasterInv'
  OBVIOUS
<1> USE RasterAssumption
<1>1. /\ Sound(Now)
      /\ map = "ready" <=> HasSource(Now)
  BY InvSplit
<1>2. TypeOK
  BY DEF RasterInv
<1>3. page.frame \in Frames
  BY <1>2 DEF TypeOK
<1>4. ASSUME NEW frame \in Frames, ShowFrame(frame)
      PROVE  RasterInv'
  <2>1. /\ page' \in [frame : Frames, seen : SUBSET Frames, fresh : BOOLEAN,
                      moves : 0..Moves, remounts : 0..Remounts]
        /\ due' \in BOOLEAN
    <3>1. page.frame \in Frames /\ page.seen \cup {page.frame} \in SUBSET Frames
      BY <1>2 DEF TypeOK
    <3>2. page.moves - 1 \in 0..Moves
      BY <1>2, <1>4 DEF ShowFrame, TypeOK
    <3>3. due' = (map # "none")
      BY <1>4 DEF ShowFrame
    <3> QED
      BY <1>2, <1>4, <3>1, <3>2, <3>3 DEF ShowFrame, TypeOK
  <2> QED
    BY <1>1, <1>2, <1>4, <2>1 DEF ShowFrame, RasterInv, TypeOK, AppliedIsShown
<1>5. CASE RunEffect
  <2>1. Sound(RequestKey(Now, page.frame))
        /\ (HasSource(RequestKey(Now, page.frame)) <=> HasSource(Now))
    BY <1>1, <1>3, RequestSound
  <2> QED
    BY <1>1, <1>2, <1>5, <2>1, NextFromParts DEF RunEffect, TypeOK
<1>6. CASE MountMap
  <2> DEFINE s == [source |-> NoSource, layer |-> CleanLayer]
  <2>1. Sound(s) /\ ~HasSource(s)
    BY DEF Sound, Pair, HasSource, NoSource, CleanLayer
  <2>2. Sound(RequestKey(s, page.frame)) /\ ~HasSource(RequestKey(s, page.frame))
    BY <2>1, <1>3, RequestSound
  <2> QED
    BY <1>2, <1>6, <2>2, NextFromParts DEF MountMap, TypeOK
<1>7. CASE UnmountMap
  <2>1. page' \in [frame : Frames, seen : SUBSET Frames, fresh : BOOLEAN,
                   moves : 0..Moves, remounts : 0..Remounts]
    BY <1>2, <1>7 DEF UnmountMap, TypeOK
  <2> QED
    BY <1>7, <2>1 DEF UnmountMap, NoSource, CleanLayer, RasterInv, TypeOK, AppliedIsShown
<1>8. CASE StyleLoads
  <2> DEFINE s == [source |-> [tiles |-> page.frame, loaded |-> FALSE],
                   layer  |-> [layer EXCEPT !.applied = NoFrame]]
  <2>1. Sound(s) /\ HasSource(s)
    BY <1>2, <1>3, <1>8 DEF StyleLoads, TypeOK, Sound, Pair, HasSource
  <2>2. Sound(RequestKey(s, page.frame)) /\ HasSource(RequestKey(s, page.frame))
    BY <2>1, <1>3, RequestSound
  <2> QED
    BY <1>2, <1>8, <2>2, NextFromParts DEF StyleLoads, TypeOK
<1>9. ASSUME NEW loaded \in BOOLEAN, SourceData(loaded)
      PROVE  RasterInv'
  <2> DEFINE s == [Now EXCEPT !.source.loaded = @ \/ loaded]
  <2>1. Sound(s) /\ (HasSource(s) <=> HasSource(Now))
    BY <1>1 DEF Sound, Pair, HasSource
  <2>2. Sound(TryApplyPending(s)) /\ (HasSource(TryApplyPending(s)) <=> HasSource(s))
    BY <2>1, TrySound
  <2> QED
    BY <1>1, <1>2, <1>9, <2>1, <2>2, NextFromParts DEF SourceData, TypeOK
<1>10. CASE TimerFires
  <2> DEFINE s == [Now EXCEPT !.layer.timer = FALSE]
  <2>1. Sound(s) /\ (HasSource(s) <=> HasSource(Now))
    BY <1>1 DEF Sound, Pair, HasSource
  <2>2. Sound(ApplyPending(s)) /\ (HasSource(ApplyPending(s)) <=> HasSource(s))
    BY <2>1, ApplySound
  <2> QED
    BY <1>1, <1>2, <1>10, <2>1, <2>2, NextFromParts DEF TimerFires, TypeOK
<1>11. CASE UNCHANGED vars
  BY <1>11 DEF vars, RasterInv, TypeOK, AppliedIsShown
<1> QED
  BY <1>4, <1>5, <1>6, <1>7, <1>8, <1>9, <1>10, <1>11 DEF Next

\* The refs, the map and its source stay consistent; in particular no settle timer
\* runs without a map and a frame to apply.
THEOREM RasterTypeCorrect == Spec => []TypeOK
<1>1. RasterInv => TypeOK
  BY DEF RasterInv
<1> QED
  BY <1>1, InitInv, NextInv, PTL DEF Spec

\* A request is only ever skipped as "applied" when this map's source shows it.
THEOREM AppliedFrameIsShown == Spec => []AppliedIsShown
<1>1. RasterInv => AppliedIsShown
  BY DEF RasterInv
<1> QED
  BY <1>1, InitInv, NextInv, PTL DEF Spec
=============================================================================
