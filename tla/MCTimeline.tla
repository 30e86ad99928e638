----------------------------- MODULE MCTimeline -----------------------------
(***************************************************************************)
(* Instances of Timeline for TLC.                                          *)
(***************************************************************************)
EXTENDS Timeline

ThreeHours  == {1, 2, 4}
ThreeFrames == <<1, 2, 4>>
SomeShort   == {ThreeFrames, <<2>>}
=============================================================================
