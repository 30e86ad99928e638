--------------------------- MODULE MCTileService ---------------------------
(***************************************************************************)
(* Instances of TileService for TLC.                                       *)
(***************************************************************************)
EXTENDS TileService

CONSTANTS f1, f2, f3

ThreeFields == {f1, f2, f3}
TwoFields   == {f1, f2}
OneSmall    == {{}, {f1}}
OneEach     == {<<f, 1>> : f \in Fields}
=============================================================================
