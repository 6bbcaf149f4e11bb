---------------------------- MODULE MCTileQueue ----------------------------
(* Instances of TileQueue for TLC.                                         *)
EXTENDS TileQueue

\* Two tiles of one zoom level, one outside the range, and a features request.
MCKind == [h \in Handlers |-> IF h = 4 THEN "features" ELSE "tile"]
MCZoom == [h \in Handlers |-> IF h = 3 THEN -1 ELSE 5]
=============================================================================
