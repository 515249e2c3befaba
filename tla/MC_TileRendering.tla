------------------------- MODULE MC_TileRendering -------------------------
(* Model values for checking TileRendering with TLC.                       *)
EXTENDS TileRendering

CONSTANTS s1, s2, t1, t2

MCSessions == {s1, s2}
MCTiles == {t1, t2}
=============================================================================
