--------------------------- MODULE MC_LiveStream ---------------------------
(* Three connections; the run has two places for them. *)
EXTENDS LiveStream, TLC

CONSTANTS c1, c2, c3

ThreeConns == {c1, c2, c3}
=============================================================================
