--------------------------- MODULE MC_CloudRelay ---------------------------
(* Two connections of one agent, two interchangeable dashboards. *)
EXTENDS CloudRelay, TLC

CONSTANTS d1, d2

TwoClients == {d1, d2}
ClientSymmetry == Permutations(TwoClients)
=============================================================================
