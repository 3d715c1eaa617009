-------------------------- MODULE MC_ScanPipeline --------------------------
(* Two processes on one database, two worker threads in each. *)
EXTENDS ScanPipeline

CONSTANTS p1, p2, monitor, api

MCProcesses == {p1, p2}
Symmetry == Permutations(MCProcesses)
MCThreads == {monitor, api}
=============================================================================
