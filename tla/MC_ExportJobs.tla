---------------------------- MODULE MC_ExportJobs ----------------------------
(* Instances of ExportJobs for TLC.                                          *)
EXTENDS ExportJobs, TLC

CONSTANTS api1, worker1, worker2

MCWorkerSymmetry == Permutations(Workers)
=============================================================================
