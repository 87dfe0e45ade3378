---------------------------- MODULE MCWorkerJobs ----------------------------
(* Small instances of WorkerJobs: jobs are interchangeable model values.   *)
EXTENDS WorkerJobs, TLC

CONSTANTS j1, j2

Symmetry == Permutations(Job)
=============================================================================
