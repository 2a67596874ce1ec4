----------------------------- MODULE MCJobQueue -----------------------------
(* An instance of JobQueue for TLC.                                         *)
EXTENDS JobQueue

CONSTANTS w1, w2, j1, j2, j3

MCWorkers == {w1, w2}
MCJobs == {j1, j2, j3}
MCEndless == {j3}
=============================================================================
