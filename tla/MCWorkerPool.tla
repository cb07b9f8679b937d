---------------------------- MODULE MCWorkerPool ----------------------------
(* Finite instances of WorkerPool for TLC.                                 *)
EXTENDS WorkerPool

CONSTANTS w1, w2, w3, j1, j2, j3, j4

ThreeWorkers == {w1, w2, w3}
ThreeAndMain == ThreeWorkers \cup {Main}

MCData == {j1, j2, j3, j4}

FourJobs == <<j1, j2, j3, j4>>
=============================================================================
