---------------------------- MODULE MCWorkerPool ----------------------------
(***************************************************************************)
(* An instance of WorkerPool for TLC.                                      *)
(***************************************************************************)
EXTENDS WorkerPool

CONSTANTS k1, x1, x2, g1, g2, c1, c2, c3
=============================================================================
