------------------------------ MODULE MCServer ------------------------------
(***************************************************************************)
(* An instance of Server for TLC.                                          *)
(***************************************************************************)
EXTENDS Server

CONSTANTS s1, s2, t1

\* Every configuration of the fallback routes.
AllConfs == [worker : BOOLEAN, cf : BOOLEAN, priority : BOOLEAN]
=============================================================================
