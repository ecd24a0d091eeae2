--------------------------- MODULE MCLogRotation ----------------------------
(***************************************************************************)
(* Instances of LogRotation for TLC.                                       *)
(***************************************************************************)
EXTENDS LogRotation
=============================================================================
