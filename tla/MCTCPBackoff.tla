---------------------------- MODULE MCTCPBackoff ----------------------------
(***************************************************************************)
(* An instance of TCPBackoff for TLC.                                      *)
(***************************************************************************)
EXTENDS TCPBackoff

CONSTANTS a1, a2, s1, s2, s3
=============================================================================
