------------------------------ MODULE MCCFProxy ------------------------------
(***************************************************************************)
(* The instance of CFProxy for TLC.  Its one DC is known in some of the    *)
(* behaviours and unknown in the others.                                   *)
(***************************************************************************)
EXTENDS CFProxy

CONSTANTS d1, d2, w1, m1, s1, s2
=============================================================================
