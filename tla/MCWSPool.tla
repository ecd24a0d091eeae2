------------------------------ MODULE MCWSPool ------------------------------
(***************************************************************************)
(* Instances of WSPool for TLC.                                            *)
(***************************************************************************)
EXTENDS WSPool, TLC

CONSTANTS k1, k2, x1, x2, s1, s2, c1, c2, c3, c4, c5

\* One DC with one IP.
OneTarget == {<<k1>>}

\* One DC with two IPs.
TwoTargets == {<<k1, k2>>}

\* Interchangeable identities.
Symmetry == Permutations(Conns) \cup Permutations(Clients) \cup Permutations(Slots)
=============================================================================
