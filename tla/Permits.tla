------------------------------- MODULE Permits -------------------------------
(***************************************************************************)
(* A limit on simultaneous use: at most Limit users hold the same resource *)
(* at a time, and a user holds one resource at a time.  The                *)
(* fallbackDials counters (module CFProxy, limit                           *)
(* fallbackMaxDialsPerDomain) implement it.                                *)
(***************************************************************************)
EXTENDS Naturals, FiniteSets

CONSTANTS Users, Resources, Limit, Nothing

VARIABLE holds      \* the resource each user holds, or Nothing

Init == holds = [u \in Users |-> Nothing]

HoldersOf(r) == {u \in Users : holds[u] = r}

Acquire(u, r) == /\ holds[u] = Nothing
                 /\ Cardinality(HoldersOf(r)) < Limit
                 /\ holds' = [holds EXCEPT ![u] = r]

Release(u) == /\ holds[u] # Nothing
              /\ holds' = [holds EXCEPT ![u] = Nothing]

Next == \E u \in Users : \/ \E r \in Resources : Acquire(u, r)
                         \/ Release(u)

Spec == Init /\ [][Next]_holds
=============================================================================
