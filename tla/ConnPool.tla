------------------------------ MODULE ConnPool ------------------------------
(***************************************************************************)
(* What a pool of ready upstream connections promises its callers,         *)
(* whatever happens inside it: a bucket never holds more than Capacity     *)
(* connections, a connection is lent to one client at a time and only from *)
(* the bucket of the key that client asked for, and a pool that was shut   *)
(* neither keeps, accepts nor lends anything.  Dialling, backoff, expiry   *)
(* and the goroutines doing them are invisible here.  Both wsPool          *)
(* (module WSPool) and workerPool (module WorkerPool) implement this       *)
(* specification.                                                          *)
(***************************************************************************)
EXTENDS Naturals, FiniteSets

CONSTANTS Keys,      \* the buckets
          Conns,     \* identities of live connections
          Clients,   \* the proxied sessions
          Capacity   \* the most connections one bucket may hold

VARIABLES avail,     \* avail[k]: the connections ready for key k
          lent,      \* lent[x]: <<key, connection>> pairs client x holds
          shut       \* Close has begun

vars == <<avail, lent, shut>>

InUse == (UNION {avail[k] : k \in Keys})
           \cup {p[2] : p \in UNION {lent[x] : x \in Clients}}

Init == /\ avail = [k \in Keys |-> {}]
        /\ lent = [x \in Clients |-> {}]
        /\ shut = FALSE

\* A new connection enters the bucket it was dialled for.
Fill(k, c) == /\ ~shut
              /\ Cardinality(avail[k]) < Capacity
              /\ c \notin InUse
              /\ avail' = [avail EXCEPT ![k] = @ \cup {c}]
              /\ UNCHANGED <<lent, shut>>

\* A client that holds nothing takes a connection out of a bucket.
Lend(x, k, c) == /\ ~shut
                 /\ lent[x] = {}
                 /\ c \in avail[k]
                 /\ avail' = [avail EXCEPT ![k] = @ \ {c}]
                 /\ lent' = [lent EXCEPT ![x] = {<<k, c>>}]
                 /\ UNCHANGED shut

\* The client is done with the connection.
GiveUp(x) == /\ lent[x] # {}
             /\ lent' = [lent EXCEPT ![x] = {}]
             /\ UNCHANGED <<avail, shut>>

\* The pool throws connections away, from any number of buckets at once.
Discard == /\ \A k \in Keys : avail'[k] \subseteq avail[k]
           /\ DOMAIN avail' = Keys
           /\ UNCHANGED <<lent, shut>>

Shutdown == /\ ~shut
            /\ shut' = TRUE
            /\ avail' = [k \in Keys |-> {}]
            /\ UNCHANGED lent

Next == \/ \E k \in Keys, c \in Conns : Fill(k, c)
        \/ \E x \in Clients, k \in Keys, c \in Conns : Lend(x, k, c)
        \/ \E x \in Clients : GiveUp(x)
        \/ Discard
        \/ Shutdown

Spec == Init /\ [][Next]_vars
=============================================================================
