----------------------------- MODULE TCPBackoff -----------------------------
(***************************************************************************)
(* tcpBackoff and connectTCPFallback (tcp_backoff.go): sessions that fall  *)
(* back to plain TCP share one record per upstream address, which admits   *)
(* one connection attempt at a time and none while the address backs off.  *)
(*                                                                         *)
(* A session's attempt is begin, dial, write of the relay init, finish;    *)
(* the server's context may be cancelled at any point of it.  While the    *)
(* init is written, context.AfterFunc closes the connection on             *)
(* cancellation, in a goroutine of its own that stop() does not wait for.  *)
(* retryAfter is a Boolean the clock clears.  Faulty variants are named    *)
(* Bad..., as in WSPool.                                                   *)
(***************************************************************************)
EXTENDS Integers, FiniteSets

CONSTANTS Addrs,       \* upstream addresses
          Sessions,    \* client sessions
          BackoffMin,  \* tcpBackoffMin
          BackoffMax,  \* tcpBackoffMax
          MaxFails     \* where the history counter fails saturates

ASSUME DelayAssumption ==
    /\ BackoffMin \in Nat \ {0}
    /\ BackoffMax \in Nat
    /\ BackoffMin <= BackoffMax
    /\ MaxFails \in Nat

\* What tcpBackoffMin becomes when it is doubled n times, and the delay that
\* n consecutive failures call for.
Doubled[n \in Nat] == IF n = 0 THEN BackoffMin ELSE 2 * Doubled[n - 1]
DelayAfter(n) == IF n = 0 THEN 0
                 ELSE IF Doubled[n - 1] > BackoffMax THEN BackoffMax ELSE Doubled[n - 1]

\* fails counts until the delay has reached its maximum.
ASSUME SaturationAssumption == DelayAfter(MaxFails) = BackoffMax

VARIABLES
    connecting,  \* the addresses with routes[a].connecting set
    delay,       \* routes[a].delay; 0 without a record
    backoff,     \* now.Before(routes[a].retryAfter)
    cancelled,   \* ctx.Err() # nil: the server is shutting down
    pc,          \* next step of each session
    addr,        \* the address each session wants
    err,         \* the outcome of the attempt so far
    open,        \* the sessions whose connection is open
    closer,      \* the sessions whose AfterFunc goroutine is about to close it
    fails        \* history: consecutive failed attempts, up to MaxFails

routes == <<connecting, delay, backoff>>
vars == <<routes, cancelled, pc, addr, err, open, closer, fails>>

InFlight == {s \in Sessions : pc[s] \in {"dial", "write", "finish"}}

Init == /\ connecting = {}
        /\ delay = [a \in Addrs |-> 0]
        /\ backoff = [a \in Addrs |-> FALSE]
        /\ cancelled = FALSE
        /\ pc = [s \in Sessions |-> "idle"]
        /\ addr \in [Sessions -> Addrs]
        /\ err = [s \in Sessions |-> "nil"]
        /\ open = {} /\ closer = {}
        /\ fails = [a \in Addrs |-> 0]

\* tcpBackoff.begin's condition.
BadAdmits(a) == ~backoff[a]                       \* connecting not checked
Admits(a) == a \notin connecting /\ ~backoff[a]

\* connectTCPFallback up to begin.  A refused or cancelled call returns an
\* error and changes nothing.
Begin(s, a) ==
    /\ pc[s] = "idle"
    /\ ~cancelled
    /\ Admits(a)
    /\ connecting' = connecting \cup {a}
    /\ addr' = [addr EXCEPT ![s] = a]
    /\ pc' = [pc EXCEPT ![s] = "dial"]
    /\ err' = [err EXCEPT ![s] = "nil"]
    /\ UNCHANGED <<delay, backoff, cancelled, open, closer, fails>>

\* tcpFallbackDial returns.
DialOk(s) ==
    /\ pc[s] = "dial"
    /\ open' = open \cup {s}
    /\ closer' = IF cancelled THEN closer \cup {s} ELSE closer
    /\ pc' = [pc EXCEPT ![s] = "write"]
    /\ UNCHANGED <<routes, cancelled, addr, err, fails>>

DialFail(s) ==
    /\ pc[s] = "dial"
    /\ err' = [err EXCEPT ![s] = IF cancelled THEN "cancel" ELSE "fail"]
    /\ pc' = [pc EXCEPT ![s] = "finish"]
    /\ UNCHANGED <<routes, cancelled, addr, open, closer, fails>>

\* What connectTCPFallback makes of the write's result r after stop().
BadOutcome(r) == r                                \* ctx not looked at again
Outcome(r) == IF cancelled THEN "cancel" ELSE r

\* writeTCPRelayInit returns r; it may have written before the connection was
\* closed under it, but not to a closed connection.
Write(s, r) ==
    /\ pc[s] = "write"
    /\ r = "nil" => s \in open
    /\ err' = [err EXCEPT ![s] = Outcome(r)]
    /\ pc' = [pc EXCEPT ![s] = "finish"]
    /\ UNCHANGED <<routes, cancelled, addr, open, closer, fails>>

\* tcpBackoff.finish's new delay after a failure.
NextDelay(d) ==
    LET e == IF 2 * d < BackoffMin THEN BackoffMin ELSE 2 * d
    IN  IF e > BackoffMax THEN BackoffMax ELSE e

\* The records after tcpBackoff.finish(a, now, e).  Success deletes the record,
\* a failure lengthens the delay, a cancellation leaves it alone.
BadRecord(a, e) ==                                \* a cancellation resets it too
    /\ connecting' = connecting \ {a}
    /\ delay' = [delay EXCEPT ![a] = IF e = "fail" THEN NextDelay(@) ELSE 0]
    /\ backoff' = [backoff EXCEPT ![a] = e = "fail"]
BadRecordLeft(a, e) ==                            \* cancellation leaves connecting
    /\ connecting' = IF e = "cancel" THEN connecting ELSE connecting \ {a}
    /\ delay' = [delay EXCEPT ![a] = IF e = "fail" THEN NextDelay(@) ELSE 0]
    /\ backoff' = [backoff EXCEPT ![a] = e = "fail"]
Record(a, e) ==
    /\ connecting' = connecting \ {a}
    /\ delay' = [delay EXCEPT ![a] = CASE e = "nil" -> 0
                                       [] e = "fail" -> NextDelay(@)
                                       [] e = "cancel" -> @]
    /\ backoff' = [backoff EXCEPT ![a] = CASE e = "nil" -> FALSE
                                           [] e = "fail" -> TRUE
                                           [] e = "cancel" -> @]

\* conn.Close on the error path.
Dispose(s) == open' = open \ {s} /\ closer' = closer \ {s}

\* connectTCPFallback from finish to its return: on an error it closes the
\* connection, else the session goes on with it.
Finish(s) ==
    LET a == addr[s] e == err[s] IN
    /\ pc[s] = "finish"
    /\ Record(a, e)
    /\ fails' = [fails EXCEPT ![a] = CASE e = "nil" -> 0
                                       [] e = "fail" -> IF @ = MaxFails THEN @ ELSE @ + 1
                                       [] e = "cancel" -> @]
    /\ IF e = "nil"
       THEN pc' = [pc EXCEPT ![s] = "using"] /\ UNCHANGED <<open, closer>>
       ELSE pc' = [pc EXCEPT ![s] = "idle"] /\ Dispose(s)
    /\ UNCHANGED <<cancelled, addr, err>>

\* The session ends and closes its connection.
Release(s) ==
    /\ pc[s] = "using"
    /\ pc' = [pc EXCEPT ![s] = "idle"]
    /\ open' = open \ {s}
    /\ UNCHANGED <<routes, cancelled, addr, err, closer, fails>>

\* The server's context is cancelled: the AfterFunc of every write under way
\* starts a goroutine.
Cancel ==
    /\ ~cancelled
    /\ cancelled' = TRUE
    /\ closer' = closer \cup {s \in Sessions : pc[s] = "write"}
    /\ UNCHANGED <<routes, pc, addr, err, open, fails>>

\* The AfterFunc goroutine closes the connection, perhaps long after stop().
AfterFunc(s) ==
    /\ s \in closer
    /\ closer' = closer \ {s}
    /\ open' = open \ {s}
    /\ UNCHANGED <<routes, cancelled, pc, addr, err, fails>>

\* The retryAfter of an address passes.
BackoffExpire(a) ==
    /\ backoff[a]
    /\ backoff' = [backoff EXCEPT ![a] = FALSE]
    /\ UNCHANGED <<connecting, delay, cancelled, pc, addr, err, open, closer, fails>>

Step(s) == DialOk(s) \/ DialFail(s) \/ Write(s, "nil") \/ Write(s, "fail") \/ Finish(s)

Next == \/ \E s \in Sessions : \/ \E a \in Addrs : Begin(s, a)
                               \/ Step(s)
                               \/ Release(s)
                               \/ AfterFunc(s)
        \/ Cancel
        \/ \E a \in Addrs : BackoffExpire(a)

Spec == Init /\ [][Next]_vars

\* Dials and writes have deadlines (tcpDialTimeout, the init write's), so an
\* attempt that began goes on to its end.
FairSpec == Spec /\ \A s \in Sessions : WF_vars(Step(s))

-----------------------------------------------------------------------------
(* Properties *)

\* The variables have their types; a delay is 0 or within its bounds.
TypeOK ==
    /\ connecting \subseteq Addrs
    /\ delay \in [Addrs -> {0} \cup BackoffMin..BackoffMax]
    /\ backoff \in [Addrs -> BOOLEAN]
    /\ cancelled \in BOOLEAN
    /\ pc \in [Sessions -> {"idle", "dial", "write", "finish", "using"}]
    /\ addr \in [Sessions -> Addrs]
    /\ err \in [Sessions -> {"nil", "fail", "cancel"}]
    /\ open \subseteq Sessions
    /\ closer \subseteq Sessions
    /\ fails \in [Addrs -> Nat]

\* The connecting mark of an address stands for exactly one session between
\* begin and finish: no two sessions dial the same address, and no address
\* stays marked by a session that is gone.
OneAttempt ==
    /\ \A s \in InFlight : addr[s] \in connecting
    /\ \A s, t \in InFlight : addr[s] = addr[t] => s = t
    /\ \A a \in connecting : \E s \in InFlight : addr[s] = a

\* While an address backs off no session is dialling it.
Quiet == \A a \in Addrs : backoff[a] => a \notin connecting

\* The delay of an address is the one n consecutive failures call for:
\* tcpBackoffMin doubled n - 1 times, at most tcpBackoffMax.  Cancelled
\* attempts do not count, a success starts over.
DelayTracksFailures == \A a \in Addrs : delay[a] = DelayAfter(fails[a])

\* A session never goes on with a connection that the AfterFunc of its init
\* write has closed or is still going to close.
CleanHandover == \A s \in Sessions : pc[s] = "using" => s \in open /\ s \notin closer

\* No connection outlives the attempt or the session it was dialled for.
NoLeak == \A s \in open : pc[s] \in {"write", "finish", "using"}

\* An address that is being connected to becomes free again.
Freed == \A a \in Addrs : a \in connecting ~> a \notin connecting
=============================================================================
