----------------------------- MODULE WorkerPool -----------------------------
(***************************************************************************)
(* workerPool (worker_pool.go) and its user cfWorkerFallback: at most one  *)
(* idle connection per DC and destination, replaced by a goroutine when a  *)
(* session takes it or had to dial for itself.                             *)
(*                                                                         *)
(* connectWorker is a dial that opens a connection or fails, followed by   *)
(* its look at the context; the domains it tries and their limits are      *)
(* module CFProxy.  Time and identities are abstracted, and faulty         *)
(* variants named Bad..., as in WSPool.                                    *)
(***************************************************************************)
EXTENDS Naturals, FiniteSets

CONSTANTS Keys,      \* workerPoolKey values: DC and destination
          WarmKeys,  \* the keys warmup fills: DCs without an IP of their own
          Conns,     \* identities of live connections
          Clients,   \* sessions in cfWorkerFallback
          Slots,     \* bound on simultaneous refill goroutines of one key
          Closer,    \* the caller of Close
          Enabled,   \* cfg.PoolSize > 0 and there are worker domains
          NoKey      \* no key

Gor == Keys \X Slots                              \* the refill goroutines
Procs == Clients \cup Gor \cup {Closer}

ASSUME WorkerAssumption ==
    /\ Keys # {} /\ WarmKeys \subseteq Keys /\ NoKey \notin Keys
    /\ Enabled \in BOOLEAN
    /\ Closer \notin Clients \cup Gor
    /\ Clients \cap Gor = {}

VARIABLES
    cancelled,  \* the server's context, which sessions use, is done
    closed,     \* p.closed; p.ctx is cancelled in the same critical section
    idle,       \* p.idle: the connection of each key, if any, as a set
    refilling,  \* p.refilling
    warmed,     \* warmup has run
    open,       \* the connections dialled and not yet closed
    hand,       \* the connections each process holds outside p.idle
    aged,       \* the idle or just taken connections past workerPoolMaxAge
    gpc,        \* refill goroutine: next step
    cpc,        \* session: next step
    key,        \* session: its key
    zpc         \* Close: next step

shared == <<cancelled, closed, warmed>>
pool == <<idle, refilling>>
conns == <<open, hand, aged>>
vars == <<shared, pool, conns, gpc, cpc, key, zpc>>

Idle == UNION {idle[k] : k \in Keys}

\* Process p opens connection c.
Open(p, c) == /\ open' = open \cup {c}
              /\ hand' = [hand EXCEPT ![p] = @ \cup {c}]
              /\ UNCHANGED aged

\* Process p closes the connections S it holds.
Shut(p, S) == /\ open' = open \ S
              /\ hand' = [hand EXCEPT ![p] = @ \ S]
              /\ aged' = aged \ S

Init ==
    /\ cancelled = FALSE
    /\ closed = FALSE
    /\ warmed = FALSE
    /\ idle = [k \in Keys |-> {}]
    /\ refilling = {}
    /\ open = {}
    /\ hand = [p \in Procs |-> {}]
    /\ aged = {}
    /\ gpc = [g \in Gor |-> "none"]
    /\ cpc = [x \in Clients |-> "idle"]
    /\ key = [x \in Clients |-> NoKey]
    /\ zpc = "open"

\* The condition under which scheduleRefill starts a goroutine, the idle
\* connections being q.
BadMayRefill(k, q) == Enabled /\ ~closed /\ k \notin refilling  \* idle one not seen
MayRefill(k, q) == Enabled /\ ~closed /\ k \notin refilling /\ q[k] = {}

\* scheduleRefill for every key of S.
Schedule(S, q) ==
    LET start == {k \in S : MayRefill(k, q)} IN
      /\ refilling' = refilling \cup start
      /\ \E s \in [start -> Slots] :
           /\ \A k \in start : gpc[<<k, s[k]>>] = "none"
           /\ gpc' = [g \in Gor |-> IF g[1] \in start /\ g[2] = s[g[1]]
                                    THEN "next" ELSE gpc[g]]

-----------------------------------------------------------------------------
(* cfWorkerFallback of session x *)

Goto(x, l) == cpc' = [cpc EXCEPT ![x] = l]

\* get takes the idle connection, if there is one, and orders the next.
\* Sessions exist once main has called serve, after warmup.
Get(x, k) ==
    /\ cpc[x] = "idle"
    /\ warmed
    /\ key' = [key EXCEPT ![x] = k]
    /\ IF closed \/ ~Enabled \/ idle[k] = {}
       THEN Goto(x, "next") /\ UNCHANGED <<pool, hand, gpc>>
       ELSE LET q == [idle EXCEPT ![k] = {}] IN
              /\ idle' = q
              /\ hand' = [hand EXCEPT ![x] = idle[k]]
              /\ Schedule({k}, q)
              /\ Goto(x, "check")
    /\ UNCHANGED <<shared, open, aged, zpc>>

\* get drops a connection that is too old; a fresh one gets the relay init.
GetCheck(x) ==
    /\ cpc[x] = "check"
    /\ IF hand[x] \cap aged = {}
       THEN Goto(x, "init") /\ UNCHANGED conns
       ELSE Goto(x, "next") /\ Shut(x, hand[x])
    /\ UNCHANGED <<shared, pool, gpc, key, zpc>>

\* The relay init is written on the pooled connection, or the connection is
\* closed and a new one dialled.
InitOk(x) ==
    /\ cpc[x] = "init"
    /\ Goto(x, "pooled")
    /\ UNCHANGED <<shared, pool, conns, gpc, key, zpc>>

InitFail(x) ==
    /\ cpc[x] = "init"
    /\ Shut(x, hand[x])
    /\ Goto(x, "next")
    /\ UNCHANGED <<shared, pool, gpc, key, zpc>>

\* connectWorker with the session's context: the next domain is dialled ...
ConnectNext(x) ==
    /\ cpc[x] = "next"
    /\ ~cancelled
    /\ Goto(x, "dial")
    /\ UNCHANGED <<shared, pool, conns, gpc, key, zpc>>

\* ... unless none is left or the context is done: the session leaves
\* cfWorkerFallback with an error.
ConnectError(x) ==
    /\ cpc[x] = "next"
    /\ Goto(x, "idle")
    /\ key' = [key EXCEPT ![x] = NoKey]
    /\ UNCHANGED <<shared, pool, conns, gpc, zpc>>

ConnectDial(x) ==
    /\ cpc[x] = "dial"
    /\ \/ UNCHANGED conns /\ Goto(x, "next")
       \/ \E c \in Conns \ open : Open(x, c) /\ Goto(x, "write")
    /\ UNCHANGED <<shared, pool, gpc, key, zpc>>

\* The relay init is written and the context still alive, or the connection
\* is closed again.
ConnectWrite(x) ==
    /\ cpc[x] = "write"
    /\ \/ ~cancelled /\ Goto(x, "restock") /\ UNCHANGED conns
       \/ Goto(x, "next") /\ Shut(x, hand[x])
    /\ UNCHANGED <<shared, pool, gpc, key, zpc>>

\* workers.refill after a dial of its own.
Restock(x) ==
    /\ cpc[x] = "restock"
    /\ Schedule({key[x]}, idle)
    /\ Goto(x, "own")
    /\ UNCHANGED <<shared, idle, conns, key, zpc>>

\* The bridge ends and has closed the connection.
Release(x) ==
    /\ cpc[x] \in {"pooled", "own"}
    /\ Shut(x, hand[x])
    /\ Goto(x, "idle")
    /\ key' = [key EXCEPT ![x] = NoKey]
    /\ UNCHANGED <<shared, pool, gpc, zpc>>

-----------------------------------------------------------------------------
(* The refill goroutine g of key g[1] *)

Step(g, l) == gpc' = [gpc EXCEPT ![g] = l]

\* connectWorker with the pool's context: the next domain, or, when none is
\* left or the pool was closed, an error.
RefillNext(g) ==
    /\ gpc[g] = "next"
    /\ \/ ~closed /\ Step(g, "dial")
       \/ Step(g, "put")
    /\ UNCHANGED <<shared, pool, conns, cpc, key, zpc>>

RefillDial(g) ==
    /\ gpc[g] = "dial"
    /\ \/ UNCHANGED conns /\ Step(g, "next")
       \/ \E c \in Conns \ open : Open(g, c) /\ Step(g, "dialled")
    /\ UNCHANGED <<shared, pool, cpc, key, zpc>>

\* connectWorker closes the connection if the pool was closed meanwhile.
RefillContext(g) ==
    /\ gpc[g] = "dialled"
    /\ IF closed THEN Shut(g, hand[g]) /\ Step(g, "next")
       ELSE UNCHANGED conns /\ Step(g, "put")
    /\ UNCHANGED <<shared, pool, cpc, key, zpc>>

\* The goroutine's critical section: the mark goes, and the connection takes
\* the place in p.idle unless the pool was closed after connectWorker looked.
BadKeepable(g) == hand[g] # {}                       \* p.closed not looked at
Keepable(g) == hand[g] # {} /\ ~closed
RefillPut(g) ==
    /\ gpc[g] = "put"
    /\ refilling' = refilling \ {g[1]}
    /\ IF Keepable(g)
       THEN /\ idle' = [idle EXCEPT ![g[1]] = hand[g]]
            /\ hand' = [hand EXCEPT ![g] = {}]
       ELSE UNCHANGED <<idle, hand>>
    /\ Step(g, "drop")
    /\ UNCHANGED <<shared, open, aged, cpc, key, zpc>>

\* A connection that was not kept is closed, and the deferred wg.Done runs.
BadAfterDrop(g) == IF hand[g] = {} THEN "drop" ELSE "none"   \* only with a connection
AfterDrop(g) == "none"
RefillDrop(g) ==
    /\ gpc[g] = "drop"
    /\ Shut(g, hand[g])
    /\ Step(g, AfterDrop(g))
    /\ UNCHANGED <<shared, pool, cpc, key, zpc>>

-----------------------------------------------------------------------------
(* warmup, shutdown and Close *)

\* One refill per DC without an IP of its own, before main arranges for Close.
Warmup ==
    /\ ~warmed
    /\ warmed' = TRUE
    /\ Schedule(WarmKeys, idle)
    /\ UNCHANGED <<cancelled, closed, idle, conns, cpc, key, zpc>>

\* The server's context is cancelled; an AfterFunc and main's defer call Close.
Cancel ==
    /\ ~cancelled
    /\ cancelled' = TRUE
    /\ UNCHANGED <<closed, warmed, pool, conns, gpc, cpc, key, zpc>>

\* What Close leaves in p.idle.
FreshMap == [k \in Keys |-> {}]
CloseLocked ==
    /\ zpc = "open"
    /\ warmed /\ cancelled
    /\ zpc' = "closing"
    /\ closed' = TRUE
    /\ hand' = [hand EXCEPT ![Closer] = Idle]
    /\ idle' = FreshMap
    /\ UNCHANGED <<cancelled, warmed, refilling, open, aged, gpc, cpc, key>>

CloseItem ==
    /\ zpc = "closing"
    /\ \E c \in hand[Closer] : Shut(Closer, {c})
    /\ UNCHANGED <<shared, pool, gpc, cpc, key, zpc>>

\* The WaitGroup counts the goroutines.
AllDone == \A g \in Gor : gpc[g] = "none"

CloseWait ==
    /\ zpc = "closing"
    /\ hand[Closer] = {}
    /\ AllDone
    /\ zpc' = "done"
    /\ UNCHANGED <<shared, pool, conns, gpc, cpc, key>>

\* An idle connection, or one a session is looking at, reaches workerPoolMaxAge.
Age(c) ==
    /\ c \in (Idle \cup UNION {hand[x] : x \in {y \in Clients : cpc[y] = "check"}}) \ aged
    /\ aged' = aged \cup {c}
    /\ UNCHANGED <<shared, pool, open, hand, gpc, cpc, key, zpc>>

-----------------------------------------------------------------------------
Refill(g) == \/ RefillNext(g) \/ RefillDial(g) \/ RefillContext(g)
             \/ RefillPut(g) \/ RefillDrop(g)

Session(x) == \/ \E k \in Keys : Get(x, k)
              \/ GetCheck(x) \/ InitOk(x) \/ InitFail(x)
              \/ ConnectNext(x) \/ ConnectError(x) \/ ConnectDial(x) \/ ConnectWrite(x)
              \/ Restock(x) \/ Release(x)

Closing == CloseLocked \/ CloseItem \/ CloseWait

Next == \/ \E x \in Clients : Session(x)
        \/ \E g \in Gor : Refill(g)
        \/ Warmup \/ Cancel \/ Closing
        \/ \E c \in Conns : Age(c)

Spec == Init /\ [][Next]_vars

\* Goroutines run, main gets through warmup, and dials return within
\* wsConnectTimeout.  Sessions need not come or go.
Fairness == WF_vars(Warmup) /\ WF_vars(Closing) /\ \A g \in Gor : WF_vars(Refill(g))
FairSpec == Spec /\ Fairness

-----------------------------------------------------------------------------
(* Properties *)

\* Every variable has its type: in particular p.idle has at most one
\* connection per key, and a session or a goroutine holds at most one.
TypeOK ==
    /\ cancelled \in BOOLEAN /\ closed \in BOOLEAN /\ warmed \in BOOLEAN
    /\ idle \in [Keys -> SUBSET Conns]
    /\ refilling \subseteq Keys
    /\ open \subseteq Conns
    /\ hand \in [Procs -> SUBSET Conns]
    /\ \A k \in Keys : Cardinality(idle[k]) <= 1
    /\ \A p \in Procs \ {Closer} : Cardinality(hand[p]) <= 1
    /\ aged \subseteq open
    /\ gpc \in [Gor -> {"none", "next", "dial", "dialled", "put", "drop"}]
    /\ cpc \in [Clients -> {"idle", "check", "init", "pooled", "next",
                            "dial", "write", "restock", "own"}]
    /\ key \in [Clients -> Keys \cup {NoKey}]
    /\ zpc \in {"open", "closing", "done"}

\* A connection is open exactly while p.idle or a process holds it.
Owned(c) == (\E k \in Keys : c \in idle[k]) \/ (\E p \in Procs : c \in hand[p])
NoLeak == \A c \in Conns : c \in open <=> Owned(c)

\* No connection is in two places.
Exclusive ==
    /\ \A k \in Keys, p \in Procs : idle[k] \cap hand[p] = {}
    /\ \A j, k \in Keys : j # k => idle[j] \cap idle[k] = {}
    /\ \A p, q \in Procs : p # q => hand[p] \cap hand[q] = {}

\* Once Close returned, no goroutine of the pool is left and every open
\* connection belongs to a session.
CloseComplete ==
    zpc = "done" => /\ \A g \in Gor : gpc[g] = "none"
                    /\ open = UNION {hand[x] : x \in Clients}

\* Every open connection has exactly one owner, which will close it, whatever
\* sessions, refills and Close do at the same time; after Close that owner is
\* a session.
Ownership == Exclusive /\ NoLeak /\ CloseComplete

\* What the sessions hold from the pool, with its key; a connection a session
\* dialled for itself never was the pool's.
FromPool(x) == cpc[x] \in {"check", "init", "pooled"}
Lent == [x \in Clients |-> IF FromPool(x) THEN {<<key[x], c>> : c \in hand[x]} ELSE {}]
Contract == INSTANCE ConnPool WITH Capacity <- 1, avail <- idle, lent <- Lent,
                                   shut <- closed

\* The worker pool implements ConnPool with room for one connection per key.
ImplementsConnPool == Contract!Spec

\* Close returns: the dials in flight and the goroutines end.
CloseReturns == cancelled ~> (zpc = "done")
=============================================================================
