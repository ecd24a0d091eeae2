------------------------------- MODULE WSPool -------------------------------
(***************************************************************************)
(* wsPool (pool.go): the pool of pre-dialled WebSocket connections.        *)
(*                                                                         *)
(* Actors: client sessions calling getForDC, one refill goroutine per      *)
(* bucket that needs one, the rotator goroutine warmup starts, and the     *)
(* caller of Close.  An action is one critical section of p.mu, or one     *)
(* step outside the mutex that others can observe (a dial that returns, a  *)
(* connection closed).                                                     *)
(*                                                                         *)
(* Abstractions.                                                           *)
(*  - Time: a deadline is a Boolean the environment clears (backoff,       *)
(*    fronting) or a set it adds to (aged: older than wsPoolMaxAge).       *)
(*    "now := time.Now()" is a copy of aged taken at that moment.          *)
(*  - A bucket is the set of its connections, so "bucket[0]" is any of     *)
(*    them; no property depends on the order.                              *)
(*  - A connection's identity is free for reuse once it is closed.         *)
(*                                                                         *)
(* A definition whose name starts with Bad is a faulty variant of the      *)
(* definition after it.  Nothing uses it: it documents a mistake the       *)
(* properties below would catch.                                           *)
(***************************************************************************)
EXTENDS Integers, Sequences, FiniteSets

CONSTANTS Keys,        \* wsPoolKey values: DC, media flag, target IP
          Media,       \* the keys with IsMedia set
          Targets,     \* for every DC/media pair, the keys of its IPs in order
          Conns,       \* identities of live connections
          Clients,     \* sessions that may ask the pool for a connection
          Slots,       \* bound on simultaneous refill goroutines of one key
          Rotator,     \* the goroutine warmup starts
          Closer,      \* the caller of Close
          PoolSize,    \* cfg.PoolSize
          BackoffMin,  \* wsPoolBackoffMin
          BackoffMax   \* wsPoolBackoffMax

ASSUME KeysAssumption == Keys # {} /\ Media \subseteq Keys /\ Targets \subseteq Seq(Keys) \ {<<>>}

ASSUME SizeAssumption ==
    /\ PoolSize \in Nat
    /\ BackoffMin \in Nat \ {0}
    /\ BackoffMax \in Nat
    /\ BackoffMin <= BackoffMax

Gor == Keys \X Slots                              \* the refill goroutines
Procs == Clients \cup Gor \cup {Rotator, Closer}

ASSUME ProcsAssumption ==
    /\ Rotator # Closer
    /\ Rotator \notin Clients \cup Gor
    /\ Closer \notin Clients \cup Gor
    /\ Clients \cap Gor = {}

VARIABLES
    closed,     \* p.closed; p.ctx is cancelled in the same critical section
    idle,       \* p.idle: the connections in each bucket
    refilling,  \* p.refilling
    known,      \* the keys of p.routes
    delay,      \* routes[k].retryDelay
    backoff,    \* time.Now().Before(routes[k].retryAfter)
    fronting,   \* frontingActive()
    open,       \* the connections dialled and not yet closed
    hand,       \* the connections each process holds outside the buckets
    target,     \* the key a connection was dialled for
    dead,       \* the connections whose idle reader returned an error
    aged,       \* the connections at least wsPoolMaxAge old
    gpc,        \* refill: next step of each goroutine
    att,        \* refill: attempts made in this round (two per domain)
    pref,       \* refill: frontedFirst of the current domain
    tried,      \* refill: history, the <<domain, fronted>> that failed
    cpc,        \* client: next step
    want,       \* getForDC: the keys still to be asked, head first
    seen,       \* get: the connections of the bucket aged at its "now"
    rpc,        \* rotator: next step
    rseen,      \* rotate: the connections aged at its "now"
    zpc         \* Close: next step

gvars == <<gpc, att, pref, tried>>
cvars == <<cpc, want, seen>>
rvars == <<rpc, rseen>>
routes == <<known, delay, backoff>>
shared == <<closed, idle, refilling, routes, fronting>>
locals == <<gvars, cvars, rvars, zpc>>
conns == <<open, target, dead, aged>>
vars == <<shared, conns, hand, locals>>

-----------------------------------------------------------------------------
(* Connections *)

\* wsDomains: a media route has two domains, any other one.
NumDomains(k) == IF k \in Media THEN 2 ELSE 1

\* pooledWS.stale with a clock that has seen only the connections in "now"
\* reach wsPoolMaxAge.
BadStale(c, now) == c \in now                        \* the reader's error unseen
stale(c, now) == c \in now \/ c \in dead

\* The target of a connection that does not exist.
AnyKey == CHOOSE k \in Keys : TRUE

\* Every connection in a bucket.
Idle == UNION {idle[k] : k \in Keys}

\* From now on process p holds the connections S outside the buckets.
Take(p, S) == hand' = [hand EXCEPT ![p] = S]

\* Close of every connection in S; its identity is free again.
Shut(S) ==
    /\ open' = open \ S
    /\ aged' = aged \ S
    /\ dead' = dead \ S
    /\ seen' = [x \in Clients |-> seen[x] \ S]
    /\ rseen' = rseen \ S
    /\ target' = [c \in Conns |-> IF c \in S THEN AnyKey ELSE target[c]]

-----------------------------------------------------------------------------
Init ==
    /\ closed = FALSE
    /\ idle = [k \in Keys |-> {}]
    /\ refilling = {}
    /\ known = {}
    /\ delay = [k \in Keys |-> 0]
    /\ backoff = [k \in Keys |-> FALSE]
    /\ fronting = FALSE
    /\ open = {}
    /\ hand = [p \in Procs |-> {}]
    /\ target = [c \in Conns |-> AnyKey]
    /\ dead = {}
    /\ aged = {}
    /\ gpc = [g \in Gor |-> "none"]
    /\ att = [g \in Gor |-> 0]
    /\ pref = [g \in Gor |-> FALSE]
    /\ tried = [g \in Gor |-> {}]
    /\ cpc = [x \in Clients |-> "idle"]
    /\ want = [x \in Clients |-> <<>>]
    /\ seen = [x \in Clients |-> {}]
    /\ rpc = "off"
    /\ rseen = {}
    /\ zpc = "open"

\* The condition under which scheduleRefill starts a goroutine for key k, the
\* buckets being q.
BadNeedsRefillTwice(k, q) == Cardinality(q[k]) < PoolSize /\ ~backoff[k]
BadNeedsRefillNow(k, q) == k \notin refilling /\ Cardinality(q[k]) < PoolSize
NeedsRefill(k, q) == /\ k \notin refilling
                     /\ Cardinality(q[k]) < PoolSize
                     /\ ~backoff[k]

\* scheduleRefill for every key of S: unknown routes are recorded and the keys
\* that need it get a goroutine.
Schedule(S, q) ==
    LET start == {k \in S : NeedsRefill(k, q)}
    IN  IF closed \/ PoolSize = 0
        THEN UNCHANGED <<known, refilling, gpc>>
        ELSE /\ known' = known \cup S
             /\ refilling' = refilling \cup start
             /\ \E s \in [start -> Slots] :
                  /\ \A k \in start : gpc[<<k, s[k]>>] = "none"
                  /\ gpc' = [g \in Gor |->
                               IF g[1] \in start /\ g[2] = s[g[1]]
                               THEN "check" ELSE gpc[g]]

-----------------------------------------------------------------------------
(* getForDC and get *)

\* getForDC: the session asks for a DC; get reads the clock for the first IP.
Request(x, ks) ==
    /\ cpc[x] = "idle"
    /\ PoolSize > 0
    /\ cpc' = [cpc EXCEPT ![x] = "get"]
    /\ want' = [want EXCEPT ![x] = ks]
    /\ seen' = [seen EXCEPT ![x] = aged \cap idle[Head(ks)]]
    /\ UNCHANGED <<shared, conns, hand, gvars, rvars, zpc>>

\* get returned nil: the next IP is asked with a new clock reading, and after
\* the last one getForDC returns nil.
NextTarget(x) ==
    LET ks == Tail(want[x]) IN
      /\ want' = [want EXCEPT ![x] = ks]
      /\ cpc' = [cpc EXCEPT ![x] = IF ks = <<>> THEN "idle" ELSE "get"]
      /\ seen' = [seen EXCEPT ![x] = IF ks = <<>> THEN {} ELSE aged \cap idle[Head(ks)]]

\* The bucket get works on.
BadPoolKey(x) == want[x][Len(want[x])]                \* IPs share a bucket
poolKey(x) == Head(want[x])

\* get finds the bucket empty, or the pool closed.
GetMiss(x) ==
    /\ cpc[x] = "get"
    /\ LET k == poolKey(x) IN
         /\ closed \/ idle[k] = {}
         /\ Schedule({k}, idle)
    /\ NextTarget(x)
    /\ UNCHANGED <<closed, idle, delay, backoff, fronting, conns, hand, att,
                   pref, tried, rvars, zpc>>

\* get takes a connection out of the bucket.
GetPop(x) ==
    /\ cpc[x] = "get"
    /\ ~closed
    /\ LET k == poolKey(x) IN
         \E c \in idle[k] :
            LET q == [idle EXCEPT ![k] = @ \ {c}] IN
              /\ idle' = q
              /\ Take(x, {c})
              /\ Schedule({k}, q)
    /\ cpc' = [cpc EXCEPT ![x] = "check"]
    /\ UNCHANGED <<closed, delay, backoff, fronting, conns, att, pref,
                   tried, want, seen, rvars, zpc>>

\* The popped connection is fresh: the session owns it from here on.
GetFresh(x) ==
    /\ cpc[x] = "check"
    /\ \A c \in hand[x] : ~stale(c, seen[x])
    /\ cpc' = [cpc EXCEPT ![x] = "using"]
    /\ seen' = [seen EXCEPT ![x] = {}]
    /\ UNCHANGED <<shared, conns, hand, gvars, want, rvars, zpc>>

\* The popped connection is stale: it is closed and the loop goes round with
\* the same "now".
GetStale(x) ==
    /\ cpc[x] = "check"
    /\ \E c \in hand[x] : stale(c, seen[x])
    /\ Shut(hand[x])
    /\ Take(x, {})
    /\ cpc' = [cpc EXCEPT ![x] = "get"]
    /\ UNCHANGED <<shared, gvars, want, rpc, zpc>>

\* The session ends and closes the connection it got from the pool.
Release(x) ==
    /\ cpc[x] = "using"
    /\ Shut(hand[x])
    /\ Take(x, {})
    /\ cpc' = [cpc EXCEPT ![x] = "idle"]
    /\ want' = [want EXCEPT ![x] = <<>>]
    /\ UNCHANGED <<shared, gvars, rpc, zpc>>

-----------------------------------------------------------------------------
(* refill, by goroutine g of key g[1] *)

\* The length check of refill's loop.
BadNeverFull(k) == FALSE                              \* checked by scheduleRefill only
BadFull(k) == Cardinality(idle[k]) > PoolSize         \* off by one
Full(k) == Cardinality(idle[k]) >= PoolSize

\* The critical section at the top of refill's loop.
RefillCheck(g) ==
    /\ gpc[g] = "check"
    /\ IF closed \/ Full(g[1])
       THEN gpc' = [gpc EXCEPT ![g] = "exit"]
       ELSE gpc' = [gpc EXCEPT ![g] = "try"]
    /\ UNCHANGED <<shared, conns, hand, att, pref, tried, cvars, rvars, zpc>>

\* The two modes of a domain are frontedFirst and its negation; frontedFirst
\* is read once per domain.
BadFronted(g) == IF att[g] % 2 = 0 THEN fronting ELSE ~fronting   \* read twice
Fronted(g) == IF att[g] % 2 = 0 THEN pref[g] ELSE ~pref[g]
Attempt(g) == <<att[g] \div 2 + 1, Fronted(g)>>

\* A round of attempts is over, its loop variables go out of scope.
RoundOver(g) ==
    /\ att' = [att EXCEPT ![g] = 0]
    /\ pref' = [pref EXCEPT ![g] = FALSE]
    /\ tried' = [tried EXCEPT ![g] = {}]

\* The head of an attempt: frontedFirst is read, the context checked.
RefillTry(g) ==
    /\ gpc[g] = "try"
    /\ IF closed
       THEN gpc' = [gpc EXCEPT ![g] = "exit"] /\ RoundOver(g)
       ELSE /\ gpc' = [gpc EXCEPT ![g] = "dial"]
            /\ pref' = IF att[g] % 2 = 0 THEN [pref EXCEPT ![g] = fronting] ELSE pref
            /\ UNCHANGED <<att, tried>>
    /\ UNCHANGED <<shared, conns, hand, cvars, rvars, zpc>>

\* The dial succeeds, perhaps after Close: the mode that worked is remembered
\* for every route.
RefillDialOk(g) ==
    /\ gpc[g] = "dial"
    /\ \E c \in Conns \ open :
         /\ open' = open \cup {c}
         /\ target' = [target EXCEPT ![c] = g[1]]
         /\ Take(g, {c})
    /\ fronting' = Fronted(g)
    /\ gpc' = [gpc EXCEPT ![g] = "put"]
    /\ RoundOver(g)
    /\ UNCHANGED <<closed, idle, refilling, routes, dead, aged, cvars,
                   rvars, zpc>>

\* The dial fails: the other mode, the next domain, or none is left.
RefillDialFail(g) ==
    /\ gpc[g] = "dial"
    /\ IF closed
       THEN gpc' = [gpc EXCEPT ![g] = "exit"] /\ RoundOver(g)
       ELSE /\ att' = [att EXCEPT ![g] = @ + 1]
            /\ UNCHANGED pref
            /\ tried' = [tried EXCEPT ![g] = @ \cup {Attempt(g)}]
            /\ gpc' = [gpc EXCEPT ![g] =
                         IF att[g] + 1 = 2 * NumDomains(g[1]) THEN "fail" ELSE "try"]
    /\ UNCHANGED <<shared, conns, hand, cvars, rvars, zpc>>

\* retryDelay after one more failed round.
NextDelay(d) ==
    LET e == IF 2 * d < BackoffMin THEN BackoffMin ELSE 2 * d
    IN  IF e > BackoffMax THEN BackoffMax ELSE e

\* Every domain failed in both modes: the route backs off.
RefillFail(g) ==
    /\ gpc[g] = "fail"
    /\ gpc' = [gpc EXCEPT ![g] = "exit"]
    /\ IF closed
       THEN UNCHANGED routes
       ELSE /\ known' = known \cup {g[1]}
            /\ delay' = [delay EXCEPT ![g[1]] = NextDelay(@)]
            /\ backoff' = [backoff EXCEPT ![g[1]] = TRUE]
    /\ RoundOver(g)
    /\ UNCHANGED <<closed, idle, refilling, fronting, conns, hand, cvars,
                   rvars, zpc>>

\* The new connection goes into the bucket and the backoff is forgotten.
AddToBucket(g) ==
    /\ gpc' = [gpc EXCEPT ![g] = "check"]
    /\ idle' = [idle EXCEPT ![g[1]] = @ \cup hand[g]]
    /\ Take(g, {})
    /\ known' = known \cup {g[1]}
    /\ delay' = [delay EXCEPT ![g[1]] = 0]
    /\ backoff' = [backoff EXCEPT ![g[1]] = FALSE]

\* The critical section after a successful dial: the pool may have been
\* closed meanwhile.
BadStillOpen == TRUE                                  \* not checked again
StillOpen == ~closed
RefillPut(g) ==
    /\ gpc[g] = "put"
    /\ IF StillOpen
       THEN AddToBucket(g)
       ELSE gpc' = [gpc EXCEPT ![g] = "drop"] /\ UNCHANGED <<idle, hand, routes>>
    /\ UNCHANGED <<closed, refilling, fronting, conns, att, pref, tried,
                   cvars, rvars, zpc>>

\* The connection that came too late is closed.
RefillDrop(g) ==
    /\ gpc[g] = "drop"
    /\ Shut(hand[g])
    /\ Take(g, {})
    /\ gpc' = [gpc EXCEPT ![g] = "exit"]
    /\ UNCHANGED <<shared, att, pref, tried, cpc, want, rpc, zpc>>

\* refill's deferred critical section, and wg.Done.
RefillExit(g) ==
    /\ gpc[g] = "exit"
    /\ refilling' = refilling \ {g[1]}
    /\ gpc' = [gpc EXCEPT ![g] = "none"]
    /\ UNCHANGED <<closed, idle, routes, fronting, conns, hand, att, pref,
                   tried, cvars, rvars, zpc>>

-----------------------------------------------------------------------------
(* warmup, the rotator and Close *)

\* warmup: every configured route is scheduled and the rotator starts.
Warmup ==
    /\ rpc = "off"
    /\ PoolSize > 0
    /\ ~closed
    /\ Schedule(Keys, idle)
    /\ rpc' = "wait"
    /\ UNCHANGED <<closed, idle, delay, backoff, fronting, conns, hand, att,
                   pref, tried, cvars, rseen, zpc>>

\* The ticker fires and rotate reads the clock.
RotateTick ==
    /\ rpc = "wait"
    /\ rpc' = "lock"
    /\ rseen' = aged \cap Idle
    /\ UNCHANGED <<shared, conns, hand, gvars, cvars, zpc>>

\* The routes rotate schedules, q being the buckets without what expired.
BadDue(q) == {k \in known : q[k] # idle[k]}           \* only where some expired
Due(q) == known

\* rotate's critical section: stale connections leave the buckets of every
\* known route, and every known route is scheduled.
RotateLocked ==
    /\ rpc = "lock"
    /\ LET q == [k \in Keys |-> IF k \in known
                                THEN {c \in idle[k] : ~stale(c, rseen)}
                                ELSE idle[k]]
       IN  /\ idle' = q
           /\ Take(Rotator, UNION {idle[k] \ q[k] : k \in Keys})
           /\ Schedule(Due(q), q)
    /\ rpc' = "close"
    /\ rseen' = {}
    /\ UNCHANGED <<closed, delay, backoff, fronting, conns, att, pref,
                   tried, cvars, zpc>>

\* rotate closes what it took out, one connection at a time.
RotateClose ==
    /\ rpc = "close"
    /\ IF hand[Rotator] = {}
       THEN rpc' = "wait" /\ UNCHANGED <<conns, seen, rseen, hand>>
       ELSE \E c \in hand[Rotator] :
              /\ Shut({c})
              /\ Take(Rotator, hand[Rotator] \ {c})
              /\ UNCHANGED rpc
    /\ UNCHANGED <<shared, gvars, cpc, want, zpc>>

\* The select takes ctx.Done: the rotator ends.
BadRotateStop == FALSE /\ UNCHANGED vars              \* waits for the ticker only
RotateStop ==
    /\ rpc = "wait"
    /\ closed
    /\ rpc' = "done"
    /\ UNCHANGED <<shared, conns, hand, gvars, cvars, rseen, zpc>>

\* The buckets Close leaves behind.
BadFreshMap == idle                                   \* the map is not replaced
FreshMap == [k \in Keys |-> {}]

\* Close's critical section.
CloseLocked ==
    /\ zpc = "open"
    /\ zpc' = "closing"
    /\ closed' = TRUE
    /\ Take(Closer, Idle)
    /\ idle' = FreshMap
    /\ UNCHANGED <<refilling, routes, fronting, conns, gvars, cvars, rvars>>

\* Close closes what it took out, one connection at a time.
CloseItem ==
    /\ zpc = "closing"
    /\ \E c \in hand[Closer] :
         /\ Shut({c})
         /\ Take(Closer, hand[Closer] \ {c})
    /\ UNCHANGED <<shared, gvars, cpc, want, rpc, zpc>>

\* The WaitGroup counts the refill goroutines and the rotator.
BadAllDone == TRUE                                    \* no wg.Wait
AllDone == (\A g \in Gor : gpc[g] = "none") /\ rpc \in {"off", "done"}

\* wg.Wait returns once every refill goroutine and the rotator are gone.
CloseWait ==
    /\ zpc = "closing"
    /\ hand[Closer] = {}
    /\ AllDone
    /\ zpc' = "done"
    /\ UNCHANGED <<shared, conns, hand, gvars, cvars, rvars>>

-----------------------------------------------------------------------------
(* The environment: the peers and the clock *)

\* newPooledWS starts the clock and the idle reader of a connection when it
\* enters a bucket; they matter until the connection is handed out or dropped.
Watched == Idle \cup UNION {hand[x] : x \in {y \in Clients : cpc[y] = "check"}}

\* The idle reader returns an error: the peer closed the connection before it
\* sent any data.  (After a data message nobody reads until the bridge does, so
\* such a connection is never seen dead.)
Die(c) ==
    /\ c \in Watched \ dead
    /\ dead' = dead \cup {c}
    /\ UNCHANGED <<shared, open, target, aged, hand, locals>>

\* A connection reaches wsPoolMaxAge.
Age(c) ==
    /\ c \in Watched \ aged
    /\ aged' = aged \cup {c}
    /\ UNCHANGED <<shared, open, target, dead, hand, locals>>

\* The retryAfter of a route passes.
BackoffExpire(k) ==
    /\ backoff[k]
    /\ backoff' = [backoff EXCEPT ![k] = FALSE]
    /\ UNCHANGED <<closed, idle, refilling, known, delay, fronting, conns,
                   hand, locals>>

\* frontingUntil passes.
FrontingExpire ==
    /\ fronting
    /\ fronting' = FALSE
    /\ UNCHANGED <<closed, idle, refilling, routes, conns, hand, locals>>

-----------------------------------------------------------------------------
Refill(g) == \/ RefillCheck(g) \/ RefillTry(g) \/ RefillDialOk(g)
             \/ RefillDialFail(g) \/ RefillFail(g) \/ RefillPut(g)
             \/ RefillDrop(g) \/ RefillExit(g)

Get(x) == GetMiss(x) \/ GetPop(x) \/ GetFresh(x) \/ GetStale(x)

Rotate == RotateTick \/ RotateLocked \/ RotateClose

Environment == \/ \E c \in Conns : Die(c) \/ Age(c)
               \/ \E k \in Keys : BackoffExpire(k)
               \/ FrontingExpire

Next == \/ \E x \in Clients : \/ \E ks \in Targets : Request(x, ks)
                              \/ Get(x)
                              \/ Release(x)
        \/ \E g \in Gor : Refill(g)
        \/ Warmup \/ Rotate \/ RotateStop
        \/ CloseLocked \/ CloseItem \/ CloseWait
        \/ Environment

Spec == Init /\ [][Next]_vars

\* The Go scheduler runs every runnable goroutine and a dial returns within
\* poolConnectTimeout (weak fairness).  select picks at random among its
\* ready cases, so a rotator that keeps coming back to it after Close
\* sometimes takes ctx.Done (strong fairness).  Sessions and peers may do
\* nothing for ever.
Fairness == /\ \A g \in Gor : WF_vars(Refill(g))
            /\ \A x \in Clients : WF_vars(Get(x))
            /\ WF_vars(Warmup)
            /\ WF_vars(Rotate)
            /\ SF_vars(RotateStop)
            /\ WF_vars(CloseItem \/ CloseWait)
            /\ \A k \in Keys : WF_vars(BackoffExpire(k))

FairSpec == Spec /\ Fairness

-----------------------------------------------------------------------------
(* Properties *)

\* The next steps of the goroutines, in program order.
GPC == {"none", "check", "try", "dial", "fail", "put", "drop", "exit"}

PoolType ==
    /\ closed \in BOOLEAN
    /\ idle \in [Keys -> SUBSET Conns]
    /\ refilling \subseteq Keys
    /\ known \subseteq Keys
    /\ delay \in [Keys -> {0} \cup BackoffMin..BackoffMax]
    /\ backoff \in [Keys -> BOOLEAN]
    /\ fronting \in BOOLEAN

ConnType ==
    /\ open \subseteq Conns
    /\ hand \in [Procs -> SUBSET Conns]
    /\ target \in [Conns -> Keys]
    /\ dead \subseteq open
    /\ aged \subseteq open
    /\ seen \in [Clients -> SUBSET open]
    /\ rseen \subseteq open

GorType ==
    /\ gpc \in [Gor -> GPC]
    /\ att \in [Gor -> Nat]
    /\ pref \in [Gor -> BOOLEAN]
    /\ tried \in [Gor -> SUBSET (Nat \X BOOLEAN)]

ControlType ==
    /\ cpc \in [Clients -> {"idle", "get", "check", "using"}]
    /\ want \in [Clients -> Seq(Keys)]
    /\ rpc \in {"off", "wait", "lock", "close", "done"}
    /\ zpc \in {"open", "closing", "done"}

\* Every variable has its type; in particular retryDelay is 0 or between
\* wsPoolBackoffMin and wsPoolBackoffMax, and only open connections are
\* watched.
TypeOK == PoolType /\ ConnType /\ GorType /\ ControlType

\* A bucket never holds more than PoolSize connections, although its length
\* is checked in one critical section and appended to in a later one, with a
\* dial in between (refill).
IdleBound == \A k \in Keys : Cardinality(idle[k]) <= PoolSize

\* The p.refilling mark and the refill goroutines agree: a marked key has one
\* live goroutine, any other key none, whoever scheduled it (get, rotate,
\* warmup).
OneRefill ==
    /\ \A k \in refilling : \E s \in Slots : gpc[<<k, s>>] # "none"
    /\ \A g \in Gor : gpc[g] # "none" => g[1] \in refilling
    /\ \A g, h \in Gor : gpc[g] # "none" /\ gpc[h] # "none" /\ g[1] = h[1] => g = h

\* No connection is in two places: two buckets, a bucket and a process, or
\* two processes (a client would share its stream with another client, or
\* see it closed under it by the rotator or by Close).
Exclusive ==
    /\ \A j, k \in Keys : j # k => idle[j] \cap idle[k] = {}
    /\ \A k \in Keys, p \in Procs : idle[k] \cap hand[p] = {}
    /\ \A p, q \in Procs : p # q => hand[p] \cap hand[q] = {}

\* No connection leaks: every open connection is in a bucket or in the hands
\* of a process that will close it, and nothing there is already closed.
Held(c) == (\E k \in Keys : c \in idle[k]) \/ (\E p \in Procs : c \in hand[p])
NoLeak == \A c \in Conns : c \in open <=> Held(c)

\* Both together: every open connection has exactly one owner, which will
\* close it, whatever get, refill, rotate and Close do at the same time.
Ownership == Exclusive /\ NoLeak

\* Once Close returned, no goroutine of the pool is left and the only open
\* connections are those of sessions that are using them.
CloseComplete ==
    zpc = "done" => /\ \A g \in Gor : gpc[g] = "none"
                    /\ rpc \in {"off", "done"}
                    /\ open = UNION {hand[x] : x \in Clients}

\* A session only holds a connection dialled for the DC, media flag and IP it
\* is asking for, even after other buckets and the fronting mode changed.
RouteMatch ==
    \A x \in Clients : \A c \in hand[x] : want[x] # <<>> /\ target[c] = Head(want[x])

\* While a route backs off nothing dials it: neither a refill that is under
\* way nor one started by a get or a rotation in between.
BackoffQuiet ==
    \A g \in Gor : backoff[g[1]] => gpc[g] \in {"none", "exit"}

\* A refill gives up only after every domain failed both directly and
\* fronted, although other goroutines change the fronting mode meanwhile.
AllModesTried ==
    \A g \in Gor : gpc[g] = "fail" => tried[g] = (1..NumDomains(g[1])) \X BOOLEAN

\* The descriptors fitsFDBudget reserves for a bucket are enough: idle
\* connections, the one being dialled, and the stale ones the rotator or Close
\* is still closing are at most half of what it reserves for an IP, which has a
\* media and a non-media bucket.
Dialling(k) == \E s \in Slots : gpc[<<k, s>>] = "dial"
Reserve == 4 * PoolSize                  \* of fitsFDBudget, for one IP
PoolHeld(k) == {c \in open : target[c] = k} \ UNION {hand[x] : x \in Clients}
FDBound ==
    \A k \in Keys : Cardinality(PoolHeld(k)) + (IF Dialling(k) THEN 1 ELSE 0)
                      <= Reserve \div 2

\* After Close nothing starts: no refill goroutine, no rotator, and no bucket
\* ever gets a connection again.
NothingAfterClose ==
    [][closed => /\ \A g \in Gor : gpc[g] = "none" => gpc'[g] = "none"
                 /\ rpc = "off" => rpc' = "off"
                 /\ idle' = idle
                 /\ closed']_vars

\* What the clients hold, with the key they asked for.
Lent == [x \in Clients |-> {<<Head(want[x]), c>> : c \in hand[x]}]

\* The pool implements ConnPool: seen from its clients, an operation of the
\* pool is one atomic step or none.
Pool == INSTANCE ConnPool WITH Capacity <- PoolSize, avail <- idle,
                               lent <- Lent, shut <- closed
ImplementsConnPool == Pool!Spec

\* A known route that is short of connections gets a refill attempt, fills up
\* or is closed.  A get that pops the last connection between refill's length
\* check and its delete(p.refilling) schedules nothing; rotate repairs that.
Short(k) == k \in known /\ Cardinality(idle[k]) < PoolSize
Replenished ==
    \A k \in Keys : Short(k) ~> (closed \/ ~Short(k) \/ Dialling(k))

\* A connection that got too old or whose peer went away does not stay in its
\* bucket, even if no client ever asks for it.
StaleLeaves ==
    \A k \in Keys, c \in Conns :
        (k \in known /\ c \in idle[k] /\ c \in aged \cup dead) ~> (c \notin idle[k])

\* Close returns: the dials in flight, the refills and the rotator all end.
CloseReturns == (zpc = "closing") ~> (zpc = "done")
=============================================================================
