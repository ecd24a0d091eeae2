------------------------------- MODULE Server -------------------------------
(***************************************************************************)
(* main and serve (server.go): the accept loop with its semaphore of       *)
(* MaxConns sessions, the session goroutines with the route each of them   *)
(* takes through handleClient and handleMTProtoClient, and the shutdown.   *)
(*                                                                         *)
(* A route either fails before any byte of the client was forwarded or     *)
(* carries the session to its end.  What happens inside is left to other   *)
(* modules: WSPool, WorkerPool, CFProxy and TCPBackoff for the connection, *)
(* Bridge for the forwarding.  Faulty variants are named Bad..., as in     *)
(* WSPool.                                                                 *)
(***************************************************************************)
EXTENDS Naturals, Sequences, FiniteSets

CONSTANTS Sessions,    \* the client connections that may exist at a time
          MaxConns,    \* cfg.MaxConns
          Confs,       \* the configurations that occur
          Tasks,       \* main's background goroutines: stats, refresh, pprof
          BackoffMin,  \* acceptBackoffMin
          BackoffMax,  \* acceptBackoffMax
          NoConn       \* no connection

ASSUME ServerAssumption == /\ NoConn \notin Sessions
                           /\ Confs \subseteq [worker : BOOLEAN, cf : BOOLEAN, priority : BOOLEAN]
                           /\ MaxConns \in Nat \ {0}
                           /\ BackoffMin \in Nat \ {0}
                           /\ BackoffMax \in Nat
                           /\ BackoffMin <= BackoffMax

VARIABLES
    conf,       \* the parts of the configuration that choose routes
    cancelled,  \* main's context, which is cfg.context(), is done
    ctx,        \* the context serve derives from it is done
    ln,         \* the listener: "open" or "closed"
    apc,        \* main and its accept loop: next step
    conn,       \* the connection the accept loop has just accepted
    backoff,    \* acceptBackoff
    sem,        \* the number of elements in sessionsSem
    sock,       \* each client connection: "none", "open" or "closed"
    spc,        \* session goroutine: next step
    plan,       \* session: the fallback routes not yet tried, in order
    tried,      \* session: the routes that failed (history)
    served,     \* session: the routes that carried it (history)
    pools,      \* the two pools: "open" or "closed"
    tasks       \* the background goroutines that run

session == <<sock, spc, plan, tried, served>>
loop == <<ln, apc, conn, backoff, sem>>
rest == <<pools, tasks>>
vars == <<conf, cancelled, ctx, loop, session, rest>>

Init ==
    /\ conf \in Confs
    /\ cancelled = FALSE
    /\ ctx = FALSE
    /\ ln = "open"
    /\ apc = "accept"
    /\ conn = NoConn
    /\ backoff = BackoffMin
    /\ sem = 0
    /\ sock = [s \in Sessions |-> "none"]
    /\ spc = [s \in Sessions |-> "none"]
    /\ plan = [s \in Sessions |-> <<>>]
    /\ tried = [s \in Sessions |-> {}]
    /\ served = [s \in Sessions |-> {}]
    /\ pools = "open"
    /\ tasks = Tasks

-----------------------------------------------------------------------------
(* The accept loop *)

\* A client connects and is accepted.
Accept(s) ==
    /\ apc = "accept"
    /\ ln = "open"
    /\ sock[s] = "none"
    /\ sock' = [sock EXCEPT ![s] = "open"]
    /\ conn' = s
    /\ backoff' = BackoffMin
    /\ apc' = "dispatch"
    /\ UNCHANGED <<conf, cancelled, ctx, ln, sem, spc, plan, tried, served, rest>>

\* Accept's poll deadline passes: another round.
AcceptTimeout ==
    /\ apc = "accept"
    /\ ~ctx
    /\ backoff' = BackoffMin
    /\ UNCHANGED <<conf, cancelled, ctx, ln, apc, conn, sem, session, rest>>

\* The pause after the next accept error.
NextBackoff(b) == IF 2 * b > BackoffMax THEN BackoffMax ELSE 2 * b

\* Another error: the loop sleeps.
AcceptError ==
    /\ apc = "accept"
    /\ ~ctx
    /\ ln = "open"
    /\ backoff' = NextBackoff(backoff)
    /\ apc' = "sleep"
    /\ UNCHANGED <<conf, cancelled, ctx, ln, conn, sem, session, rest>>

Wake ==
    /\ apc = "sleep"
    /\ apc' = "accept"
    /\ UNCHANGED <<conf, cancelled, ctx, ln, conn, backoff, sem, session, rest>>

\* The errors of Accept that end the loop.
BadFatal == ctx /\ ln = "open"                        \* a closed listener is retried
Fatal == ctx \/ ln = "closed"

\* Accept fails and the context is done, or the listener closed: serve leaves
\* its loop and its deferred function cancels the sessions.
AcceptStop ==
    /\ apc = "accept"
    /\ Fatal
    /\ ctx' = TRUE
    /\ apc' = "wait"
    /\ UNCHANGED <<conf, cancelled, ln, conn, backoff, sem, session, rest>>

\* The select on the semaphore; its default case keeps it from blocking.
MayStart == sem < MaxConns

\* A slot is free: the connection gets a session goroutine.
Start ==
    /\ apc = "dispatch"
    /\ MayStart
    /\ sem' = sem + 1
    /\ spc' = [spc EXCEPT ![conn] = "handshake"]
    /\ conn' = NoConn
    /\ apc' = "accept"
    /\ UNCHANGED <<conf, cancelled, ctx, ln, backoff, sock, plan, tried, served, rest>>

\* None is: the connection is closed at once.
Refuse ==
    /\ apc = "dispatch"
    /\ ~MayStart
    /\ sock' = [sock EXCEPT ![conn] = "none"]
    /\ conn' = NoConn
    /\ apc' = "accept"
    /\ UNCHANGED <<conf, cancelled, ctx, ln, backoff, sem, spc, plan, tried, served, rest>>

-----------------------------------------------------------------------------
(* A session goroutine *)

Goto(s, l) == spc' = [spc EXCEPT ![s] = l]

\* handleClient reads and checks the handshake (behind a fake TLS handshake
\* if there is one; the masking relay runs under the same read deadline).  It
\* ends in a valid one, a bad one, the client's end, the deadline, or a panic
\* that serve recovers.
Handshake(s) ==
    /\ spc[s] = "handshake"
    /\ \/ sock[s] = "open" /\ Goto(s, "pool")
       \/ Goto(s, "close")
    /\ UNCHANGED <<conf, cancelled, ctx, loop, sock, plan, tried, served, rest>>

\* doFallback's order of the routes.
BadFallbacks == (IF conf.worker THEN <<"worker">> ELSE <<>>) \o
                (IF conf.cf /\ conf.priority THEN <<"cf">> ELSE <<"tcp">>)
Fallbacks == (IF conf.worker THEN <<"worker">> ELSE <<>>) \o
             (CASE conf.cf /\ conf.priority -> <<"cf", "tcp">>
                [] conf.cf /\ ~conf.priority -> <<"tcp", "cf">>
                [] ~conf.cf -> <<"tcp">>)

\* The pool has a connection and the relay init is written to it, or the
\* session falls back.
PoolHit(s) ==
    /\ spc[s] = "pool"
    /\ pools = "open"
    /\ served' = [served EXCEPT ![s] = @ \cup {"pool"}]
    /\ Goto(s, "bridge")
    /\ UNCHANGED <<conf, cancelled, ctx, loop, sock, plan, tried, rest>>

PoolMiss(s) ==
    /\ spc[s] = "pool"
    /\ tried' = [tried EXCEPT ![s] = @ \cup {"pool"}]
    /\ plan' = [plan EXCEPT ![s] = Fallbacks]
    /\ Goto(s, "fallback")
    /\ UNCHANGED <<conf, cancelled, ctx, loop, sock, served, rest>>

\* The next route connects and carries the session ...
RouteOk(s) ==
    /\ spc[s] = "fallback"
    /\ plan[s] # <<>>
    /\ ~cancelled \/ (Head(plan[s]) = "worker" /\ pools = "open")  \* a pool hit
    /\ served' = [served EXCEPT ![s] = @ \cup {Head(plan[s])}]
    /\ Goto(s, "bridge")
    /\ UNCHANGED <<conf, cancelled, ctx, loop, sock, plan, tried, rest>>

\* ... or fails (a timeout, a cooldown, no domain, the shutdown) ...
RouteFail(s) ==
    /\ spc[s] = "fallback"
    /\ plan[s] # <<>>
    /\ tried' = [tried EXCEPT ![s] = @ \cup {Head(plan[s])}]
    /\ plan' = [plan EXCEPT ![s] = Tail(@)]
    /\ UNCHANGED <<conf, cancelled, ctx, loop, sock, spc, served, rest>>

\* ... and after the last one there is "no fallback available".
NoRoute(s) ==
    /\ spc[s] = "fallback"
    /\ plan[s] = <<>>
    /\ Goto(s, "close")
    /\ UNCHANGED <<conf, cancelled, ctx, loop, sock, plan, tried, served, rest>>

\* The bridge ends: by itself, ...
PeerEnds(s) ==
    /\ spc[s] = "bridge"
    /\ Goto(s, "close")
    /\ UNCHANGED <<conf, cancelled, ctx, loop, sock, plan, tried, served, rest>>

\* ... or because its client connection was closed or the context is done.
Torn(s) ==
    /\ spc[s] = "bridge"
    /\ sock[s] = "closed" \/ cancelled
    /\ Goto(s, "close")
    /\ UNCHANGED <<conf, cancelled, ctx, loop, sock, plan, tried, served, rest>>

\* handleClient's deferred Close, and the recover that closes again.
Close(s) ==
    /\ spc[s] = "close"
    /\ sock' = [sock EXCEPT ![s] = "closed"]
    /\ Goto(s, "release")
    /\ UNCHANGED <<conf, cancelled, ctx, loop, plan, tried, served, rest>>

\* The slot is given back, whatever became of the session.
BadFreed(s) == IF served[s] = {} THEN 0 ELSE 1        \* not on the early returns
Freed(s) == 1
Release(s) ==
    /\ spc[s] = "release"
    /\ sem > 0
    /\ sem' = sem - Freed(s)
    /\ Goto(s, "done")
    /\ UNCHANGED <<conf, cancelled, ctx, ln, apc, conn, backoff, sock, plan, tried,
                   served, rest>>

\* stopClient and clients.Done: nothing is left of the session.
Done(s) ==
    /\ spc[s] = "done"
    /\ Goto(s, "none")
    /\ sock' = [sock EXCEPT ![s] = "none"]
    /\ plan' = [plan EXCEPT ![s] = <<>>]
    /\ tried' = [tried EXCEPT ![s] = {}]
    /\ served' = [served EXCEPT ![s] = {}]
    /\ UNCHANGED <<conf, cancelled, ctx, loop, rest>>

-----------------------------------------------------------------------------
(* The shutdown *)

\* SIGINT or SIGTERM: the context and the one derived from it are done.
Cancel ==
    /\ ~cancelled
    /\ cancelled' = TRUE
    /\ ctx' = TRUE
    /\ UNCHANGED <<conf, loop, session, rest>>

\* serve's AfterFunc closes the listener.
CloseListener ==
    /\ ctx
    /\ ln = "open"
    /\ ln' = "closed"
    /\ UNCHANGED <<conf, cancelled, ctx, apc, conn, backoff, sem, session, rest>>

\* The AfterFunc of session s, which stopClient disarms, closes its client.
CloseClient(s) ==
    /\ ctx
    /\ spc[s] \notin {"none", "done"}
    /\ sock[s] = "open"
    /\ sock' = [sock EXCEPT ![s] = "closed"]
    /\ UNCHANGED <<conf, cancelled, ctx, loop, spc, plan, tried, served, rest>>

\* main's AfterFunc closes the pools.
ClosePools ==
    /\ cancelled
    /\ pools = "open"
    /\ pools' = "closed"
    /\ UNCHANGED <<conf, cancelled, ctx, loop, session, tasks>>

\* A background goroutine sees the context.
EndTask(t) ==
    /\ cancelled
    /\ t \in tasks
    /\ tasks' = tasks \ {t}
    /\ UNCHANGED <<conf, cancelled, ctx, loop, session, pools>>

\* clients.Wait returns when every session is gone.
BadNoClients == sem = 0                               \* the semaphore instead
NoClients == \A s \in Sessions : spc[s] = "none"
Served ==
    /\ apc = "wait"
    /\ NoClients
    /\ apc' = "finish"
    /\ UNCHANGED <<conf, cancelled, ctx, ln, conn, backoff, sem, session, rest>>

\* main's deferred function: cancel, close the pools (or wait for whoever is
\* closing them) ...
Finish ==
    /\ apc = "finish"
    /\ cancelled' = TRUE
    /\ ctx' = TRUE
    /\ pools' = "closed"
    /\ apc' = "join"
    /\ UNCHANGED <<conf, ln, conn, backoff, sem, session, tasks>>

\* ... wait for the background goroutines, close the listener and exit.
Exit ==
    /\ apc = "join"
    /\ tasks = {}
    /\ ln' = "closed"
    /\ apc' = "exited"
    /\ UNCHANGED <<conf, cancelled, ctx, conn, backoff, sem, session, rest>>

-----------------------------------------------------------------------------
Loop == Wake \/ AcceptStop \/ Start \/ Refuse \/ Served \/ Finish \/ Exit

Session(s) == \/ Handshake(s) \/ PoolHit(s) \/ PoolMiss(s)
              \/ RouteOk(s) \/ RouteFail(s) \/ NoRoute(s)
              \/ Torn(s) \/ Close(s) \/ Release(s) \/ Done(s)

Background == CloseListener \/ ClosePools \/ \E t \in Tasks : EndTask(t)

Next == \/ \E s \in Sessions : Accept(s)
        \/ AcceptTimeout \/ AcceptError \/ Loop
        \/ \E s \in Sessions : Session(s) \/ PeerEnds(s) \/ CloseClient(s)
        \/ Cancel \/ Background

Spec == Init /\ [][Next]_vars

\* Goroutines run; the handshake, every dial and every init write have
\* deadlines.  Clients need not come or end.
Fairness == /\ WF_vars(Loop)
            /\ WF_vars(Background)
            /\ \A s \in Sessions : WF_vars(Session(s)) /\ WF_vars(CloseClient(s))

FairSpec == Spec /\ Fairness

-----------------------------------------------------------------------------
(* Properties *)

\* The variables have their types; the accept pause stays within its bounds.
TypeOK ==
    /\ conf \in Confs
    /\ cancelled \in BOOLEAN /\ ctx \in BOOLEAN
    /\ ln \in {"open", "closed"}
    /\ apc \in {"accept", "dispatch", "sleep", "wait", "finish", "join", "exited"}
    /\ conn \in Sessions \cup {NoConn}
    /\ backoff \in BackoffMin..BackoffMax
    /\ sem \in Nat
    /\ sock \in [Sessions -> {"none", "open", "closed"}]
    /\ spc \in [Sessions -> {"none", "handshake", "pool", "fallback", "bridge",
                             "close", "release", "done"}]
    /\ plan \in [Sessions -> Seq({"worker", "cf", "tcp"})]
    /\ tried \in [Sessions -> SUBSET {"pool", "worker", "cf", "tcp"}]
    /\ served \in [Sessions -> SUBSET {"pool", "worker", "cf", "tcp"}]
    /\ pools \in {"open", "closed"}
    /\ tasks \subseteq Tasks

\* The sessions that have a slot.
Holding == {s \in Sessions : spc[s] \notin {"none", "done"}}

\* The channel holds one element per session that has a slot, on every path
\* out of a session: no early return, failed route or shutdown loses a slot or
\* frees one twice, the receive that gives it back never waits, and there are
\* never more than MaxConns such sessions.
SlotsCounted == sem = Cardinality(Holding) /\ sem <= MaxConns

\* When main returns nothing is left behind: no session goroutine, no client
\* connection, no background goroutine, no open pool or listener.
CleanExit ==
    apc = "exited" => /\ \A s \in Sessions : spc[s] = "none" /\ sock[s] = "none"
                      /\ tasks = {} /\ pools = "closed" /\ ln = "closed"

\* A session that was given up by handleMTProtoClient was refused by every
\* configured route; one that was carried was carried by one route, and that
\* one had not failed before (its bytes have moved the cipher streams, no
\* other route could go on from there).
Routes == {"pool", "tcp"} \cup (IF conf.worker THEN {"worker"} ELSE {})
                          \cup (IF conf.cf THEN {"cf"} ELSE {})
RoutesExhausted ==
    \A s \in Sessions :
      /\ spc[s] = "close" /\ tried[s] # {} /\ served[s] = {} => tried[s] = Routes
      /\ Cardinality(served[s]) <= 1
      /\ served[s] \cap tried[s] = {}

\* After a signal main returns, whatever the sessions are doing.
Exits == cancelled ~> (apc = "exited")
=============================================================================
