---------------------------- MODULE ServerProofs ----------------------------
(***************************************************************************)
(* Proofs about the accept loop, the sessions and the shutdown, for any    *)
(* number of clients, slots and background goroutines and any              *)
(* configuration.                                                          *)
(***************************************************************************)
EXTENDS Server, TLAPS, FiniteSetTheorems, SequenceTheorems

\* The slots in use can be counted, and the count is the semaphore's.
Slots == IsFiniteSet(Holding) /\ SlotsCounted

\* A client connection belongs to a session goroutine or is the one the
\* accept loop is about to hand over.
Owned ==
    /\ conn # NoConn <=> apc = "dispatch"
    /\ conn # NoConn => sock[conn] = "open" /\ spc[conn] = "none"
    /\ \A s \in Sessions : sock[s] # "none" <=> spc[s] # "none" \/ conn = s

\* How far the shutdown is: what each step has left behind.
Progress ==
    /\ apc \in {"finish", "join", "exited"} => NoClients
    /\ apc \in {"join", "exited"} => pools = "closed"
    /\ apc = "exited" => tasks = {} /\ ln = "closed"

\* The routes a session has yet to try, and that none is listed twice.
Left(p) == {p[i] : i \in 1..Len(p)}
Distinct(p) == \A i, j \in 1..Len(p) : p[i] = p[j] => i = j

\* The routes of a session at each of its steps: what has failed and what is
\* left make up the configured ones.
RouteStep(s) ==
    /\ spc[s] \in {"none", "handshake", "pool"} => tried[s] = {} /\ served[s] = {}
    /\ spc[s] = "fallback" => /\ tried[s] \cup Left(plan[s]) = Routes
                              /\ tried[s] \cap Left(plan[s]) = {}
                              /\ Distinct(plan[s])
                              /\ served[s] = {}
    /\ served[s] = {} \/ \E r \in Routes : served[s] = {r} /\ r \notin tried[s]
    /\ served[s] # {} \/ tried[s] = {} \/ tried[s] = Routes \/ spc[s] = "fallback"
RouteSteps == \A s \in Sessions : RouteStep(s)

\* The inductive invariant.
IInv == TypeOK /\ Slots /\ Owned /\ Progress /\ RouteSteps

-----------------------------------------------------------------------------
(* Lemmas about the operators *)

\* The first route of a plan is not among the later ones.
LEMMA LeftFacts ==
    ASSUME NEW R, NEW p \in Seq(R), p # <<>>, Distinct(p)
    PROVE  /\ Left(p) = {Head(p)} \cup Left(Tail(p))
           /\ Head(p) \notin Left(Tail(p))
           /\ Distinct(Tail(p))
<1>1. /\ Len(p) \in Nat /\ Len(p) > 0 /\ Head(p) = p[1]
      /\ Tail(p) \in Seq(R) /\ Len(Tail(p)) = Len(p) - 1
      /\ \A i \in 1..Len(p) - 1 : Tail(p)[i] = p[i + 1]
  OBVIOUS
<1>2. Distinct(Tail(p)) /\ Head(p) \notin Left(Tail(p))
  BY <1>1 DEF Distinct, Left
<1>3. \A i \in 1..Len(p) : p[i] = Head(p) \/ p[i] \in Left(Tail(p))
  <2> TAKE i \in 1..Len(p)
  <2>1. CASE i = 1
    BY <2>1, <1>1
  <2>2. CASE i # 1
    <3>1. i - 1 \in 1..Len(Tail(p)) /\ Tail(p)[i - 1] = p[i]
      BY <2>2, <1>1
    <3> QED BY <3>1 DEF Left
  <2> QED BY <2>1, <2>2
<1>4. \A i \in 1..Len(Tail(p)) : Tail(p)[i] \in Left(p)
  <2> TAKE i \in 1..Len(Tail(p))
  <2>1. i + 1 \in 1..Len(p) /\ Tail(p)[i] = p[i + 1]
    BY <1>1
  <2> QED BY <2>1 DEF Left
<1>5. Head(p) \in Left(p)
  BY <1>1 DEF Left
<1> QED BY <1>2, <1>3, <1>4, <1>5 DEF Left

\* doFallback tries every configured route except the pool, each once.
LEMMA FallbackFacts ==
    ASSUME conf \in Confs
    PROVE  /\ Fallbacks \in Seq({"worker", "cf", "tcp"})
           /\ {"pool"} \cup Left(Fallbacks) = Routes
           /\ "pool" \notin Left(Fallbacks)
           /\ Distinct(Fallbacks)
<1> DEFINE R == {"worker", "cf", "tcp"}
<1>1. conf.worker \in BOOLEAN /\ conf.cf \in BOOLEAN /\ conf.priority \in BOOLEAN
  BY ServerAssumption
<1>2. /\ \A a \in R : <<>> \o <<a>> = <<a>> /\ <<"worker">> \o <<a>> = <<"worker", a>>
      /\ \A a, b \in R : <<>> \o <<a, b>> = <<a, b>>
      /\ \A a, b \in R : <<"worker">> \o <<a, b>> = <<"worker", a, b>>
  <2>1. \A a \in R : <<>> \o <<a>> = <<a>>
    OBVIOUS
  <2>2. \A a \in R : <<"worker">> \o <<a>> = <<"worker", a>>
    <3> TAKE a \in R
    <3> DEFINE p == <<"worker">> \o <<a>>
               q == <<"worker", a>>
    <3>1. p \in Seq(R) /\ q \in Seq(R) /\ Len(p) = 2 /\ Len(q) = 2
      OBVIOUS
    <3>2. p[1] = q[1] /\ p[2] = q[2]
      OBVIOUS
    <3> HIDE DEF p, q
    <3>3. p = q
      BY <3>1, <3>2, SeqEqual
    <3> QED BY <3>3 DEF p, q
  <2>3. \A a, b \in R : <<>> \o <<a, b>> = <<a, b>>
    OBVIOUS
  <2>4. \A a, b \in R : <<"worker">> \o <<a, b>> = <<"worker", a, b>>
    <3> TAKE a, b \in R
    <3> DEFINE p == <<"worker">> \o <<a, b>>
               q == <<"worker", a, b>>
    <3>1. p \in Seq(R) /\ q \in Seq(R) /\ Len(p) = 3 /\ Len(q) = 3
      OBVIOUS
    <3>2. p[1] = q[1] /\ p[2] = q[2] /\ p[3] = q[3]
      OBVIOUS
    <3> HIDE DEF p, q
    <3>3. p = q
      BY <3>1, <3>2, SeqEqual
    <3> QED BY <3>3 DEF p, q
  <2> QED BY <2>1, <2>2, <2>3, <2>4
<1>3. CASE conf.worker
  <2>1. CASE ~conf.cf
    <3>1. Fallbacks = <<"worker", "tcp">> /\ Routes = {"pool", "tcp", "worker"}
      BY <1>1, <1>2, <1>3, <2>1 DEF Fallbacks, Routes
    <3> QED BY <3>1 DEF Left, Distinct
  <2>2. CASE conf.cf
    <3>1. Routes = {"pool", "tcp", "worker", "cf"}
      BY <1>1, <1>3, <2>2 DEF Routes
    <3>2. CASE conf.priority
      <4>1. Fallbacks = <<"worker", "cf", "tcp">>
        BY <1>2, <1>3, <2>2, <3>2 DEF Fallbacks
      <4> QED BY <3>1, <4>1 DEF Left, Distinct
    <3>3. CASE ~conf.priority
      <4>1. Fallbacks = <<"worker", "tcp", "cf">>
        BY <1>2, <1>3, <2>2, <3>3 DEF Fallbacks
      <4> QED BY <3>1, <4>1 DEF Left, Distinct
    <3> QED BY <3>2, <3>3, <1>1
  <2> QED BY <2>1, <2>2, <1>1
<1>4. CASE ~conf.worker
  <2>1. CASE ~conf.cf
    <3>1. Fallbacks = <<"tcp">> /\ Routes = {"pool", "tcp"}
      BY <1>1, <1>2, <1>4, <2>1 DEF Fallbacks, Routes
    <3> QED BY <3>1 DEF Left, Distinct
  <2>2. CASE conf.cf
    <3>1. Routes = {"pool", "tcp", "cf"}
      BY <1>1, <1>4, <2>2 DEF Routes
    <3>2. CASE conf.priority
      <4>1. Fallbacks = <<"cf", "tcp">>
        BY <1>2, <1>4, <2>2, <3>2 DEF Fallbacks
      <4> QED BY <3>1, <4>1 DEF Left, Distinct
    <3>3. CASE ~conf.priority
      <4>1. Fallbacks = <<"tcp", "cf">>
        BY <1>2, <1>4, <2>2, <3>3 DEF Fallbacks
      <4> QED BY <3>1, <4>1 DEF Left, Distinct
    <3> QED BY <3>2, <3>3, <1>1
  <2> QED BY <2>1, <2>2, <1>1
<1> QED BY <1>3, <1>4, <1>1

\* The accept pause stays within its bounds.
LEMMA BackoffType ==
    ASSUME NEW b \in BackoffMin..BackoffMax
    PROVE  NextBackoff(b) \in BackoffMin..BackoffMax
BY ServerAssumption DEF NextBackoff

\* A step of one session leaves the routes of the others alone.
LEMMA OtherRoutes ==
    ASSUME RouteSteps, NEW s \in Sessions, UNCHANGED conf, RouteStep(s)',
           \A t \in Sessions \ {s} : /\ spc'[t] = spc[t] /\ plan'[t] = plan[t]
                                    /\ tried'[t] = tried[t] /\ served'[t] = served[t]
    PROVE  RouteSteps'
<1>1. Routes' = Routes
  BY DEF Routes
<1>2. ASSUME NEW t \in Sessions \ {s} PROVE RouteStep(t)'
  BY <1>1, <1>2 DEF RouteSteps, RouteStep
<1> QED BY <1>2 DEF RouteSteps

-----------------------------------------------------------------------------
(* The accept loop *)

\* Accept hands the loop a connection nobody has.
LEMMA AcceptInv ==
    ASSUME IInv, NEW s \in Sessions, Accept(s)
    PROVE  IInv'
<1> USE DEF IInv, Accept, rest
<1>1. TypeOK'
  BY ServerAssumption DEF TypeOK
<1>2. Slots'
  BY DEF Slots, SlotsCounted, Holding
<1>3. Owned'
  BY ServerAssumption DEF Owned, TypeOK
<1>4. Progress'
  BY DEF Progress, NoClients
<1>5. RouteSteps'
  BY DEF RouteSteps, RouteStep, Routes
<1> QED BY <1>1, <1>2, <1>3, <1>4, <1>5

\* The rounds of the loop that take no connection.
LEMMA RoundInv ==
    ASSUME IInv, AcceptTimeout \/ AcceptError \/ Wake \/ AcceptStop
    PROVE  IInv'
<1> USE DEF IInv, AcceptTimeout, AcceptError, Wake, AcceptStop, session, rest
<1>1. TypeOK'
  <2>1. backoff' \in BackoffMin..BackoffMax
    <3>1. backoff' = backoff \/ backoff' = BackoffMin \/ backoff' = NextBackoff(backoff)
      OBVIOUS
    <3>2. backoff \in BackoffMin..BackoffMax /\ BackoffMin \in BackoffMin..BackoffMax
      BY ServerAssumption DEF TypeOK
    <3> QED BY <3>1, <3>2, BackoffType
  <2> QED BY <2>1 DEF TypeOK
<1>2. Slots'
  BY DEF Slots, SlotsCounted, Holding
<1>3. Owned'
  BY DEF Owned
<1>4. Progress'
  BY DEF Progress, NoClients
<1>5. RouteSteps'
  BY DEF RouteSteps, RouteStep, Routes
<1> QED BY <1>1, <1>2, <1>3, <1>4, <1>5

\* The new session goroutine takes the slot the semaphore gave.
LEMMA StartInv ==
    ASSUME IInv, Start
    PROVE  IInv'
<1> USE DEF IInv, Start, rest
<1>1. conn \in Sessions /\ spc[conn] = "none" /\ sock[conn] = "open"
  BY DEF Owned, TypeOK
<1>2. \A s \in Sessions : spc'[s] = IF s = conn THEN "handshake" ELSE spc[s]
  BY DEF TypeOK
<1>3. TypeOK'
  BY <1>1 DEF TypeOK
<1>4. Slots'
  <2>1. Holding' = Holding \cup {conn} /\ conn \notin Holding
    BY <1>1, <1>2 DEF Holding
  <2>2. IsFiniteSet(Holding') /\ Cardinality(Holding') = Cardinality(Holding) + 1
    BY <2>1, FS_AddElement DEF Slots
  <2> QED BY <2>2, ServerAssumption DEF Slots, SlotsCounted, MayStart, TypeOK
<1>5. Owned'
  BY <1>1, <1>2, ServerAssumption DEF Owned
<1>6. Progress'
  BY DEF Progress
<1>7. RouteSteps'
  <2>1. PICK s \in Sessions : s = conn
    BY <1>1
  <2>2. RouteStep(s)'
    BY <1>1, <1>2, <2>1 DEF RouteSteps, RouteStep
  <2> QED BY <1>2, <2>1, <2>2, OtherRoutes
<1> QED BY <1>3, <1>4, <1>5, <1>6, <1>7

\* A refused connection leaves nothing behind.
LEMMA RefuseInv ==
    ASSUME IInv, Refuse
    PROVE  IInv'
<1> USE DEF IInv, Refuse, rest
<1>1. conn \in Sessions /\ spc[conn] = "none"
  BY DEF Owned, TypeOK
<1>2. \A s \in Sessions : sock'[s] = IF s = conn THEN "none" ELSE sock[s]
  BY DEF TypeOK
<1>3. TypeOK'
  BY <1>1 DEF TypeOK
<1>4. Slots'
  BY DEF Slots, SlotsCounted, Holding
<1>5. Owned'
  BY <1>1, <1>2, ServerAssumption DEF Owned
<1>6. Progress'
  BY DEF Progress
<1>7. RouteSteps'
  BY DEF RouteSteps, RouteStep, Routes
<1> QED BY <1>3, <1>4, <1>5, <1>6, <1>7

-----------------------------------------------------------------------------
(* A session goroutine *)

\* A session goes on to a step in which it keeps its slot; its connection,
\* the loop and the shutdown are where they were.
LEMMA MoveInv ==
    ASSUME IInv, NEW s \in Sessions, spc[s] \notin {"none", "done"},
           NEW v \in {"pool", "fallback", "bridge", "close"},
           spc' = [spc EXCEPT ![s] = v],
           UNCHANGED <<conf, cancelled, ctx, loop, sock, rest>>
    PROVE  /\ \A t \in Sessions : spc'[t] = IF t = s THEN v ELSE spc[t]
           /\ Slots' /\ Owned' /\ Progress'
<1> USE DEF IInv, loop, rest
<1>1. \A t \in Sessions : spc'[t] = IF t = s THEN v ELSE spc[t]
  BY DEF TypeOK
<1>2. Holding' = Holding
  BY <1>1 DEF Holding
<1>3. Slots'
  BY <1>2 DEF Slots, SlotsCounted
<1>4. Owned'
  BY <1>1 DEF Owned, TypeOK
<1>5. Progress'
  BY <1>1 DEF Progress, NoClients
<1> QED BY <1>1, <1>3, <1>4, <1>5

\* The handshake, the pool's answer and the end of the bridge.
LEMMA StepInv ==
    ASSUME IInv, NEW s \in Sessions,
           Handshake(s) \/ PoolHit(s) \/ NoRoute(s) \/ PeerEnds(s) \/ Torn(s)
    PROVE  IInv'
<1> USE DEF IInv, Handshake, PoolHit, NoRoute, PeerEnds, Torn, Goto, loop, rest
<1>1. PICK v \in {"pool", "fallback", "bridge", "close"} : spc' = [spc EXCEPT ![s] = v]
  OBVIOUS
<1>2. /\ \A t \in Sessions : spc'[t] = IF t = s THEN v ELSE spc[t]
      /\ Slots' /\ Owned' /\ Progress'
  <2>1. spc[s] \notin {"none", "done"} /\ UNCHANGED <<conf, cancelled, ctx, loop, sock, rest>>
    OBVIOUS
  <2> HIDE DEF Handshake, PoolHit, NoRoute, PeerEnds, Torn, Goto, loop, rest, IInv
  <2> QED BY <1>1, <2>1, MoveInv
<1>3. TypeOK'
  BY <1>1 DEF TypeOK
<1>4. RouteStep(s)'
  <2>1. RouteStep(s) /\ Routes' = Routes /\ "pool" \in Routes
    BY DEF RouteSteps, Routes
  <2>2. CASE Handshake(s) \/ PeerEnds(s) \/ Torn(s)
    <3>1. /\ spc'[s] \in {"pool", "close"} /\ spc[s] \in {"handshake", "bridge"}
          /\ spc'[s] = "pool" => spc[s] = "handshake"
      BY <1>2, <2>2 DEF TypeOK
    <3>2. UNCHANGED <<tried, served>>
      BY <2>2
    <3> QED BY <2>1, <3>1, <3>2 DEF RouteStep
  <2>3. CASE PoolHit(s)
    <3>1. served'[s] = {"pool"} /\ tried'[s] = {} /\ spc'[s] = "bridge"
      BY <1>2, <2>1, <2>3 DEF RouteStep, TypeOK
    <3> QED BY <2>1, <3>1 DEF RouteStep
  <2>4. CASE NoRoute(s)
    <3>1. Left(<<>>) = {}
      BY DEF Left
    <3> QED BY <1>2, <2>1, <2>4, <3>1 DEF RouteStep
  <2> QED BY <2>2, <2>3, <2>4
<1>5. RouteSteps'
  BY <1>2, <1>4, OtherRoutes DEF TypeOK
<1> QED BY <1>2, <1>3, <1>5

\* The session falls back: every other configured route is still to come.
LEMMA PoolMissInv ==
    ASSUME IInv, NEW s \in Sessions, PoolMiss(s)
    PROVE  IInv'
<1> USE DEF IInv, PoolMiss, Goto, loop, rest
<1>1. /\ \A t \in Sessions : spc'[t] = IF t = s THEN "fallback" ELSE spc[t]
      /\ Slots' /\ Owned' /\ Progress'
  BY MoveInv
<1>2. TypeOK'
  BY FallbackFacts DEF TypeOK
<1>3. RouteStep(s)'
  <2>1. tried'[s] = {"pool"} /\ plan'[s] = Fallbacks /\ served'[s] = {}
    BY DEF RouteSteps, RouteStep, TypeOK
  <2>2. Routes' = Routes
    BY DEF Routes
  <2> QED BY <1>1, <2>1, <2>2, FallbackFacts DEF RouteStep, TypeOK
<1>4. RouteSteps'
  BY <1>1, <1>3, OtherRoutes DEF TypeOK
<1> QED BY <1>1, <1>2, <1>4

\* The route that is next in the plan carries the session.
LEMMA RouteOkInv ==
    ASSUME IInv, NEW s \in Sessions, RouteOk(s)
    PROVE  IInv'
<1> USE DEF IInv, RouteOk, Goto, loop, rest
<1>1. /\ \A t \in Sessions : spc'[t] = IF t = s THEN "bridge" ELSE spc[t]
      /\ Slots' /\ Owned' /\ Progress'
  BY MoveInv
<1>2. Head(plan[s]) \in {"worker", "cf", "tcp"}
  BY HeadTailProperties DEF TypeOK
<1>3. TypeOK'
  BY <1>2 DEF TypeOK
<1>4. RouteStep(s)'
  <2>1. Head(plan[s]) \in Left(plan[s])
    BY LeftFacts DEF RouteSteps, RouteStep, TypeOK
  <2>2. Head(plan[s]) \in Routes /\ Head(plan[s]) \notin tried[s] /\ served[s] = {}
    BY <2>1 DEF RouteSteps, RouteStep
  <2>3. served'[s] = {Head(plan[s])} /\ Routes' = Routes
    BY <2>2 DEF Routes, TypeOK
  <2>4. tried'[s] = tried[s] /\ spc'[s] = "bridge"
    BY <1>1
  <2> QED BY <2>2, <2>3, <2>4 DEF RouteStep
<1>5. RouteSteps'
  BY <1>1, <1>4, OtherRoutes DEF TypeOK
<1> QED BY <1>1, <1>3, <1>5

\* A route that fails moves from the plan to the failed ones.
LEMMA RouteFailInv ==
    ASSUME IInv, NEW s \in Sessions, RouteFail(s)
    PROVE  IInv'
<1> USE DEF IInv, RouteFail, loop, rest
<1> DEFINE h == Head(plan[s])
           p == Tail(plan[s])
<1>1. h \in {"worker", "cf", "tcp"} /\ p \in Seq({"worker", "cf", "tcp"})
  BY HeadTailProperties DEF TypeOK
<1>2. TypeOK'
  BY <1>1 DEF TypeOK
<1>3. Slots' /\ Owned' /\ Progress'
  BY DEF Slots, SlotsCounted, Holding, Owned, Progress, NoClients
<1>4. RouteStep(s)'
  <2>1. Left(plan[s]) = {h} \cup Left(p) /\ h \notin Left(p) /\ Distinct(p)
    BY LeftFacts DEF RouteSteps, RouteStep, TypeOK
  <2>2. tried'[s] = tried[s] \cup {h} /\ plan'[s] = p /\ Routes' = Routes
    BY DEF TypeOK, Routes
  <2> HIDE DEF h, p
  <2> QED BY <2>1, <2>2 DEF RouteSteps, RouteStep
<1>5. RouteSteps'
  BY <1>4, OtherRoutes DEF TypeOK
<1> QED BY <1>2, <1>3, <1>5

\* handleClient closes its connection, on every path.
LEMMA CloseInv ==
    ASSUME IInv, NEW s \in Sessions, Close(s)
    PROVE  IInv'
<1> USE DEF IInv, Close, Goto, loop, rest
<1>1. /\ \A t \in Sessions : spc'[t] = IF t = s THEN "release" ELSE spc[t]
      /\ \A t \in Sessions : sock'[t] = IF t = s THEN "closed" ELSE sock[t]
  BY DEF TypeOK
<1>2. TypeOK'
  BY DEF TypeOK
<1>3. Slots'
  <2>1. Holding' = Holding
    BY <1>1 DEF Holding
  <2> QED BY <2>1 DEF Slots, SlotsCounted
<1>4. Owned'
  BY <1>1 DEF Owned, TypeOK
<1>5. Progress'
  BY <1>1 DEF Progress, NoClients
<1>6. RouteStep(s)'
  <2>1. Routes' = Routes
    BY DEF Routes
  <2> QED BY <1>1, <2>1 DEF RouteSteps, RouteStep
<1>7. RouteSteps'
  BY <1>1, <1>6, OtherRoutes DEF TypeOK
<1> QED BY <1>2, <1>3, <1>4, <1>5, <1>7

\* The slot goes back to the semaphore, once.
LEMMA ReleaseInv ==
    ASSUME IInv, NEW s \in Sessions, Release(s)
    PROVE  IInv'
<1> USE DEF IInv, Release, Freed, Goto, rest
<1>1. \A t \in Sessions : spc'[t] = IF t = s THEN "done" ELSE spc[t]
  BY DEF TypeOK
<1>2. TypeOK'
  BY DEF TypeOK
<1>3. Slots'
  <2>1. Holding' = Holding \ {s} /\ s \in Holding
    BY <1>1 DEF Holding
  <2>2. IsFiniteSet(Holding') /\ Cardinality(Holding') = Cardinality(Holding) - 1
    BY <2>1, FS_RemoveElement DEF Slots
  <2> QED BY <2>2, ServerAssumption DEF Slots, SlotsCounted, TypeOK
<1>4. Owned'
  BY <1>1 DEF Owned, TypeOK
<1>5. Progress'
  BY <1>1 DEF Progress, NoClients
<1>6. RouteStep(s)'
  <2>1. Routes' = Routes
    BY DEF Routes
  <2> QED BY <1>1, <2>1 DEF RouteSteps, RouteStep
<1>7. RouteSteps'
  BY <1>1, <1>6, OtherRoutes
<1> QED BY <1>2, <1>3, <1>4, <1>5, <1>7

\* The session is forgotten.
LEMMA DoneInv ==
    ASSUME IInv, NEW s \in Sessions, Done(s)
    PROVE  IInv'
<1> USE DEF IInv, Done, Goto, loop, rest
<1>1. /\ \A t \in Sessions : spc'[t] = IF t = s THEN "none" ELSE spc[t]
      /\ \A t \in Sessions : sock'[t] = IF t = s THEN "none" ELSE sock[t]
      /\ tried'[s] = {} /\ served'[s] = {}
  BY DEF TypeOK
<1>2. TypeOK'
  BY DEF TypeOK
<1>3. Slots'
  <2>1. Holding' = Holding
    BY <1>1 DEF Holding
  <2> QED BY <2>1 DEF Slots, SlotsCounted
<1>4. Owned'
  BY <1>1, ServerAssumption DEF Owned, TypeOK
<1>5. Progress'
  BY <1>1 DEF Progress, NoClients
<1>6. RouteStep(s)'
  BY <1>1 DEF RouteStep
<1>7. RouteSteps'
  BY <1>1, <1>6, OtherRoutes DEF TypeOK
<1> QED BY <1>2, <1>3, <1>4, <1>5, <1>7

-----------------------------------------------------------------------------
(* The shutdown *)

\* The AfterFunc of a session closes its client connection.
LEMMA CloseClientInv ==
    ASSUME IInv, NEW s \in Sessions, CloseClient(s)
    PROVE  IInv'
<1> USE DEF IInv, CloseClient, loop, rest
<1>1. \A t \in Sessions : sock'[t] = IF t = s THEN "closed" ELSE sock[t]
  BY DEF TypeOK
<1>2. TypeOK' /\ Slots'
  BY DEF TypeOK, Slots, SlotsCounted, Holding
<1>3. Owned' /\ Progress'
  BY <1>1 DEF Owned, Progress, NoClients, TypeOK
<1>4. RouteSteps'
  BY DEF RouteSteps, RouteStep, Routes
<1> QED BY <1>2, <1>3, <1>4

\* The signal, the AfterFuncs and the background goroutines.
LEMMA BackgroundInv ==
    ASSUME IInv, Cancel \/ Background
    PROVE  IInv'
<1> USE DEF IInv, Cancel, Background, CloseListener, ClosePools, EndTask, loop, session, rest
<1>1. TypeOK'
  BY DEF TypeOK
<1>2. Slots' /\ Owned'
  BY DEF Slots, SlotsCounted, Holding, Owned
<1>3. Progress'
  BY DEF Progress, NoClients
<1>4. RouteSteps'
  BY DEF RouteSteps, RouteStep, Routes
<1> QED BY <1>1, <1>2, <1>3, <1>4

\* serve returns and main's deferred function runs.
LEMMA LeaveInv ==
    ASSUME IInv, Served \/ Finish \/ Exit
    PROVE  IInv'
<1> USE DEF IInv, Served, Finish, Exit, session, rest
<1>1. TypeOK'
  BY DEF TypeOK
<1>2. Slots' /\ Owned'
  BY DEF Slots, SlotsCounted, Holding, Owned
<1>3. Progress'
  BY DEF Progress, NoClients
<1>4. RouteSteps'
  BY DEF RouteSteps, RouteStep, Routes
<1> QED BY <1>1, <1>2, <1>3, <1>4

-----------------------------------------------------------------------------
(* The theorems *)

\* The invariant holds of every behaviour of the server.
THEOREM Invariant == Spec => []IInv
<1>1. Init => IInv
  <2> SUFFICES ASSUME Init PROVE IInv
    OBVIOUS
  <2> USE DEF Init
  <2>1. TypeOK
    <3>1. <<>> \in Seq({"worker", "cf", "tcp"}) /\ backoff \in BackoffMin..BackoffMax
      BY ServerAssumption
    <3> QED BY <3>1 DEF TypeOK
  <2>2. Slots
    <3>1. Holding = {}
      BY DEF Holding
    <3> QED BY <3>1, FS_EmptySet, ServerAssumption DEF Slots, SlotsCounted
  <2>3. Owned /\ Progress
    BY ServerAssumption DEF Owned, Progress
  <2>4. RouteSteps
    BY DEF RouteSteps, RouteStep
  <2> QED BY <2>1, <2>2, <2>3, <2>4 DEF IInv
<1>2. IInv /\ [Next]_vars => IInv'
  <2> SUFFICES ASSUME IInv, [Next]_vars PROVE IInv'
    OBVIOUS
  <2>1. CASE UNCHANGED vars
    BY <2>1 DEF vars, loop, session, rest, IInv, TypeOK, Slots, SlotsCounted, Holding, Owned,
                Progress, NoClients, RouteSteps, RouteStep, Routes
  <2>2. CASE Next
    BY <2>2, AcceptInv, RoundInv, StartInv, RefuseInv, StepInv, PoolMissInv, RouteOkInv,
       RouteFailInv, CloseInv, ReleaseInv, DoneInv, CloseClientInv, BackgroundInv, LeaveInv
    DEF Next, Loop, Session
  <2> QED BY <2>1, <2>2
<1> QED BY <1>1, <1>2, PTL DEF Spec

\* The semaphore counts the sessions that run, on every path out of serve's
\* session goroutine, and there are never more than MaxConns of them.
THEOREM SlotsAreCounted == Spec => []SlotsCounted
<1>1. IInv => SlotsCounted
  BY DEF IInv, Slots
<1> QED BY <1>1, Invariant, PTL

\* When main returns, no session goroutine, client connection, background
\* goroutine, pool or listener is left.
THEOREM ExitIsClean == Spec => []CleanExit
<1>1. IInv => CleanExit
  BY ServerAssumption DEF IInv, Owned, Progress, NoClients, CleanExit
<1> QED BY <1>1, Invariant, PTL

\* A session handleMTProtoClient gives up was refused by every configured
\* route, and one that is carried is carried by one route that had not failed.
THEOREM EveryRouteTried == Spec => []RoutesExhausted
<1>1. IInv => RoutesExhausted
  <2> SUFFICES ASSUME IInv, NEW s \in Sessions
               PROVE  /\ spc[s] = "close" /\ tried[s] # {} /\ served[s] = {}
                           => tried[s] = Routes
                      /\ Cardinality(served[s]) <= 1
                      /\ served[s] \cap tried[s] = {}
    BY DEF RoutesExhausted
  <2>1. RouteStep(s)
    BY DEF IInv, RouteSteps
  <2>2. CASE served[s] = {}
    BY <2>1, <2>2, FS_EmptySet DEF RouteStep
  <2>3. CASE served[s] # {}
    <3>1. PICK r \in Routes : served[s] = {r} /\ r \notin tried[s]
      BY <2>1, <2>3 DEF RouteStep
    <3>2. Cardinality(served[s]) = 1
      BY <3>1, FS_Singleton
    <3> QED BY <3>1, <3>2
  <2> QED BY <2>2, <2>3
<1> QED BY <1>1, Invariant, PTL
=============================================================================
