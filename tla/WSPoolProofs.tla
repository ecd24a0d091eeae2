---------------------------- MODULE WSPoolProofs ----------------------------
(***************************************************************************)
(* Proofs about wsPool for any number of routes, connections and clients   *)
(* and any pool size.                                                      *)
(***************************************************************************)
EXTENDS WSPool, FiniteSetTheorems, TLAPS

\* What a process holds follows from where it is in its code.
HandShape ==
    /\ \A g \in Gor : IF gpc[g] \in {"put", "drop"}
                      THEN \E c \in Conns : hand[g] = {c}
                      ELSE hand[g] = {}
    /\ \A x \in Clients : IF cpc[x] \in {"check", "using"}
                          THEN \E c \in Conns : hand[x] = {c}
                          ELSE hand[x] = {}
    /\ rpc # "close" => hand[Rotator] = {}
    /\ zpc # "closing" => hand[Closer] = {}

\* A client inside get has a key to ask for.
WantShape == \A x \in Clients : cpc[x] # "idle" => want[x] # <<>>

\* p.closed is Close's doing, and a closed pool has empty buckets.
ClosedShape == /\ closed <=> zpc # "open"
               /\ closed => \A k \in Keys : idle[k] = {}

\* When Close has returned, wg.Wait has: nothing runs any more.
Quiesced == zpc = "done" => AllDone

\* The buckets are finite, and a goroutine between refill's length check and
\* its append still finds room: nobody else appends.
Room == /\ \A k \in Keys : IsFiniteSet(idle[k])
        /\ \A g \in Gor : gpc[g] \in {"try", "dial", "put"}
                             => Cardinality(idle[g[1]]) < PoolSize

\* The inductive invariant.
IInv == /\ TypeOK /\ WantShape /\ ClosedShape /\ Quiesced /\ HandShape
        /\ Exclusive /\ NoLeak
        /\ OneRefill /\ IdleBound /\ Room

-----------------------------------------------------------------------------
(* Operators *)

\* What scheduleRefill changes: it adds goroutines at the top of refill, at
\* most one for a key of S that had none, and marks exactly those keys.
LEMMA ScheduleFacts ==
    ASSUME TypeOK, NEW S \in SUBSET Keys, NEW q \in [Keys -> SUBSET Conns],
           Schedule(S, q)
    PROVE  /\ known' \in SUBSET Keys
           /\ refilling' \in SUBSET Keys
           /\ gpc' \in [Gor -> GPC]
           /\ \A g \in Gor : gpc'[g] = gpc[g] \/ (gpc[g] = "none" /\ gpc'[g] = "check")
           /\ closed => gpc' = gpc
           /\ \A g \in Gor : gpc[g] = "none" /\ gpc'[g] # "none" => ~backoff[g[1]]
           /\ OneRefill => OneRefill'
<1>1. CASE closed \/ PoolSize = 0
  BY <1>1 DEF Schedule, TypeOK, PoolType, GorType, OneRefill
<1>2. CASE ~(closed \/ PoolSize = 0)
  <2> DEFINE start == {k \in S : NeedsRefill(k, q)}
  <2>1. /\ known' = known \cup S
        /\ refilling' = refilling \cup start
    BY <1>2 DEF Schedule
  <2>2. PICK s \in [start -> Slots] :
          /\ \A k \in start : gpc[<<k, s[k]>>] = "none"
          /\ gpc' = [g \in Gor |-> IF g[1] \in start /\ g[2] = s[g[1]]
                                   THEN "check" ELSE gpc[g]]
    BY <1>2 DEF Schedule
  <2>3. \A k \in start : k \in Keys /\ k \notin refilling
    BY DEF NeedsRefill
  <2> HIDE DEF start
  <2>4. \A g \in Gor : g = <<g[1], g[2]>> /\ g[1] \in Keys /\ g[2] \in Slots
    BY DEF Gor
  <2>5. gpc' \in [Gor -> GPC]
    BY <2>2 DEF TypeOK, GorType, GPC
  <2>6. \A g \in Gor : gpc'[g] = gpc[g] \/ (gpc[g] = "none" /\ gpc'[g] = "check")
    BY <2>2, <2>4
  <2>7. ASSUME OneRefill PROVE OneRefill'
    <3>1. \A k \in start : <<k, s[k]>> \in Gor /\ gpc'[<<k, s[k]>>] = "check"
      BY <2>2, <2>3 DEF Gor
    <3>2. \A k \in refilling' : \E t \in Slots : gpc'[<<k, t>>] # "none"
      <4> SUFFICES ASSUME NEW k \in refilling'
                   PROVE  \E t \in Slots : gpc'[<<k, t>>] # "none"
        OBVIOUS
      <4>1. CASE k \in start
        BY <4>1, <3>1, <2>2
      <4>2. CASE k \in refilling
        <5>1. PICK t \in Slots : gpc[<<k, t>>] # "none"
          BY <4>2, <2>7 DEF OneRefill
        <5>2. <<k, t>> \in Gor
          BY <4>2 DEF Gor, TypeOK, PoolType
        <5> QED BY <5>1, <5>2, <2>6
      <4> QED BY <4>1, <4>2, <2>1
    <3>3. \A g \in Gor : gpc'[g] # "none" => g[1] \in refilling'
      BY <2>1, <2>2, <2>7 DEF OneRefill
    <3>4. \A g, h \in Gor : gpc'[g] # "none" /\ gpc'[h] # "none" /\ g[1] = h[1] => g = h
      BY <2>2, <2>3, <2>4, <2>7 DEF OneRefill
    <3> QED BY <3>2, <3>3, <3>4 DEF OneRefill
  <2>8. \A g \in Gor : gpc[g] = "none" /\ gpc'[g] # "none" => ~backoff[g[1]]
    BY <2>2 DEF start, NeedsRefill
  <2> QED BY <1>2, <2>1, <2>3, <2>5, <2>6, <2>7, <2>8 DEF TypeOK, PoolType
<1> QED BY <1>1, <1>2

\* Connections that are closed leave nothing behind in what is watched.
LEMMA ShutFacts ==
    ASSUME ConnType, NEW S \in SUBSET Conns, Shut(S)
    PROVE  /\ open' = open \ S
           /\ open' \subseteq Conns
           /\ target' \in [Conns -> Keys]
           /\ dead' \subseteq open' /\ aged' \subseteq open' /\ rseen' \subseteq open'
           /\ seen' \in [Clients -> SUBSET open']
<1>1. AnyKey \in Keys
  BY KeysAssumption DEF AnyKey
<1> QED BY <1>1 DEF Shut, ConnType

\* A refill goroutine that goes from one of its steps to another.
LEMMA GorStep ==
    ASSUME TypeOK, OneRefill, NEW g \in Gor, NEW v \in GPC \ {"none"},
           gpc[g] # "none", gpc' = [gpc EXCEPT ![g] = v], refilling' = refilling
    PROVE  OneRefill'
<1>1. \A h \in Gor : gpc'[h] # "none" <=> gpc[h] # "none"
  BY DEF TypeOK, GorType
<1>2. \A k \in refilling, s \in Slots : <<k, s>> \in Gor
  BY DEF TypeOK, PoolType, Gor
<1> QED BY <1>1, <1>2 DEF OneRefill

\* A process closes some of the connections it holds.
LEMMA CloseHeld ==
    ASSUME TypeOK, Exclusive, NoLeak, NEW p \in Procs, NEW S \in SUBSET hand[p],
           Shut(S), Take(p, hand[p] \ S), idle' = idle
    PROVE  ConnType' /\ Exclusive' /\ NoLeak'
<1>1. S \in SUBSET Conns /\ hand' \in [Procs -> SUBSET Conns]
  BY DEF TypeOK, ConnType, Take
<1>2. ConnType'
  BY <1>1, ShutFacts DEF TypeOK, ConnType
<1>3. \A q \in Procs : hand'[q] = IF q = p THEN hand[p] \ S ELSE hand[q]
  BY DEF TypeOK, ConnType, Take
<1>4. Exclusive'
  BY <1>3 DEF Exclusive
<1>5. NoLeak'
  <2> SUFFICES ASSUME NEW c \in Conns PROVE c \in open' <=> Held(c)'
    BY DEF NoLeak
  <2>1. CASE c \in S
    BY <2>1, <1>1, <1>3, ShutFacts DEF TypeOK, Exclusive, Held
  <2>2. CASE c \notin S
    BY <2>2, <1>1, <1>3, ShutFacts DEF TypeOK, NoLeak, Held
  <2> QED BY <2>1, <2>2
<1> QED BY <1>2, <1>4, <1>5

\* The conjuncts a step leaves alone.
LEMMA Frame ==
    ASSUME IInv
    PROVE  /\ UNCHANGED shared => PoolType'
           /\ UNCHANGED <<conns, hand, seen, rseen>> => ConnType'
           /\ UNCHANGED gvars => GorType'
           /\ UNCHANGED <<cpc, want, rpc, zpc>> => ControlType'
           /\ UNCHANGED <<cpc, want>> => WantShape'
           /\ UNCHANGED <<closed, idle, zpc>> => ClosedShape'
           /\ UNCHANGED <<hand, gpc, cpc, rpc, zpc>> => HandShape'
           /\ UNCHANGED <<idle, hand>> => Exclusive'
           /\ UNCHANGED <<idle, hand, open>> => NoLeak'
           /\ UNCHANGED <<gpc, refilling>> => OneRefill'
           /\ UNCHANGED idle => IdleBound'
           /\ UNCHANGED <<idle, gpc>> => Room'
           /\ UNCHANGED <<gpc, rpc, zpc>> => Quiesced'
<1> USE DEF IInv, TypeOK
<1>1. UNCHANGED shared => PoolType'
  BY DEF shared, routes, PoolType
<1>2. UNCHANGED <<conns, hand, seen, rseen>> => ConnType'
  BY DEF conns, ConnType
<1>3. UNCHANGED gvars => GorType'
  BY DEF gvars, GorType
<1>4. UNCHANGED <<cpc, want, rpc, zpc>> => ControlType'
  BY DEF ControlType
<1>5. UNCHANGED <<cpc, want>> => WantShape'
  BY DEF WantShape
<1>6. UNCHANGED <<closed, idle, zpc>> => ClosedShape'
  BY DEF ClosedShape
<1>7. UNCHANGED <<hand, gpc, cpc, rpc, zpc>> => HandShape'
  BY DEF HandShape
<1>8. UNCHANGED <<idle, hand>> => Exclusive'
  BY DEF Exclusive
<1>9. UNCHANGED <<idle, hand, open>> => NoLeak'
  BY DEF NoLeak, Held
<1>10. UNCHANGED <<gpc, refilling>> => OneRefill'
  BY DEF OneRefill
<1>11. UNCHANGED idle => IdleBound'
  BY DEF IdleBound
<1>12. UNCHANGED <<idle, gpc>> => Room'
  BY DEF Room
<1>13. UNCHANGED <<gpc, rpc, zpc>> => Quiesced'
  BY DEF Quiesced, AllDone
<1> QED BY <1>1, <1>2, <1>3, <1>4, <1>5, <1>6, <1>7, <1>8, <1>9, <1>10, <1>11, <1>12, <1>13

\* Taking connections out of buckets keeps the bounds; goroutines that only
\* start do not need room yet.
LEMMA Shrink ==
    ASSUME IInv, NEW q \in [Keys -> SUBSET Conns], \A k \in Keys : q[k] \subseteq idle[k],
           idle' = q,
           \A g \in Gor : gpc'[g] = gpc[g] \/ gpc'[g] = "check"
    PROVE  IdleBound' /\ Room'
<1>1. \A k \in Keys : /\ IsFiniteSet(q[k])
                      /\ Cardinality(q[k]) <= Cardinality(idle[k])
                      /\ Cardinality(q[k]) \in Nat
                      /\ Cardinality(idle[k]) \in Nat
  BY FS_Subset, FS_CardinalityType DEF IInv, Room
<1>2. IdleBound'
  BY <1>1, SizeAssumption DEF IInv, IdleBound
<1>3. \A g \in Gor : g[1] \in Keys
  BY DEF Gor
<1>4. Room'
  BY <1>1, <1>3, SizeAssumption DEF IInv, Room
<1> QED BY <1>2, <1>4

\* Goroutines that only start hold nothing.
LEMMA StartHolds ==
    ASSUME IInv, hand' \in [Procs -> SUBSET Conns],
           \A g \in Gor : hand'[g] = hand[g],
           \A g \in Gor : gpc'[g] = gpc[g] \/ (gpc[g] = "none" /\ gpc'[g] = "check")
    PROVE  \A g \in Gor : IF gpc'[g] \in {"put", "drop"}
                          THEN \E c \in Conns : hand'[g] = {c}
                          ELSE hand'[g] = {}
BY DEF IInv, HandShape

-----------------------------------------------------------------------------
(* Client steps *)

\* getForDC is called: only the session moves.
LEMMA RequestInv ==
    ASSUME IInv, NEW x \in Clients, NEW ks \in Targets, Request(x, ks)
    PROVE  IInv'
<1> USE DEF IInv, Request, shared, routes, conns, gvars, rvars
<1>1. ks \in Seq(Keys) /\ ks # <<>>
  BY KeysAssumption
<1>2. ConnType'
  BY DEF TypeOK, ConnType
<1>3. ControlType' /\ WantShape'
  BY <1>1 DEF TypeOK, ControlType, WantShape
<1>4. HandShape'
  BY DEF TypeOK, ControlType, HandShape
<1> QED BY <1>2, <1>3, <1>4, Frame DEF TypeOK

\* get finds nothing; it may start a refill.
LEMMA GetMissInv ==
    ASSUME IInv, NEW x \in Clients, GetMiss(x)
    PROVE  IInv'
<1> USE DEF IInv, GetMiss, NextTarget, routes, conns, rvars
<1> DEFINE k == poolKey(x)
<1>1. want[x] \in Seq(Keys) /\ want[x] # <<>>
  BY DEF TypeOK, ControlType, WantShape
<1>2. k \in Keys /\ Tail(want[x]) \in Seq(Keys)
  BY <1>1 DEF poolKey
<1> HIDE DEF k
<1>3. Schedule({k}, idle) /\ {k} \in SUBSET Keys /\ idle \in [Keys -> SUBSET Conns]
  BY <1>2 DEF k, TypeOK, PoolType
<1>4. /\ PoolType' /\ GorType' /\ OneRefill'
      /\ \A g \in Gor : gpc'[g] = gpc[g] \/ (gpc[g] = "none" /\ gpc'[g] = "check")
      /\ closed => gpc' = gpc
  BY <1>3, ScheduleFacts DEF TypeOK, PoolType, GorType
<1>5. ConnType'
  BY DEF TypeOK, ConnType
<1>6. ControlType' /\ WantShape'
  BY <1>2 DEF TypeOK, ControlType, WantShape
<1>7. HandShape'
  BY <1>4, StartHolds DEF TypeOK, ConnType, ControlType, HandShape
<1>8. IdleBound' /\ Room'
  BY <1>3, <1>4, Shrink
<1>9. Quiesced'
  BY <1>4 DEF ClosedShape, Quiesced, AllDone
<1> QED BY <1>4, <1>5, <1>6, <1>7, <1>8, <1>9, Frame DEF TypeOK

\* get moves a connection from its bucket to the session and may start a refill.
LEMMA GetPopInv ==
    ASSUME IInv, NEW x \in Clients, GetPop(x)
    PROVE  IInv'
<1> USE DEF IInv, GetPop, routes, conns, rvars
<1> DEFINE k == poolKey(x)
<1>1. k \in Keys
  BY DEF TypeOK, ControlType, WantShape, poolKey
<1>2. PICK c \in idle[k] : LET q == [idle EXCEPT ![k] = @ \ {c}]
                           IN  idle' = q /\ Take(x, {c}) /\ Schedule({k}, q)
  OBVIOUS
<1> HIDE DEF k
<1> DEFINE q == [idle EXCEPT ![k] = @ \ {c}]
<1>3. /\ c \in Conns /\ q \in [Keys -> SUBSET Conns] /\ {k} \in SUBSET Keys
      /\ \A j \in Keys : q[j] = IF j = k THEN idle[k] \ {c} ELSE idle[j]
  BY <1>1 DEF TypeOK, PoolType
<1>4. idle' = q /\ Take(x, {c}) /\ Schedule({k}, q)
  BY <1>2
<1> HIDE DEF q
<1>5. /\ PoolType' /\ GorType' /\ OneRefill'
      /\ \A g \in Gor : gpc'[g] = gpc[g] \/ (gpc[g] = "none" /\ gpc'[g] = "check")
  BY <1>3, <1>4, ScheduleFacts DEF TypeOK, PoolType, GorType
<1>6. /\ hand' \in [Procs -> SUBSET Conns]
      /\ \A p \in Procs : hand'[p] = IF p = x THEN {c} ELSE hand[p]
  BY <1>3, <1>4 DEF TypeOK, ConnType, Take, Procs
<1>7. ConnType'
  BY <1>6 DEF TypeOK, ConnType
<1>8. ControlType' /\ WantShape'
  BY DEF TypeOK, ControlType, WantShape
<1>9. ClosedShape' /\ Quiesced'
  BY DEF ClosedShape, Quiesced, AllDone
<1>10. HandShape'
  <2>1. \A g \in Gor : g \in Procs /\ g # x
    BY ProcsAssumption DEF Procs
  <2>2. Rotator \in Procs /\ Closer \in Procs /\ Rotator # x /\ Closer # x
    BY ProcsAssumption DEF Procs
  <2>3. \A y \in Clients : y \in Procs
    BY DEF Procs
  <2>4. \A g \in Gor : IF gpc'[g] \in {"put", "drop"}
                       THEN \E d \in Conns : hand'[g] = {d} ELSE hand'[g] = {}
    BY <2>1, <1>5, <1>6, StartHolds
  <2>5. \A y \in Clients : IF cpc'[y] \in {"check", "using"}
                           THEN \E d \in Conns : hand'[y] = {d} ELSE hand'[y] = {}
    BY <2>3, <1>3, <1>6 DEF HandShape, TypeOK, ControlType
  <2> QED BY <2>2, <2>4, <2>5, <1>6 DEF HandShape
<1>11. hand[x] = {} /\ x \in Procs
  BY DEF HandShape, Procs, TypeOK, ControlType
<1>12. Exclusive'
  BY <1>2, <1>3, <1>4, <1>6, <1>1 DEF Exclusive
<1>13. NoLeak'
  <2> SUFFICES ASSUME NEW d \in Conns PROVE d \in open' <=> Held(d)'
    BY DEF NoLeak
  <2>1. CASE d = c
    BY <2>1, <1>1, <1>2, <1>6, <1>11 DEF NoLeak, Held
  <2>2. CASE d # c
    BY <2>2, <1>3, <1>4, <1>6, <1>11 DEF NoLeak, Held
  <2> QED BY <2>1, <2>2
<1>14. IdleBound' /\ Room'
  BY <1>3, <1>4, <1>5, Shrink
<1> QED BY <1>5, <1>7, <1>8, <1>9, <1>10, <1>12, <1>13, <1>14 DEF TypeOK

\* The popped connection becomes the session's.
LEMMA GetFreshInv ==
    ASSUME IInv, NEW x \in Clients, GetFresh(x)
    PROVE  IInv'
<1> USE DEF IInv, GetFresh, shared, routes, conns, gvars, rvars
<1>1. ConnType'
  BY DEF TypeOK, ConnType
<1>2. ControlType' /\ WantShape'
  BY DEF TypeOK, ControlType, WantShape
<1>3. HandShape'
  BY DEF TypeOK, ControlType, HandShape
<1> QED BY <1>1, <1>2, <1>3, Frame DEF TypeOK

\* GetStale and Release: a client closes the connection it holds.
LEMMA ClientClose ==
    ASSUME IInv, NEW x \in Clients, Shut(hand[x]), Take(x, {}), idle' = idle,
           NEW v \in {"get", "idle"}, cpc' = [cpc EXCEPT ![x] = v],
           UNCHANGED <<gpc, rpc, zpc>>
    PROVE  ConnType' /\ Exclusive' /\ NoLeak' /\ HandShape'
<1> USE DEF IInv
<1>1. x \in Procs /\ hand[x] \in SUBSET hand[x] /\ hand[x] \ hand[x] = {}
  BY DEF Procs
<1>2. ConnType' /\ Exclusive' /\ NoLeak'
  BY <1>1, CloseHeld
<1>3. \A p \in Procs : hand'[p] = IF p = x THEN {} ELSE hand[p]
  BY DEF TypeOK, ConnType, Take
<1>4. HandShape'
  BY <1>3, ProcsAssumption DEF HandShape, Procs, TypeOK, ControlType
<1> QED BY <1>2, <1>4

\* get closes the stale connection it popped.
LEMMA GetStaleInv ==
    ASSUME IInv, NEW x \in Clients, GetStale(x)
    PROVE  IInv'
<1> USE DEF IInv, GetStale, shared, routes, gvars
<1>1. ConnType' /\ Exclusive' /\ NoLeak' /\ HandShape'
  BY ClientClose
<1>2. ControlType' /\ WantShape'
  BY DEF TypeOK, ControlType, WantShape
<1> QED BY <1>1, <1>2, Frame DEF TypeOK

\* A session closes its connection.
LEMMA ReleaseInv ==
    ASSUME IInv, NEW x \in Clients, Release(x)
    PROVE  IInv'
<1> USE DEF IInv, Release, shared, routes, gvars
<1>1. ConnType' /\ Exclusive' /\ NoLeak' /\ HandShape'
  BY ClientClose
<1>2. ControlType' /\ WantShape'
  BY DEF TypeOK, ControlType, WantShape
<1> QED BY <1>1, <1>2, Frame DEF TypeOK

-----------------------------------------------------------------------------
(* Steps of a refill goroutine *)

\* A goroutine that goes on without touching buckets or connections.
LEMMA GorMove ==
    ASSUME IInv, NEW g \in Gor, NEW v \in {"try", "dial", "fail", "exit"},
           gpc[g] \in {"check", "try", "dial", "fail"},
           gpc' = [gpc EXCEPT ![g] = v],
           v \in {"try", "dial"} => Cardinality(idle[g[1]]) < PoolSize,
           UNCHANGED <<hand, idle, refilling, cpc, rpc, zpc>>
    PROVE  OneRefill' /\ HandShape' /\ Room' /\ Quiesced'
<1> USE DEF IInv
<1>1. OneRefill'
  BY GorStep DEF GPC
<1>2. \A h \in Gor : gpc'[h] = IF h = g THEN v ELSE gpc[h]
  BY DEF TypeOK, GorType
<1>3. HandShape'
  BY <1>2 DEF HandShape
<1>4. Room'
  BY <1>2 DEF Room
<1>5. Quiesced'
  BY DEF Quiesced, AllDone
<1> QED BY <1>1, <1>3, <1>4, <1>5

\* The length check gives the goroutine room to append one connection.
LEMMA RefillCheckInv ==
    ASSUME IInv, NEW g \in Gor, RefillCheck(g)
    PROVE  IInv'
<1> USE DEF IInv, RefillCheck, shared, routes, conns, cvars, rvars
<1>1. PICK v \in {"try", "exit"} :
        /\ gpc' = [gpc EXCEPT ![g] = v]
        /\ v = "try" => ~Full(g[1])
  OBVIOUS
<1>2. g[1] \in Keys
  BY DEF Gor
<1>3. ~Full(g[1]) => Cardinality(idle[g[1]]) < PoolSize
  BY <1>2, SizeAssumption, FS_CardinalityType DEF Full, Room
<1>4. OneRefill' /\ HandShape' /\ Room' /\ Quiesced'
  BY <1>1, <1>3, GorMove
<1>5. GorType'
  BY <1>1 DEF TypeOK, GorType, GPC
<1> QED BY <1>4, <1>5, Frame DEF TypeOK

\* The mode of an attempt is a Boolean, an attempt a domain and a mode.
LEMMA FrontedType ==
    ASSUME TypeOK, NEW g \in Gor
    PROVE  Fronted(g) \in BOOLEAN /\ Attempt(g) \in Nat \X BOOLEAN
<1>1. att[g] \in Nat /\ pref[g] \in BOOLEAN
  BY DEF TypeOK, GorType
<1>2. Fronted(g) \in BOOLEAN
  BY <1>1, Zenon DEF Fronted
<1>3. att[g] \div 2 + 1 \in Nat
  BY <1>1
<1> QED BY <1>2, <1>3 DEF Attempt

\* Resetting the loop variables keeps their types.
LEMMA RoundOverType ==
    ASSUME TypeOK, NEW g \in Gor, RoundOver(g)
    PROVE  /\ att' \in [Gor -> Nat]
           /\ pref' \in [Gor -> BOOLEAN]
           /\ tried' \in [Gor -> SUBSET (Nat \X BOOLEAN)]
BY DEF TypeOK, GorType, RoundOver

\* The head of an attempt only moves the goroutine.
LEMMA RefillTryInv ==
    ASSUME IInv, NEW g \in Gor, RefillTry(g)
    PROVE  IInv'
<1> USE DEF IInv, RefillTry, shared, routes, conns, cvars, rvars
<1>1. PICK v \in {"dial", "exit"} : gpc' = [gpc EXCEPT ![g] = v]
  OBVIOUS
<1>2. OneRefill' /\ HandShape' /\ Room' /\ Quiesced'
  BY <1>1, GorMove DEF Room
<1>3. GorType'
  <2>1. gpc' \in [Gor -> GPC]
    BY <1>1 DEF TypeOK, GorType, GPC
  <2>2. CASE closed
    <3>1. RoundOver(g)
      BY <2>2
    <3> QED BY <2>1, <3>1, RoundOverType DEF GorType
  <2>3. CASE ~closed
    <3>1. att' = att /\ tried' = tried
      BY <2>3
    <3>2. pref' \in [Gor -> BOOLEAN]
      BY <2>3 DEF TypeOK, GorType, PoolType
    <3> QED BY <2>1, <3>1, <3>2 DEF TypeOK, GorType
  <2> QED BY <2>2, <2>3
<1> QED BY <1>2, <1>3, Frame DEF TypeOK

\* A failed dial only moves the goroutine.
LEMMA RefillDialFailInv ==
    ASSUME IInv, NEW g \in Gor, RefillDialFail(g)
    PROVE  IInv'
<1> USE DEF IInv, RefillDialFail, shared, routes, conns, cvars, rvars
<1>1. PICK v \in {"try", "fail", "exit"} : gpc' = [gpc EXCEPT ![g] = v]
  BY Zenon
<1>2. OneRefill' /\ HandShape' /\ Room' /\ Quiesced'
  BY <1>1, GorMove DEF Room
<1>3. GorType'
  <2>1. gpc' \in [Gor -> GPC]
    BY <1>1 DEF TypeOK, GorType, GPC
  <2>2. CASE closed
    <3>1. RoundOver(g)
      BY <2>2
    <3> QED BY <2>1, <3>1, RoundOverType DEF GorType
  <2>3. CASE ~closed
    <3>1. /\ att' = [att EXCEPT ![g] = @ + 1]
          /\ tried' = [tried EXCEPT ![g] = @ \cup {Attempt(g)}]
          /\ pref' = pref
      BY <2>3
    <3> QED BY <2>1, <3>1, FrontedType DEF TypeOK, GorType
  <2> QED BY <2>2, <2>3
<1> QED BY <1>2, <1>3, Frame DEF TypeOK

\* min(max(2 * retryDelay, wsPoolBackoffMin), wsPoolBackoffMax) is in its bounds.
LEMMA NextDelayType ==
    ASSUME NEW d \in {0} \cup BackoffMin..BackoffMax
    PROVE  NextDelay(d) \in BackoffMin..BackoffMax
BY SizeAssumption DEF NextDelay

\* A failed round makes the route back off.
LEMMA RefillFailInv ==
    ASSUME IInv, NEW g \in Gor, RefillFail(g)
    PROVE  IInv'
<1> USE DEF IInv, RefillFail, shared, routes, conns, cvars, rvars
<1>1. OneRefill' /\ HandShape' /\ Room' /\ Quiesced'
  BY GorMove
<1>2. GorType'
  BY RoundOverType DEF TypeOK, GorType, GPC
<1>3. g[1] \in Keys /\ NextDelay(delay[g[1]]) \in BackoffMin..BackoffMax
  BY NextDelayType DEF Gor, TypeOK, PoolType
<1>4. PoolType'
  BY <1>3 DEF TypeOK, PoolType
<1> QED BY <1>1, <1>2, <1>4, Frame DEF TypeOK

\* A dialled connection belongs to the goroutine that dialled it.
LEMMA RefillDialOkInv ==
    ASSUME IInv, NEW g \in Gor, RefillDialOk(g)
    PROVE  IInv'
<1> USE DEF IInv, RefillDialOk, routes, cvars, rvars
<1>1. PICK c \in Conns \ open : /\ open' = open \cup {c}
                                /\ target' = [target EXCEPT ![c] = g[1]]
                                /\ Take(g, {c})
  OBVIOUS
<1>2. g \in Procs /\ g[1] \in Keys /\ hand[g] = {}
  BY DEF Procs, Gor, HandShape
<1>3. /\ hand' \in [Procs -> SUBSET Conns]
      /\ \A p \in Procs : hand'[p] = IF p = g THEN {c} ELSE hand[p]
  BY <1>1 DEF Take, TypeOK, ConnType
<1>4. PoolType'
  BY FrontedType DEF TypeOK, PoolType
<1>5. ConnType'
  BY <1>1, <1>2, <1>3 DEF TypeOK, ConnType
<1>6. GorType'
  BY RoundOverType DEF TypeOK, GorType, GPC
<1>7. OneRefill'
  BY GorStep DEF GPC
<1>8. \A h \in Gor : gpc'[h] = IF h = g THEN "put" ELSE gpc[h]
  BY DEF TypeOK, GorType
<1>9. HandShape'
  BY <1>1, <1>3, <1>8, ProcsAssumption DEF HandShape, Procs
<1>10. ~Held(c)
  BY <1>1 DEF NoLeak
<1>11. Exclusive'
  BY <1>3, <1>10 DEF Exclusive, Held
<1>12. NoLeak'
  <2> SUFFICES ASSUME NEW d \in Conns PROVE d \in open' <=> Held(d)'
    BY DEF NoLeak
  <2>1. CASE d = c
    BY <2>1, <1>1, <1>2, <1>3 DEF Held
  <2>2. CASE d # c
    BY <2>2, <1>1, <1>2, <1>3 DEF NoLeak, Held
  <2> QED BY <2>1, <2>2
<1>13. Room'
  BY <1>8 DEF Room
<1>14. Quiesced'
  BY DEF Quiesced, AllDone
<1> QED BY <1>4, <1>5, <1>6, <1>7, <1>9, <1>11, <1>12, <1>13, <1>14, Frame DEF TypeOK

\* refill appends to the bucket, or keeps the connection because of Close.
LEMMA RefillPutInv ==
    ASSUME IInv, NEW g \in Gor, RefillPut(g)
    PROVE  IInv'
<1> USE DEF IInv, RefillPut, StillOpen, routes, conns, cvars, rvars
<1> DEFINE k == g[1]
<1>1. g \in Procs /\ k \in Keys
  BY DEF Procs, Gor
<1>2. PICK c \in Conns : hand[g] = {c}
  BY DEF HandShape
<1>3. CASE closed
  <2>1. gpc' = [gpc EXCEPT ![g] = "drop"] /\ UNCHANGED <<idle, hand, known, delay, backoff>>
    BY <1>3
  <2>2. GorType' /\ OneRefill'
    BY <2>1, GorStep DEF TypeOK, GorType, GPC
  <2>3. \A h \in Gor : gpc'[h] = IF h = g THEN "drop" ELSE gpc[h]
    BY <2>1 DEF TypeOK, GorType
  <2>4. HandShape' /\ Room' /\ Quiesced'
    BY <2>1, <2>3 DEF HandShape, Room, Quiesced, AllDone
  <2> QED BY <2>1, <2>2, <2>4, Frame DEF TypeOK, shared
<1>4. CASE ~closed
  <2>1. /\ gpc' = [gpc EXCEPT ![g] = "check"]
        /\ idle' = [idle EXCEPT ![k] = @ \cup {c}]
        /\ hand' = [hand EXCEPT ![g] = {}]
        /\ known' = known \cup {k}
        /\ delay' = [delay EXCEPT ![k] = 0]
        /\ backoff' = [backoff EXCEPT ![k] = FALSE]
    BY <1>2, <1>4 DEF AddToBucket, Take
  <2> HIDE DEF k
  <2>2. PoolType'
    BY <1>1, <2>1 DEF TypeOK, PoolType
  <2>3. /\ hand' \in [Procs -> SUBSET Conns]
        /\ \A p \in Procs : hand'[p] = IF p = g THEN {} ELSE hand[p]
        /\ \A j \in Keys : idle'[j] = IF j = k THEN idle[k] \cup {c} ELSE idle[j]
        /\ \A h \in Gor : gpc'[h] = IF h = g THEN "check" ELSE gpc[h]
    BY <1>1, <2>1 DEF TypeOK, ConnType, PoolType, GorType
  <2>4. ConnType'
    BY <2>3 DEF TypeOK, ConnType
  <2>5. GorType' /\ OneRefill'
    BY <2>1, GorStep DEF TypeOK, GorType, GPC
  <2>6. HandShape'
    BY <2>3, ProcsAssumption DEF HandShape, Procs
  <2>7. c \in hand[g]
    BY <1>2
  <2>8. Exclusive'
    BY <1>1, <2>3, <2>7 DEF Exclusive
  <2>9. NoLeak'
    <3> SUFFICES ASSUME NEW d \in Conns PROVE d \in open' <=> Held(d)'
      BY DEF NoLeak
    <3>1. CASE d = c
      BY <3>1, <1>1, <2>3, <2>7 DEF NoLeak, Held
    <3>2. CASE d # c
      BY <3>2, <1>1, <1>2, <2>3 DEF NoLeak, Held
    <3> QED BY <3>1, <3>2
  <2>10. IsFiniteSet(idle[k]) /\ Cardinality(idle[k]) < PoolSize
    BY <1>1 DEF Room, k
  <2>11. /\ IsFiniteSet(idle[k] \cup {c})
         /\ Cardinality(idle[k] \cup {c}) \in Nat
         /\ Cardinality(idle[k] \cup {c}) <= Cardinality(idle[k]) + 1
         /\ Cardinality(idle[k]) \in Nat
    <3>1. Cardinality(idle[k]) \in Nat
      BY <2>10, FS_CardinalityType
    <3>2. /\ IsFiniteSet(idle[k] \cup {c})
          /\ Cardinality(idle[k] \cup {c}) = IF c \in idle[k] THEN Cardinality(idle[k])
                                             ELSE Cardinality(idle[k]) + 1
      BY <2>10, FS_AddElement
    <3> QED BY <3>1, <3>2
  <2>12. IdleBound'
    BY <2>3, <2>10, <2>11, SizeAssumption DEF IdleBound
  <2>13. Room'
    <3>1. \A j \in Keys : IsFiniteSet(idle'[j])
      BY <2>3, <2>11 DEF Room
    <3>2. ASSUME NEW h \in Gor, gpc'[h] \in {"try", "dial", "put"}
          PROVE  Cardinality(idle'[h[1]]) < PoolSize
      <4>1. h # g /\ gpc[h] # "none" /\ h[1] \in Keys
        BY <2>3, <3>2 DEF Gor
      <4>2. h[1] # k
        BY <4>1 DEF OneRefill, k
      <4> QED BY <4>1, <4>2, <2>3, <3>2 DEF Room
    <3> QED BY <3>1, <3>2 DEF Room
  <2>14. ClosedShape' /\ Quiesced'
    BY <1>4 DEF ClosedShape, Quiesced, AllDone
  <2> QED BY <2>2, <2>4, <2>5, <2>6, <2>8, <2>9, <2>12, <2>13, <2>14, Frame DEF TypeOK
<1> QED BY <1>3, <1>4

\* refill closes the connection that came after Close.
LEMMA RefillDropInv ==
    ASSUME IInv, NEW g \in Gor, RefillDrop(g)
    PROVE  IInv'
<1> USE DEF IInv, RefillDrop, shared, routes
<1>1. g \in Procs /\ hand[g] \in SUBSET hand[g] /\ hand[g] \ hand[g] = {}
  BY DEF Procs
<1>2. ConnType' /\ Exclusive' /\ NoLeak'
  BY <1>1, CloseHeld
<1>3. /\ \A p \in Procs : hand'[p] = IF p = g THEN {} ELSE hand[p]
      /\ \A h \in Gor : gpc'[h] = IF h = g THEN "exit" ELSE gpc[h]
  BY DEF TypeOK, ConnType, GorType, Take
<1>4. GorType' /\ OneRefill'
  BY GorStep DEF TypeOK, GorType, GPC
<1>5. HandShape'
  BY <1>3, ProcsAssumption DEF HandShape, Procs
<1>6. Room' /\ Quiesced'
  BY <1>3 DEF Room, Quiesced, AllDone
<1> QED BY <1>2, <1>4, <1>5, <1>6, Frame DEF TypeOK

\* The deferred delete(p.refilling, key) removes the mark of the goroutine that ends.
LEMMA RefillExitInv ==
    ASSUME IInv, NEW g \in Gor, RefillExit(g)
    PROVE  IInv'
<1> USE DEF IInv, RefillExit, shared, routes, conns, cvars, rvars
<1>1. \A h \in Gor : gpc'[h] = IF h = g THEN "none" ELSE gpc[h]
  BY DEF TypeOK, GorType
<1>2. PoolType' /\ GorType'
  BY DEF TypeOK, PoolType, GorType, GPC
<1>3. OneRefill'
  <2>1. \A k \in Keys, s \in Slots : <<k, s>> \in Gor /\ <<k, s>>[1] = k
    BY DEF Gor
  <2>2. \A k \in refilling' : k \in refilling /\ k # g[1] /\ k \in Keys
    BY DEF TypeOK, PoolType
  <2>3. \A k \in refilling' : \E s \in Slots : gpc'[<<k, s>>] # "none"
    <3> SUFFICES ASSUME NEW k \in refilling'
                 PROVE  \E s \in Slots : gpc'[<<k, s>>] # "none"
      OBVIOUS
    <3>1. PICK s \in Slots : gpc[<<k, s>>] # "none"
      BY <2>2 DEF OneRefill
    <3> QED BY <3>1, <2>1, <2>2, <1>1
  <2>4. \A h \in Gor : gpc'[h] # "none" => h # g /\ gpc[h] # "none"
    BY <1>1
  <2>5. \A h \in Gor : gpc'[h] # "none" => h[1] \in refilling'
    BY <2>4 DEF OneRefill
  <2> QED BY <2>3, <2>4, <2>5 DEF OneRefill
<1>4. HandShape'
  BY <1>1 DEF HandShape
<1>5. Room' /\ Quiesced'
  BY <1>1 DEF Room, Quiesced, AllDone
<1> QED BY <1>2, <1>3, <1>4, <1>5, Frame DEF TypeOK

-----------------------------------------------------------------------------
(* warmup, the rotator, Close and the environment *)

\* warmup schedules every route and starts the rotator.
LEMMA WarmupInv ==
    ASSUME IInv, Warmup
    PROVE  IInv'
<1> USE DEF IInv, Warmup, routes, conns, cvars
<1>1. Keys \in SUBSET Keys /\ idle \in [Keys -> SUBSET Conns]
  BY DEF TypeOK, PoolType
<1>2. /\ PoolType' /\ GorType' /\ OneRefill'
      /\ \A g \in Gor : gpc'[g] = gpc[g] \/ (gpc[g] = "none" /\ gpc'[g] = "check")
  BY <1>1, ScheduleFacts DEF TypeOK, PoolType, GorType
<1>3. ControlType'
  BY DEF TypeOK, ControlType
<1>4. HandShape'
  BY <1>2, StartHolds DEF TypeOK, ConnType, HandShape
<1>5. IdleBound' /\ Room'
  BY <1>1, <1>2, Shrink
<1>6. Quiesced'
  BY DEF ClosedShape, Quiesced
<1> QED BY <1>2, <1>3, <1>4, <1>5, <1>6, Frame DEF TypeOK

\* rotate reads the clock.
LEMMA RotateTickInv ==
    ASSUME IInv, RotateTick
    PROVE  IInv'
<1> USE DEF IInv, RotateTick, shared, routes, conns, gvars, cvars
<1>1. ConnType'
  BY DEF TypeOK, ConnType
<1>2. ControlType' /\ HandShape' /\ Quiesced'
  BY DEF TypeOK, ControlType, HandShape, Quiesced, AllDone
<1> QED BY <1>1, <1>2, Frame DEF TypeOK

\* rotate moves the stale connections from the buckets to the rotator.
LEMMA RotateLockedInv ==
    ASSUME IInv, RotateLocked
    PROVE  IInv'
<1> USE DEF IInv, RotateLocked, routes, conns, cvars
<1> DEFINE q == [k \in Keys |-> IF k \in known
                                THEN {c \in idle[k] : ~stale(c, rseen)}
                                ELSE idle[k]]
           E == UNION {idle[k] \ q[k] : k \in Keys}
<1>1. idle' = q /\ Take(Rotator, E) /\ Schedule(known, q)
  BY DEF Due
<1>2. /\ q \in [Keys -> SUBSET Conns] /\ \A k \in Keys : q[k] \subseteq idle[k]
      /\ known \in SUBSET Keys
      /\ E \in SUBSET Conns
  BY DEF TypeOK, PoolType
<1>3. \A c : c \in E <=> \E k \in Keys : c \in idle[k] /\ c \notin q[k]
  OBVIOUS
<1> HIDE DEF q, E
<1>4. /\ PoolType' /\ GorType' /\ OneRefill'
      /\ \A g \in Gor : gpc'[g] = gpc[g] \/ (gpc[g] = "none" /\ gpc'[g] = "check")
      /\ closed => gpc' = gpc
  BY <1>1, <1>2, ScheduleFacts DEF TypeOK, PoolType, GorType
<1>5. /\ hand' \in [Procs -> SUBSET Conns]
      /\ \A p \in Procs : hand'[p] = IF p = Rotator THEN E ELSE hand[p]
      /\ Rotator \in Procs /\ hand[Rotator] = {}
  BY <1>1, <1>2 DEF TypeOK, ConnType, Take, Procs, HandShape
<1>6. ConnType' /\ ControlType'
  BY <1>5 DEF TypeOK, ConnType, ControlType
<1>7. ClosedShape' /\ Quiesced'
  BY <1>1, <1>2, <1>4 DEF ClosedShape, Quiesced, AllDone
<1>8. HandShape'
  <2>1. \A g \in Gor : g \in Procs /\ g # Rotator
    BY ProcsAssumption DEF Procs
  <2>2. \A x \in Clients : x \in Procs /\ x # Rotator
    BY ProcsAssumption DEF Procs
  <2>3. Closer \in Procs /\ Closer # Rotator
    BY ProcsAssumption DEF Procs
  <2>4. \A g \in Gor : IF gpc'[g] \in {"put", "drop"}
                       THEN \E d \in Conns : hand'[g] = {d} ELSE hand'[g] = {}
    BY <2>1, <1>4, <1>5, StartHolds
  <2> QED BY <2>2, <2>3, <2>4, <1>5 DEF HandShape
<1>9. Exclusive'
  BY <1>1, <1>2, <1>3, <1>5 DEF Exclusive
<1>10. NoLeak'
  <2> SUFFICES ASSUME NEW d \in Conns PROVE d \in open' <=> Held(d)'
    BY DEF NoLeak
  <2>1. CASE d \in E
    BY <2>1, <1>3, <1>5 DEF NoLeak, Held
  <2>2. CASE d \notin E
    BY <2>2, <1>1, <1>2, <1>3, <1>5 DEF NoLeak, Held
  <2> QED BY <2>1, <2>2
<1>11. IdleBound' /\ Room'
  BY <1>1, <1>2, <1>4, Shrink
<1> QED BY <1>4, <1>6, <1>7, <1>8, <1>9, <1>10, <1>11, Frame DEF TypeOK

\* The rotator or Close closes one of the connections it took out.
LEMMA CloseOne ==
    ASSUME IInv, NEW p \in {Rotator, Closer}, NEW c \in hand[p],
           Shut({c}), Take(p, hand[p] \ {c}), idle' = idle,
           UNCHANGED <<gpc, cpc, rpc, zpc>>
    PROVE  ConnType' /\ Exclusive' /\ NoLeak' /\ HandShape'
<1> USE DEF IInv
<1>1. p \in Procs /\ {c} \in SUBSET hand[p]
  BY DEF Procs
<1>2. ConnType' /\ Exclusive' /\ NoLeak'
  BY <1>1, CloseHeld
<1>3. \A r \in Procs : hand'[r] = IF r = p THEN hand[p] \ {c} ELSE hand[r]
  BY DEF TypeOK, ConnType, Take
<1>4. HandShape'
  BY <1>3, ProcsAssumption DEF HandShape, Procs
<1> QED BY <1>2, <1>4

\* rotate closes what it took out.
LEMMA RotateCloseInv ==
    ASSUME IInv, RotateClose
    PROVE  IInv'
<1> USE DEF IInv, RotateClose, shared, routes, gvars
<1>1. CASE hand[Rotator] = {}
  <2>1. ControlType' /\ HandShape' /\ Quiesced'
    BY <1>1 DEF TypeOK, ControlType, HandShape, Quiesced, AllDone, conns
  <2> QED BY <1>1, <2>1, Frame DEF TypeOK, conns
<1>2. CASE hand[Rotator] # {}
  <2>1. PICK c \in hand[Rotator] : /\ Shut({c})
                                   /\ Take(Rotator, hand[Rotator] \ {c})
                                   /\ rpc' = rpc
    BY <1>2
  <2>2. ConnType' /\ Exclusive' /\ NoLeak' /\ HandShape'
    BY <2>1, CloseOne
  <2> QED BY <2>1, <2>2, Frame DEF TypeOK
<1> QED BY <1>1, <1>2

\* The rotator ends.
LEMMA RotateStopInv ==
    ASSUME IInv, RotateStop
    PROVE  IInv'
<1> USE DEF IInv, RotateStop, shared, routes, conns, gvars, cvars
<1>1. ControlType' /\ HandShape' /\ Quiesced'
  BY DEF TypeOK, ControlType, HandShape, Quiesced, AllDone
<1> QED BY <1>1, Frame DEF TypeOK

\* Close moves every idle connection to its caller.
LEMMA CloseLockedInv ==
    ASSUME IInv, CloseLocked
    PROVE  IInv'
<1> USE DEF IInv, CloseLocked, routes, conns, gvars, cvars, rvars
<1>1. /\ idle' = [k \in Keys |-> {}]
      /\ \A c : c \in Idle <=> \E k \in Keys : c \in idle[k]
      /\ Idle \in SUBSET Conns
  BY DEF FreshMap, Idle, TypeOK, PoolType
<1>2. /\ hand' \in [Procs -> SUBSET Conns]
      /\ \A p \in Procs : hand'[p] = IF p = Closer THEN Idle ELSE hand[p]
      /\ Closer \in Procs /\ hand[Closer] = {}
  BY <1>1 DEF TypeOK, ConnType, Take, Procs, HandShape
<1>3. PoolType' /\ ConnType' /\ ControlType'
  BY <1>1, <1>2 DEF TypeOK, PoolType, ConnType, ControlType
<1>4. ClosedShape' /\ Quiesced'
  BY <1>1 DEF ClosedShape, Quiesced
<1>5. HandShape'
  BY <1>2, ProcsAssumption DEF HandShape, Procs
<1>6. Exclusive'
  <2>1. \A k \in Keys : idle'[k] = {}
    BY <1>1
  <2>2. \A p \in Procs : hand[p] \cap Idle = {}
    BY <1>1 DEF Exclusive
  <2> QED BY <1>2, <2>1, <2>2 DEF Exclusive
<1>7. NoLeak'
  <2> SUFFICES ASSUME NEW d \in Conns PROVE d \in open' <=> Held(d)'
    BY DEF NoLeak
  <2>1. Held(d) <=> d \in Idle \/ \E p \in Procs : d \in hand[p]
    BY <1>1 DEF Held
  <2>2. Held(d)' <=> \E p \in Procs : d \in hand'[p]
    BY <1>1 DEF Held
  <2> QED BY <2>1, <2>2, <1>2 DEF NoLeak
<1>8. IdleBound' /\ Room'
  <2>1. [k \in Keys |-> {}] \in [Keys -> SUBSET Conns]
    OBVIOUS
  <2> QED BY <1>1, <2>1, Shrink
<1> QED BY <1>3, <1>4, <1>5, <1>6, <1>7, <1>8, Frame DEF TypeOK

\* Close closes what it took out.
LEMMA CloseItemInv ==
    ASSUME IInv, CloseItem
    PROVE  IInv'
<1> USE DEF IInv, CloseItem, shared, routes, gvars
<1>1. ConnType' /\ Exclusive' /\ NoLeak' /\ HandShape'
  BY CloseOne
<1> QED BY <1>1, Frame DEF TypeOK

\* wg.Wait returns.
LEMMA CloseWaitInv ==
    ASSUME IInv, CloseWait
    PROVE  IInv'
<1> USE DEF IInv, CloseWait, shared, routes, conns, gvars, cvars, rvars
<1>1. ControlType' /\ HandShape' /\ ClosedShape' /\ Quiesced'
  BY DEF TypeOK, ControlType, HandShape, ClosedShape, Quiesced, AllDone
<1> QED BY <1>1, Frame DEF TypeOK

\* The peers and the clock change only what is known of open connections.
LEMMA EnvironmentInv ==
    ASSUME IInv, Environment
    PROVE  IInv'
<1> USE DEF IInv, shared, routes, conns, locals, gvars, cvars, rvars
<1>1. \A c \in Watched : c \in open
  BY DEF Watched, Idle, NoLeak, Held, TypeOK, PoolType, ConnType, Procs
<1>2. ASSUME NEW c \in Conns, Die(c) \/ Age(c) PROVE IInv'
  <2>1. ConnType'
    BY <1>1, <1>2 DEF Die, Age, TypeOK, ConnType
  <2> QED BY <1>2, <2>1, Frame DEF Die, Age, TypeOK
<1>3. ASSUME NEW k \in Keys, BackoffExpire(k) PROVE IInv'
  <2>1. PoolType'
    BY <1>3 DEF BackoffExpire, TypeOK, PoolType
  <2> QED BY <1>3, <2>1, Frame DEF BackoffExpire, TypeOK
<1>4. ASSUME FrontingExpire PROVE IInv'
  <2>1. PoolType'
    BY <1>4 DEF FrontingExpire, TypeOK, PoolType
  <2> QED BY <1>4, <2>1, Frame DEF FrontingExpire, TypeOK
<1> QED BY <1>2, <1>3, <1>4 DEF Environment

-----------------------------------------------------------------------------
(* The invariant of the specification *)

\* newWSPool establishes the invariant.
LEMMA InitInv == Init => IInv
<1> SUFFICES ASSUME Init PROVE IInv
  OBVIOUS
<1> USE DEF Init
<1>1. AnyKey \in Keys
  BY KeysAssumption DEF AnyKey
<1>2. TypeOK
  <2>1. PoolType
    BY SizeAssumption DEF PoolType
  <2>2. ConnType
    BY <1>1 DEF ConnType
  <2>3. GorType
    BY DEF GorType, GPC
  <2>4. ControlType
    BY DEF ControlType
  <2> QED BY <2>1, <2>2, <2>3, <2>4 DEF TypeOK
<1>3. WantShape /\ ClosedShape /\ Quiesced
  BY DEF WantShape, ClosedShape, Quiesced
<1>4. HandShape
  BY DEF HandShape, Procs
<1>5. Exclusive /\ NoLeak
  BY DEF Exclusive, NoLeak, Held
<1>6. OneRefill
  BY DEF OneRefill
<1>7. IsFiniteSet({}) /\ Cardinality({}) = 0
  BY FS_EmptySet
<1>8. IdleBound /\ Room
  BY <1>7, SizeAssumption DEF IdleBound, Room
<1> QED BY <1>2, <1>3, <1>4, <1>5, <1>6, <1>8 DEF IInv

\* Every step of every process preserves the invariant.
LEMMA NextInv == IInv /\ [Next]_vars => IInv'
<1> SUFFICES ASSUME IInv, [Next]_vars PROVE IInv'
  OBVIOUS
<1>1. ASSUME NEW x \in Clients,
             (\E ks \in Targets : Request(x, ks)) \/ Get(x) \/ Release(x)
      PROVE  IInv'
  BY <1>1, RequestInv, GetMissInv, GetPopInv, GetFreshInv, GetStaleInv, ReleaseInv DEF Get
<1>2. ASSUME NEW g \in Gor, Refill(g) PROVE IInv'
  BY <1>2, RefillCheckInv, RefillTryInv, RefillDialOkInv, RefillDialFailInv,
     RefillFailInv, RefillPutInv, RefillDropInv, RefillExitInv DEF Refill
<1>3. ASSUME Warmup \/ Rotate \/ RotateStop PROVE IInv'
  BY <1>3, WarmupInv, RotateTickInv, RotateLockedInv, RotateCloseInv, RotateStopInv DEF Rotate
<1>4. ASSUME CloseLocked \/ CloseItem \/ CloseWait PROVE IInv'
  BY <1>4, CloseLockedInv, CloseItemInv, CloseWaitInv
<1>5. ASSUME Environment PROVE IInv'
  BY <1>5, EnvironmentInv
<1>6. ASSUME UNCHANGED vars PROVE IInv'
  BY <1>6, Frame DEF vars, shared, routes, conns, locals, gvars, cvars, rvars, IInv, TypeOK
<1> QED BY <1>1, <1>2, <1>3, <1>4, <1>5, <1>6 DEF Next

\* The conjunction of the shapes above is an invariant of wsPool.
THEOREM Invariant == Spec => []IInv
BY InitInv, NextInv, PTL DEF Spec

\* Every variable of the pool keeps its type, retryDelay its bounds, and only
\* open connections are watched.
THEOREM TypeCorrect == Spec => []TypeOK
<1>1. IInv => TypeOK
  BY DEF IInv
<1> QED BY <1>1, Invariant, PTL

\* refill's two critical sections, with a dial in between, never overfill a
\* bucket, whatever get, rotate and Close do meanwhile.
THEOREM BucketsBounded == Spec => []IdleBound
<1>1. IInv => IdleBound
  BY DEF IInv
<1> QED BY <1>1, Invariant, PTL

\* The p.refilling mark stands for exactly one live goroutine.
THEOREM RefillsSingle == Spec => []OneRefill
<1>1. IInv => OneRefill
  BY DEF IInv
<1> QED BY <1>1, Invariant, PTL

\* Every connection that was dialled and not closed has one owner: two
\* processes never hold the same connection, nor a process and a bucket.
THEOREM SingleOwner == Spec => []Ownership
<1>1. IInv => Ownership
  BY DEF IInv, Ownership
<1> QED BY <1>1, Invariant, PTL

\* When Close has returned, only sessions have connections and no goroutine of
\* the pool is left.
THEOREM CloseLeavesNothing == Spec => []CloseComplete
<1>1. IInv => CloseComplete
  <2> SUFFICES ASSUME IInv, zpc = "done"
               PROVE  /\ \A g \in Gor : gpc[g] = "none"
                      /\ rpc \in {"off", "done"}
                      /\ open = UNION {hand[x] : x \in Clients}
    BY DEF CloseComplete
  <2> USE DEF IInv
  <2>1. (\A g \in Gor : gpc[g] = "none") /\ rpc \in {"off", "done"}
    BY DEF Quiesced, AllDone
  <2>2. /\ \A k \in Keys : idle[k] = {}
        /\ \A g \in Gor : hand[g] = {}
        /\ hand[Rotator] = {} /\ hand[Closer] = {}
    BY <2>1 DEF ClosedShape, HandShape
  <2>3. \A c \in Conns : Held(c) <=> \E x \in Clients : c \in hand[x]
    BY <2>2 DEF Held, Procs
  <2>4. \A x \in Clients : hand[x] \subseteq Conns
    BY DEF TypeOK, ConnType, Procs
  <2>5. open = UNION {hand[x] : x \in Clients}
    BY <2>3, <2>4 DEF NoLeak, TypeOK, ConnType
  <2> QED BY <2>1, <2>5
<1> QED BY <1>1, Invariant, PTL

-----------------------------------------------------------------------------
(* Routes that back off *)

\* A step of nobody's refill: scheduleRefill may start goroutines, but not for
\* a route that backs off, and not once the pool is closed.
Starting == /\ \A g \in Gor : gpc'[g] = gpc[g] \/ (gpc[g] = "none" /\ gpc'[g] = "check")
            /\ \A g \in Gor : gpc[g] = "none" /\ gpc'[g] # "none" => ~backoff[g[1]]
            /\ closed => gpc' = gpc
            /\ \A k \in Keys : backoff'[k] => backoff[k]
            /\ UNCHANGED <<att, pref, tried>>

\* Every step is one of a refill or one that at most starts some.
LEMMA Starts ==
    ASSUME IInv, Next
    PROVE  Starting \/ \E g \in Gor : Refill(g)
<1> USE DEF IInv
<1>1. idle \in [Keys -> SUBSET Conns] /\ known \in SUBSET Keys
  BY DEF TypeOK, PoolType
<1>2. ASSUME NEW S \in SUBSET Keys, NEW q \in [Keys -> SUBSET Conns],
             Schedule(S, q), UNCHANGED <<backoff, att, pref, tried>>
      PROVE  Starting
  BY <1>2, ScheduleFacts DEF Starting
<1>3. ASSUME NEW x \in Clients, GetMiss(x) PROVE Starting
  <2>1. {poolKey(x)} \in SUBSET Keys
    BY <1>3 DEF GetMiss, poolKey, TypeOK, ControlType, WantShape
  <2> QED BY <1>1, <1>2, <1>3, <2>1 DEF GetMiss
<1>4. ASSUME NEW x \in Clients, GetPop(x) PROVE Starting
  <2>1. {poolKey(x)} \in SUBSET Keys
    BY <1>4 DEF GetPop, poolKey, TypeOK, ControlType, WantShape
  <2>2. PICK c \in idle[poolKey(x)] :
          Schedule({poolKey(x)}, [idle EXCEPT ![poolKey(x)] = @ \ {c}])
    BY <1>4 DEF GetPop
  <2>3. [idle EXCEPT ![poolKey(x)] = @ \ {c}] \in [Keys -> SUBSET Conns]
    BY <1>1, <2>1
  <2> QED BY <1>2, <1>4, <2>1, <2>2, <2>3 DEF GetPop
<1>5. ASSUME Warmup PROVE Starting
  BY <1>1, <1>2, <1>5 DEF Warmup
<1>6. ASSUME RotateLocked PROVE Starting
  <2> DEFINE q == [k \in Keys |-> IF k \in known THEN {c \in idle[k] : ~stale(c, rseen)}
                                  ELSE idle[k]]
  <2>1. q \in [Keys -> SUBSET Conns] /\ Schedule(known, q) /\ UNCHANGED <<backoff, att, pref, tried>>
    BY <1>1, <1>6 DEF RotateLocked, Due
  <2> HIDE DEF q
  <2> QED BY <1>1, <1>2, <2>1
<1>7. ASSUME UNCHANGED gvars, \A k \in Keys : backoff'[k] => backoff[k] PROVE Starting
  BY <1>7 DEF Starting, gvars
<1>8. ASSUME NEW x \in Clients,
             (\E ks \in Targets : Request(x, ks)) \/ GetFresh(x) \/ GetStale(x) \/ Release(x)
      PROVE  Starting
  BY <1>7, <1>8 DEF Request, GetFresh, GetStale, Release, shared, routes, gvars
<1>9. ASSUME RotateTick \/ RotateClose \/ RotateStop PROVE Starting
  BY <1>7, <1>9 DEF RotateTick, RotateClose, RotateStop, shared, routes, gvars
<1>10. ASSUME CloseLocked \/ CloseItem \/ CloseWait PROVE Starting
  BY <1>7, <1>10 DEF CloseLocked, CloseItem, CloseWait, shared, routes, gvars
<1>11. ASSUME Environment PROVE Starting
  <2>1. UNCHANGED gvars
    BY <1>11 DEF Environment, Die, Age, BackoffExpire, FrontingExpire, locals, gvars
  <2>2. \A k \in Keys : backoff'[k] => backoff[k]
    BY <1>11 DEF Environment, Die, Age, BackoffExpire, FrontingExpire, shared, routes,
                 TypeOK, PoolType
  <2> QED BY <1>7, <2>1, <2>2
<1> QED BY <1>3, <1>4, <1>5, <1>6, <1>8, <1>9, <1>10, <1>11 DEF Next, Get, Rotate

\* A refill that has begun ends the backoff of its route or finds it over.
LEMMA BackoffStep ==
    ASSUME IInv, BackoffQuiet, [Next]_vars
    PROVE  BackoffQuiet'
<1> USE DEF IInv
<1>1. \A h \in Gor : h[1] \in Keys
  BY DEF Gor
<1>2. CASE UNCHANGED vars
  BY <1>2 DEF BackoffQuiet, vars, shared, routes, locals, gvars
<1>3. CASE Starting
  <2> SUFFICES ASSUME NEW h \in Gor, backoff'[h[1]] PROVE gpc'[h] \in {"none", "exit"}
    BY DEF BackoffQuiet
  <2>1. backoff[h[1]] /\ gpc[h] \in {"none", "exit"}
    BY <1>1, <1>3 DEF Starting, BackoffQuiet
  <2> QED BY <1>3, <2>1 DEF Starting
<1>4. ASSUME NEW g \in Gor, Refill(g) PROVE BackoffQuiet'
  <2> SUFFICES ASSUME NEW h \in Gor, backoff'[h[1]] PROVE gpc'[h] \in {"none", "exit"}
    BY DEF BackoffQuiet
  <2>1. \A v : gpc' = [gpc EXCEPT ![g] = v] => gpc'[h] = IF h = g THEN v ELSE gpc[h]
    BY DEF TypeOK, GorType
  <2>2. CASE RefillFail(g)
    <3>1. gpc'[h] = IF h = g THEN "exit" ELSE gpc[h]
      BY <2>1, <2>2 DEF RefillFail
    <3>2. h # g /\ h[1] = g[1] => gpc[h] = "none"
      BY <2>2 DEF RefillFail, OneRefill
    <3>3. h[1] # g[1] => backoff'[h[1]] = backoff[h[1]]
      BY <1>1, <2>2 DEF RefillFail, routes, TypeOK, PoolType
    <3> QED BY <3>1, <3>2, <3>3 DEF BackoffQuiet
  <2>3. CASE RefillPut(g)
    <3>1. \/ backoff' = backoff /\ gpc' = [gpc EXCEPT ![g] = "drop"]
          \/ backoff' = [backoff EXCEPT ![g[1]] = FALSE] /\ gpc' = [gpc EXCEPT ![g] = "check"]
      BY <2>3 DEF RefillPut, AddToBucket, routes
    <3>2. backoff[h[1]] /\ h[1] # g[1]
      BY <1>1, <2>3, <3>1 DEF RefillPut, BackoffQuiet, TypeOK, PoolType
    <3> QED BY <2>1, <3>1, <3>2 DEF BackoffQuiet
  <2>4. CASE RefillCheck(g) \/ RefillTry(g) \/ RefillDialOk(g) \/ RefillDialFail(g)
             \/ RefillDrop(g) \/ RefillExit(g)
    <3> USE <2>4 DEF RefillCheck, RefillTry, RefillDialOk, RefillDialFail, RefillDrop,
                     RefillExit, shared, routes
    <3>1. backoff' = backoff
      OBVIOUS
    <3>2. PICK v : gpc' = [gpc EXCEPT ![g] = v] /\ (gpc[g] = "exit" => v = "none")
      OBVIOUS
    <3>3. gpc[g] # "none"
      OBVIOUS
    <3> QED BY <2>1, <3>1, <3>2, <3>3 DEF BackoffQuiet
  <2> QED BY <1>4, <2>2, <2>3, <2>4 DEF Refill
<1> QED BY <1>2, <1>3, <1>4, Starts

\* After Close nothing starts and no bucket gets a connection.
LEMMA AfterCloseStep ==
    ASSUME IInv, Next, closed
    PROVE  /\ \A g \in Gor : gpc[g] = "none" => gpc'[g] = "none"
           /\ rpc = "off" => rpc' = "off"
           /\ idle' = idle
           /\ closed'
<1> USE DEF IInv
<1>1. \A k \in Keys : idle[k] = {}
  BY DEF ClosedShape
<1>2. \A g \in Gor : gpc[g] = "none" => gpc'[g] = "none"
  <2>1. CASE Starting
    BY <2>1 DEF Starting
  <2>2. ASSUME NEW g \in Gor, Refill(g), NEW h \in Gor, gpc[h] = "none"
        PROVE  gpc'[h] = "none"
    <3>1. h # g /\ \E v : gpc' = [gpc EXCEPT ![g] = v]
      BY <2>2 DEF Refill, RefillCheck, RefillTry, RefillDialOk, RefillDialFail, RefillFail,
                  RefillPut, AddToBucket, RefillDrop, RefillExit
    <3> QED BY <2>2, <3>1 DEF TypeOK, GorType
  <2> QED BY <2>1, <2>2, Starts
<1>3. CASE (\E x \in Clients : (\E ks \in Targets : Request(x, ks)) \/ Get(x) \/ Release(x))
  BY <1>2, <1>3 DEF Request, Get, GetMiss, GetPop, GetFresh, GetStale, Release, shared, rvars
<1>4. CASE \E g \in Gor : Refill(g)
  BY <1>2, <1>4 DEF Refill, RefillCheck, RefillTry, RefillDialOk, RefillDialFail, RefillFail,
                    RefillPut, StillOpen, RefillDrop, RefillExit, shared, rvars
<1>5. CASE RotateLocked
  <2>1. idle' = [k \in Keys |-> IF k \in known THEN {c \in idle[k] : ~stale(c, rseen)}
                                ELSE idle[k]]
    BY <1>5 DEF RotateLocked
  <2>2. idle' = idle
    BY <1>1, <2>1 DEF TypeOK, PoolType
  <2> QED BY <1>2, <1>5, <2>2 DEF RotateLocked
<1>6. CASE Warmup \/ RotateTick \/ RotateClose \/ RotateStop
  BY <1>2, <1>6 DEF Warmup, RotateTick, RotateClose, RotateStop, shared
<1>7. CASE CloseLocked \/ CloseItem \/ CloseWait
  BY <1>2, <1>7 DEF CloseLocked, CloseItem, CloseWait, shared, rvars, ClosedShape
<1>8. CASE Environment
  BY <1>2, <1>8 DEF Environment, Die, Age, BackoffExpire, FrontingExpire, shared, locals, rvars
<1> QED BY <1>3, <1>4, <1>5, <1>6, <1>7, <1>8 DEF Next, Rotate

\* A route that backs off is not dialled, neither by a refill under way nor by
\* one that get, rotate or warmup starts.
THEOREM BackoffIsQuiet == Spec => []BackoffQuiet
<1>1. Init => BackoffQuiet
  BY DEF Init, BackoffQuiet, Gor
<1>2. IInv /\ BackoffQuiet /\ [Next]_vars => BackoffQuiet'
  BY BackoffStep
<1> QED BY <1>1, <1>2, Invariant, PTL DEF Spec

\* Close is final: no refill or rotator starts after it, and no bucket gets a
\* connection.
THEOREM ClosedForGood == Spec => NothingAfterClose
<1> DEFINE A == closed => /\ \A g \in Gor : gpc[g] = "none" => gpc'[g] = "none"
                          /\ rpc = "off" => rpc' = "off"
                          /\ idle' = idle
                          /\ closed'
<1>1. IInv /\ [Next]_vars => [A]_vars
  BY AfterCloseStep
<1> HIDE DEF A
<1>2. [][Next]_vars /\ []IInv => [][A]_vars
  BY <1>1, PTL
<1>3. Spec => [][A]_vars
  BY <1>2, Invariant, PTL DEF Spec
<1> QED BY <1>3 DEF NothingAfterClose, A

-----------------------------------------------------------------------------
(* The rounds of attempts *)

\* What n failed attempts have covered, p being frontedFirst of the last domain.
Made(n, p) == ((1..(n \div 2)) \X BOOLEAN) \cup (IF n % 2 = 1 THEN {<<n \div 2 + 1, p>>} ELSE {})

\* The attempts of a round and where the goroutine is in it.
Rounds ==
    \A g \in Gor :
      /\ gpc[g] \in {"try", "dial"} => att[g] < 2 * NumDomains(g[1])
      /\ gpc[g] = "fail" => att[g] = 2 * NumDomains(g[1])
      /\ gpc[g] \notin {"try", "dial", "fail"} => att[g] = 0
      /\ tried[g] = Made(att[g], pref[g])

\* An even number of attempts covers whole domains, and the next attempt adds
\* the domain that comes next, or its other mode.
LEMMA MadeFacts ==
    ASSUME NEW n \in Nat, NEW p \in BOOLEAN
    PROVE  /\ Made(0, p) = {}
           /\ n % 2 = 0 => Made(n, p) = (1..(n \div 2)) \X BOOLEAN
           /\ Made(n + 1, p) = Made(n, p) \cup {<<n \div 2 + 1, IF n % 2 = 0 THEN p ELSE ~p>>}
<1>1. /\ n % 2 \in {0, 1} /\ n \div 2 \in Nat
      /\ n % 2 = 0 => (n + 1) % 2 = 1 /\ (n + 1) \div 2 = n \div 2
      /\ n % 2 = 1 => (n + 1) % 2 = 0 /\ (n + 1) \div 2 = n \div 2 + 1
  OBVIOUS
<1>2. PICK m \in Nat : m = n \div 2
  BY <1>1
<1>3. Made(0, p) = {}
  BY DEF Made
<1>4. n % 2 = 0 => Made(n, p) = (1..m) \X BOOLEAN
  BY <1>2 DEF Made
<1>5. CASE n % 2 = 0
  <2>1. Made(n + 1, p) = ((1..m) \X BOOLEAN) \cup {<<m + 1, p>>}
    BY <1>1, <1>2, <1>5 DEF Made
  <2> QED BY <1>2, <1>3, <1>4, <1>5, <2>1
<1>6. CASE n % 2 = 1
  <2>1. Made(n + 1, p) = (1..(m + 1)) \X BOOLEAN
    BY <1>1, <1>2, <1>6 DEF Made
  <2>2. Made(n, p) = ((1..m) \X BOOLEAN) \cup {<<m + 1, p>>}
    BY <1>2, <1>6 DEF Made
  <2>3. 1..(m + 1) = (1..m) \cup {m + 1}
    OBVIOUS
  <2>4. BOOLEAN = {p, ~p}
    BY Zenon
  <2>5. (1..(m + 1)) \X BOOLEAN
          = ((1..m) \X BOOLEAN) \cup {<<m + 1, p>>} \cup {<<m + 1, ~p>>}
    <3> DEFINE B == BOOLEAN
               v == ~p
    <3>1. B = {p, v}
      BY <2>4
    <3> HIDE DEF B, v
    <3>2. (1..(m + 1)) \X B = ((1..m) \X B) \cup {<<m + 1, p>>} \cup {<<m + 1, v>>}
      BY <3>1, <2>3
    <3> QED BY <3>2 DEF B, v
  <2> QED BY <1>2, <1>3, <1>6, <2>1, <2>2, <2>5
<1> QED BY <1>1, <1>5, <1>6

\* One goroutine's loop variables after a step of its own.
LEMMA OwnRound ==
    ASSUME IInv, Rounds, NEW g \in Gor, Refill(g)
    PROVE  /\ gpc'[g] \in {"try", "dial"} => att'[g] < 2 * NumDomains(g[1])
           /\ gpc'[g] = "fail" => att'[g] = 2 * NumDomains(g[1])
           /\ gpc'[g] \notin {"try", "dial", "fail"} => att'[g] = 0
           /\ tried'[g] = Made(att'[g], pref'[g])
<1> USE DEF IInv
<1>1. /\ att[g] \in Nat /\ pref[g] \in BOOLEAN /\ fronting \in BOOLEAN
      /\ NumDomains(g[1]) \in {1, 2}
      /\ gpc[g] \in GPC
  BY DEF TypeOK, GorType, PoolType, NumDomains
<1>2. ASSUME NEW v, gpc' = [gpc EXCEPT ![g] = v], RoundOver(g), v \notin {"try", "dial", "fail"}
      PROVE  /\ gpc'[g] = v /\ att'[g] = 0 /\ pref'[g] = FALSE /\ tried'[g] = {}
             /\ Made(0, FALSE) = {}
  BY <1>2, MadeFacts DEF RoundOver, TypeOK, GorType
<1>3. ASSUME NEW v, gpc' = [gpc EXCEPT ![g] = v], UNCHANGED <<att, pref, tried>>
      PROVE  /\ gpc'[g] = v /\ att'[g] = att[g]
             /\ tried'[g] = Made(att'[g], pref'[g])
  BY <1>3 DEF TypeOK, GorType, Rounds
<1>4. CASE RefillCheck(g)
  <2>1. PICK v \in {"exit", "try"} : gpc' = [gpc EXCEPT ![g] = v]
    BY <1>4 DEF RefillCheck
  <2>2. att[g] = 0 /\ UNCHANGED <<att, pref, tried>>
    BY <1>4 DEF RefillCheck, Rounds
  <2>3. gpc'[g] = v /\ att'[g] = 0 /\ tried'[g] = Made(att'[g], pref'[g])
    BY <1>3, <2>1, <2>2
  <2>4. 0 < 2 * NumDomains(g[1])
    BY DEF NumDomains
  <2> QED BY <2>1, <2>3, <2>4
<1>5. CASE RefillTry(g)
  <2>1. CASE closed
    <3>1. gpc' = [gpc EXCEPT ![g] = "exit"] /\ RoundOver(g)
      BY <1>5, <2>1 DEF RefillTry
    <3> QED BY <1>2, <3>1
  <2>2. CASE ~closed
    <3>1. /\ gpc' = [gpc EXCEPT ![g] = "dial"]
          /\ pref' = IF att[g] % 2 = 0 THEN [pref EXCEPT ![g] = fronting] ELSE pref
          /\ att' = att /\ tried' = tried
      BY <1>5, <2>2 DEF RefillTry
    <3>2. gpc'[g] = "dial" /\ att[g] < 2 * NumDomains(g[1])
      BY <1>5, <3>1 DEF RefillTry, Rounds, TypeOK, GorType
    <3>3. pref'[g] = IF att[g] % 2 = 0 THEN fronting ELSE pref[g]
      BY <3>1 DEF TypeOK, GorType
    <3>4. att[g] % 2 = 0 => Made(att[g], fronting) = Made(att[g], pref[g])
      BY <1>1, MadeFacts
    <3> QED BY <3>1, <3>2, <3>3, <3>4 DEF Rounds
  <2> QED BY <2>1, <2>2
<1>6. CASE RefillDialFail(g)
  <2>1. CASE closed
    <3>1. gpc' = [gpc EXCEPT ![g] = "exit"] /\ RoundOver(g)
      BY <1>6, <2>1 DEF RefillDialFail
    <3> QED BY <1>2, <3>1
  <2>2. CASE ~closed
    <3>1. /\ att'[g] = att[g] + 1
          /\ pref'[g] = pref[g]
          /\ tried'[g] = tried[g] \cup {Attempt(g)}
          /\ gpc'[g] = IF att[g] + 1 = 2 * NumDomains(g[1]) THEN "fail" ELSE "try"
      BY <1>6, <2>2 DEF RefillDialFail, TypeOK, GorType
    <3>2. Attempt(g) = <<att[g] \div 2 + 1, IF att[g] % 2 = 0 THEN pref[g] ELSE ~pref[g]>>
      BY DEF Attempt, Fronted
    <3>3. tried'[g] = Made(att'[g], pref'[g])
      BY <1>1, <3>1, <3>2, MadeFacts DEF Rounds
    <3>4. att[g] < 2 * NumDomains(g[1])
      BY <1>6 DEF RefillDialFail, Rounds
    <3> QED BY <1>1, <3>1, <3>3, <3>4
  <2> QED BY <2>1, <2>2
<1>7. CASE RefillDialOk(g)
  BY <1>2, <1>7 DEF RefillDialOk
<1>8. CASE RefillFail(g)
  BY <1>2, <1>8 DEF RefillFail
<1>9. CASE RefillPut(g)
  BY <1>3, <1>9 DEF RefillPut, AddToBucket, Rounds
<1>10. CASE RefillDrop(g) \/ RefillExit(g)
  BY <1>3, <1>10 DEF RefillDrop, RefillExit, Rounds
<1> QED BY <1>4, <1>5, <1>6, <1>7, <1>8, <1>9, <1>10 DEF Refill

\* A refill leaves the loop variables of the others alone.
LEMMA OtherRound ==
    ASSUME IInv, NEW g \in Gor, Refill(g), NEW h \in Gor, h # g
    PROVE  gpc'[h] = gpc[h] /\ att'[h] = att[h] /\ pref'[h] = pref[h] /\ tried'[h] = tried[h]
<1> USE DEF IInv, TypeOK, GorType
<1>1. CASE RefillCheck(g)
  BY <1>1 DEF RefillCheck
<1>2. CASE RefillTry(g)
  BY <1>2 DEF RefillTry, RoundOver
<1>3. CASE RefillDialFail(g)
  BY <1>3 DEF RefillDialFail, RoundOver
<1>4. CASE RefillDialOk(g)
  BY <1>4 DEF RefillDialOk, RoundOver
<1>5. CASE RefillFail(g)
  BY <1>5 DEF RefillFail, RoundOver
<1>6. CASE RefillPut(g)
  BY <1>6 DEF RefillPut, AddToBucket
<1>7. CASE RefillDrop(g) \/ RefillExit(g)
  BY <1>7 DEF RefillDrop, RefillExit
<1> QED BY <1>1, <1>2, <1>3, <1>4, <1>5, <1>6, <1>7 DEF Refill

\* A refill gives up only after every domain failed in both modes, although
\* other goroutines change the fronting mode during the round.
THEOREM GivesUpLast == Spec => []AllModesTried
<1>1. Init => Rounds
  <2>1. Made(0, FALSE) = {}
    BY MadeFacts
  <2> QED BY <2>1 DEF Init, Rounds
<1>2. IInv /\ Rounds /\ [Next]_vars => Rounds'
  <2> SUFFICES ASSUME IInv, Rounds, [Next]_vars PROVE Rounds'
    OBVIOUS
  <2>1. CASE UNCHANGED vars
    BY <2>1 DEF Rounds, vars, locals, gvars
  <2>2. CASE Starting
    BY <2>2 DEF Starting, Rounds
  <2>3. ASSUME NEW g \in Gor, Refill(g) PROVE Rounds'
    <3> SUFFICES ASSUME NEW h \in Gor
                 PROVE  /\ gpc'[h] \in {"try", "dial"} => att'[h] < 2 * NumDomains(h[1])
                        /\ gpc'[h] = "fail" => att'[h] = 2 * NumDomains(h[1])
                        /\ gpc'[h] \notin {"try", "dial", "fail"} => att'[h] = 0
                        /\ tried'[h] = Made(att'[h], pref'[h])
      BY DEF Rounds
    <3>1. CASE h = g
      BY <2>3, <3>1, OwnRound
    <3>2. CASE h # g
      BY <2>3, <3>2, OtherRound DEF Rounds
    <3> QED BY <3>1, <3>2
  <2> QED BY <2>1, <2>2, <2>3, Starts
<1>3. IInv /\ Rounds => AllModesTried
  <2> SUFFICES ASSUME IInv, Rounds, NEW g \in Gor, gpc[g] = "fail"
               PROVE  tried[g] = (1..NumDomains(g[1])) \X BOOLEAN
    BY DEF AllModesTried
  <2>1. PICK d \in {1, 2} : d = NumDomains(g[1])
    BY DEF NumDomains
  <2>2. pref[g] \in BOOLEAN /\ tried[g] = Made(2 * d, pref[g])
    BY <2>1 DEF IInv, TypeOK, GorType, Rounds
  <2>3. (2 * d) % 2 = 0 /\ (2 * d) \div 2 = d /\ 2 * d \in Nat
    BY <2>1
  <2> QED BY <2>1, <2>2, <2>3, MadeFacts
<1> QED BY <1>1, <1>2, <1>3, Invariant, PTL DEF Spec

-----------------------------------------------------------------------------
(* Where connections go *)

\* A step that the clients cannot see: no bucket and no client's connection
\* changes.
Internal == /\ UNCHANGED <<closed, idle>>
            /\ \A x \in Clients : hand'[x] = hand[x] /\ (want'[x] = want[x] \/ hand[x] = {})

\* Only these steps are not internal.
LEMMA Visible ==
    ASSUME IInv, Next
    PROVE  \/ Internal
           \/ \E x \in Clients : GetPop(x) \/ GetStale(x) \/ Release(x)
           \/ \E g \in Gor : RefillPut(g) /\ ~closed
           \/ RotateLocked
           \/ CloseLocked
<1> USE DEF IInv
<1>1. /\ \A x \in Clients : x \in Procs /\ x # Rotator /\ x # Closer /\ x \notin Gor
      /\ Rotator \in Procs /\ Closer \in Procs /\ Gor \subseteq Procs
  BY ProcsAssumption DEF Procs
<1>2. ASSUME NEW p \in Procs \ Clients, NEW S, Take(p, S) PROVE \A x \in Clients : hand'[x] = hand[x]
  BY <1>1, <1>2 DEF Take, TypeOK, ConnType
<1>3. ASSUME NEW x \in Clients, cpc[x] \in {"idle", "get"},
             UNCHANGED <<closed, idle, hand>>,
             \E s : want' = [want EXCEPT ![x] = s]
      PROVE  Internal
  BY <1>3 DEF Internal, HandShape, TypeOK, ControlType
<1>4. ASSUME NEW x \in Clients, \E ks \in Targets : Request(x, ks) PROVE Internal
  BY <1>3, <1>4 DEF Request, shared
<1>5. ASSUME NEW x \in Clients, GetMiss(x) PROVE Internal
  BY <1>3, <1>5 DEF GetMiss, NextTarget
<1>6. ASSUME NEW x \in Clients, GetFresh(x) PROVE Internal
  BY <1>6 DEF GetFresh, shared, Internal
<1>7. ASSUME NEW g \in Gor, Refill(g), ~(RefillPut(g) /\ ~closed) PROVE Internal
  <2>1. UNCHANGED <<closed, idle, want>>
    BY <1>7 DEF Refill, RefillCheck, RefillTry, RefillDialOk, RefillDialFail, RefillFail,
                RefillPut, StillOpen, RefillDrop, RefillExit, shared, cvars
  <2>2. hand' = hand \/ \E S : Take(g, S)
    BY <1>7 DEF Refill, RefillCheck, RefillTry, RefillDialOk, RefillDialFail, RefillFail,
                RefillPut, StillOpen, RefillDrop, RefillExit
  <2> QED BY <1>1, <1>2, <2>1, <2>2 DEF Internal
<1>8. ASSUME Warmup \/ RotateTick \/ RotateStop \/ CloseWait \/ Environment PROVE Internal
  BY <1>8 DEF Warmup, RotateTick, RotateStop, CloseWait, Environment, Die, Age, BackoffExpire,
              FrontingExpire, shared, cvars, locals, Internal
<1>9. ASSUME RotateClose PROVE Internal
  <2>1. hand' = hand \/ \E S : Take(Rotator, S)
    BY <1>9 DEF RotateClose
  <2> QED BY <1>1, <1>2, <1>9, <2>1 DEF RotateClose, shared, Internal
<1>10. ASSUME CloseItem PROVE Internal
  <2>1. \E S : Take(Closer, S)
    BY <1>10 DEF CloseItem
  <2> QED BY <1>1, <1>2, <1>10, <2>1 DEF CloseItem, shared, Internal
<1> QED BY <1>4, <1>5, <1>6, <1>7, <1>8, <1>9, <1>10 DEF Next, Get, Rotate

\* The processes other than clients get connections from a dial, from rotate's
\* and from Close's critical section only, and a connection keeps its target
\* while it is open.
Flow == /\ \A c \in open \cap open' : target'[c] = target[c]
        /\ \A g \in Gor : \/ hand'[g] \subseteq hand[g]
                          \/ \A c \in hand'[g] : target'[c] = g[1]
        /\ RotateLocked \/ hand'[Rotator] \subseteq hand[Rotator]
        /\ CloseLocked \/ (closed' = closed /\ hand'[Closer] \subseteq hand[Closer])

LEMMA Flows ==
    ASSUME IInv, Next
    PROVE  Flow
<1> USE DEF IInv
<1>1. /\ \A x \in Clients : x \in Procs /\ x # Rotator /\ x # Closer /\ x \notin Gor
      /\ \A g \in Gor : g \in Procs /\ g # Rotator /\ g # Closer
      /\ Rotator \in Procs /\ Closer \in Procs /\ Rotator # Closer
  BY ProcsAssumption DEF Procs
<1>2. ASSUME NEW p \in Procs, NEW S, Take(p, S)
      PROVE  \A q \in Procs : hand'[q] = IF q = p THEN S ELSE hand[q]
  BY <1>2 DEF Take, TypeOK, ConnType
<1>3. ASSUME UNCHANGED hand, UNCHANGED target, UNCHANGED closed PROVE Flow
  BY <1>3 DEF Flow
<1>4. ASSUME NEW S, Shut(S) PROVE \A c \in open \cap open' : target'[c] = target[c]
  BY <1>4 DEF Shut, TypeOK, ConnType
<1>5. ASSUME NEW p \in Procs, NEW S \in SUBSET hand[p], NEW T, Shut(T), Take(p, S), closed' = closed
      PROVE  Flow
  <2>1. \A q \in Procs : hand'[q] \subseteq hand[q]
    BY <1>2, <1>5
  <2> QED BY <1>1, <1>4, <1>5, <2>1 DEF Flow
<1>6. ASSUME NEW x \in Clients, GetPop(x) PROVE Flow
  <2>1. \E S : Take(x, S)
    BY <1>6 DEF GetPop
  <2>2. \A q \in Procs \ Clients : hand'[q] = hand[q]
    BY <1>1, <1>2, <2>1
  <2> QED BY <1>1, <1>6, <2>2 DEF GetPop, conns, Flow
<1>7. ASSUME NEW x \in Clients, GetStale(x) \/ Release(x) PROVE Flow
  BY <1>1, <1>5, <1>7 DEF GetStale, Release, shared
<1>8. ASSUME NEW x \in Clients, (\E ks \in Targets : Request(x, ks)) \/ GetMiss(x) \/ GetFresh(x)
      PROVE  Flow
  BY <1>3, <1>8 DEF Request, GetMiss, GetFresh, shared, conns
<1>9. ASSUME NEW g \in Gor, RefillDialOk(g) PROVE Flow
  <2>1. PICK c \in Conns \ open : target' = [target EXCEPT ![c] = g[1]] /\ Take(g, {c})
    BY <1>9 DEF RefillDialOk
  <2>2. \A q \in Procs : hand'[q] = IF q = g THEN {c} ELSE hand[q]
    BY <1>1, <1>2, <2>1
  <2>3. target'[c] = g[1] /\ \A d \in open : target'[d] = target[d]
    BY <2>1 DEF TypeOK, ConnType
  <2> QED BY <1>1, <1>9, <2>2, <2>3 DEF RefillDialOk, Flow
<1>10. ASSUME NEW g \in Gor, RefillPut(g) PROVE Flow
  <2>1. hand' = hand \/ Take(g, {})
    BY <1>10 DEF RefillPut, AddToBucket
  <2>2. \A q \in Procs : hand'[q] \subseteq hand[q]
    BY <1>1, <1>2, <2>1
  <2> QED BY <1>1, <1>10, <2>2 DEF RefillPut, conns, Flow
<1>11. ASSUME NEW g \in Gor, RefillDrop(g) PROVE Flow
  BY <1>1, <1>5, <1>11 DEF RefillDrop, shared
<1>12. ASSUME NEW g \in Gor, RefillCheck(g) \/ RefillTry(g) \/ RefillDialFail(g) \/ RefillFail(g)
                             \/ RefillExit(g)
       PROVE  Flow
  BY <1>3, <1>12 DEF RefillCheck, RefillTry, RefillDialFail, RefillFail, RefillExit, shared, conns
<1>13. ASSUME Warmup \/ RotateTick \/ RotateStop \/ CloseWait \/ Environment PROVE Flow
  BY <1>3, <1>13 DEF Warmup, RotateTick, RotateStop, CloseWait, Environment, Die, Age,
                     BackoffExpire, FrontingExpire, shared, conns
<1>14. ASSUME RotateLocked PROVE Flow
  <2>1. \E S : Take(Rotator, S)
    BY <1>14 DEF RotateLocked
  <2> QED BY <1>1, <1>2, <1>14, <2>1 DEF RotateLocked, conns, Flow
<1>15. ASSUME RotateClose PROVE Flow
  <2>1. CASE hand[Rotator] = {}
    BY <1>3, <1>15, <2>1 DEF RotateClose, shared, conns
  <2>2. CASE hand[Rotator] # {}
    BY <1>1, <1>5, <1>15, <2>2 DEF RotateClose, shared
  <2> QED BY <2>1, <2>2
<1>16. ASSUME CloseLocked PROVE Flow
  BY <1>1, <1>2, <1>16 DEF CloseLocked, conns, Flow
<1>17. ASSUME CloseItem PROVE Flow
  BY <1>1, <1>5, <1>17 DEF CloseItem, shared
<1> QED BY <1>6, <1>7, <1>8, <1>9, <1>10, <1>11, <1>12, <1>13, <1>14, <1>15, <1>16, <1>17
        DEF Next, Get, Rotate, Refill

\* A connection stays with the key it was dialled for, in the dialler's hands,
\* in its bucket and in the hands of the client that asked for the key.
RouteShape == /\ \A k \in Keys : \A c \in idle[k] : target[c] = k
              /\ \A g \in Gor : \A c \in hand[g] : target[c] = g[1]
              /\ RouteMatch

LEMMA RouteStep ==
    ASSUME IInv, RouteShape, [Next]_vars
    PROVE  RouteShape'
<1>1. CASE UNCHANGED vars
  BY <1>1 DEF RouteShape, RouteMatch, vars, shared, conns, locals, cvars
<1>2. CASE Next
  <2>1. IInv' /\ Flow
    BY <1>2, NextInv, Flows
  <2>2. /\ \A k \in Keys : idle[k] \subseteq open /\ idle'[k] \subseteq open'
        /\ \A p \in Procs : hand[p] \subseteq open /\ hand'[p] \subseteq open'
    BY <2>1 DEF IInv, NoLeak, Held, TypeOK, PoolType, ConnType
  <2>3. Gor \subseteq Procs /\ Clients \subseteq Procs
    BY DEF Procs
  <2>4. \A g \in Gor : \A c \in hand'[g] : target'[c] = g[1]
    BY <2>1, <2>2, <2>3 DEF Flow, RouteShape
  <2>5. ASSUME \A k \in Keys : idle'[k] \subseteq idle[k]
        PROVE  \A k \in Keys : \A c \in idle'[k] : target'[c] = k
    BY <2>1, <2>2, <2>5 DEF Flow, RouteShape
  <2>6. ASSUME NEW x \in Clients, hand'[x] \subseteq hand[x], want'[x] = want[x] \/ hand[x] = {}
        PROVE  \A c \in hand'[x] : want'[x] # <<>> /\ target'[c] = Head(want'[x])
    BY <2>1, <2>2, <2>3, <2>6 DEF Flow, RouteShape, RouteMatch
  <2>7. CASE Internal
    BY <2>4, <2>5, <2>6, <2>7 DEF Internal, RouteShape, RouteMatch
  <2>8. ASSUME NEW x \in Clients, GetPop(x) PROVE RouteShape'
    <3>1. PICK k \in Keys : k = poolKey(x)
      BY <2>8 DEF GetPop, poolKey, IInv, TypeOK, ControlType, WantShape
    <3>2. PICK c \in idle[k] : idle' = [idle EXCEPT ![k] = @ \ {c}] /\ Take(x, {c})
      BY <2>8, <3>1 DEF GetPop
    <3>3. /\ \A j \in Keys : idle'[j] \subseteq idle[j]
          /\ \A p \in Procs : hand'[p] = IF p = x THEN {c} ELSE hand[p]
          /\ want' = want
      BY <2>8, <3>2 DEF GetPop, Take, IInv, TypeOK, PoolType, ConnType
    <3>4. want[x] # <<>> /\ Head(want[x]) = k /\ hand'[x] = {c}
      BY <2>3, <2>8, <3>1, <3>3 DEF GetPop, poolKey, IInv, WantShape
    <3>5. target'[c] = k
      BY <2>1, <2>2, <2>3, <3>3 DEF Flow, RouteShape
    <3>6. RouteMatch'
      BY <2>3, <2>6, <3>3, <3>4, <3>5 DEF RouteMatch
    <3> QED BY <2>4, <2>5, <3>3, <3>6 DEF RouteShape
  <2>9. ASSUME NEW x \in Clients, GetStale(x) \/ Release(x) PROVE RouteShape'
    <3>1. /\ idle' = idle
          /\ \A p \in Procs : hand'[p] = IF p = x THEN {} ELSE hand[p]
          /\ \A y \in Clients : y # x => want'[y] = want[y]
      BY <2>9 DEF GetStale, Release, Take, shared, IInv, TypeOK, ConnType, ControlType
    <3>2. RouteMatch'
      BY <2>3, <2>6, <3>1 DEF RouteMatch
    <3> QED BY <2>4, <2>5, <3>1, <3>2 DEF RouteShape
  <2>10. ASSUME NEW g \in Gor, RefillPut(g), ~closed PROVE RouteShape'
    <3>1. g \in Procs /\ g \notin Clients /\ g[1] \in Keys
      BY ProcsAssumption DEF Procs, Gor
    <3>2. /\ idle' = [idle EXCEPT ![g[1]] = @ \cup hand[g]]
          /\ hand' = [hand EXCEPT ![g] = {}]
          /\ want' = want /\ target' = target
      BY <2>10 DEF RefillPut, StillOpen, AddToBucket, Take, conns, cvars
    <3>3. \A k \in Keys : idle'[k] = IF k = g[1] THEN idle[k] \cup hand[g] ELSE idle[k]
      BY <3>2 DEF IInv, TypeOK, PoolType
    <3>4. \A x \in Clients : hand'[x] = hand[x]
      BY <3>1, <3>2, <2>3 DEF IInv, TypeOK, ConnType
    <3>5. \A k \in Keys : \A c \in idle'[k] : target'[c] = k
      BY <3>2, <3>3 DEF RouteShape
    <3> QED BY <2>4, <2>6, <3>2, <3>4, <3>5 DEF RouteShape, RouteMatch
  <2>11. CASE RotateLocked \/ CloseLocked
    <3>1. \A k \in Keys : idle'[k] \subseteq idle[k]
      BY <2>11 DEF RotateLocked, CloseLocked, FreshMap
    <3>2. want' = want /\ (\E S : Take(Rotator, S) \/ Take(Closer, S))
      BY <2>11 DEF RotateLocked, CloseLocked, cvars
    <3>3. \A x \in Clients : hand'[x] = hand[x]
      BY <2>3, <3>2, ProcsAssumption DEF Take, IInv, TypeOK, ConnType
    <3> QED BY <2>4, <2>5, <2>6, <3>1, <3>2, <3>3 DEF RouteShape, RouteMatch
  <2> QED BY <1>2, <2>7, <2>8, <2>9, <2>10, <2>11, Visible
<1> QED BY <1>1, <1>2

LEMMA RoutesKept == Spec => []RouteShape
<1>1. Init => RouteShape
  BY DEF Init, RouteShape, RouteMatch, Procs
<1>2. IInv /\ RouteShape /\ [Next]_vars => RouteShape'
  BY RouteStep
<1> QED BY <1>1, <1>2, Invariant, PTL DEF Spec

\* A session only holds a connection dialled for the DC, media flag and IP it
\* is asking for (getForDC, get).
THEOREM RightRoute == Spec => []RouteMatch
<1>1. RouteShape => RouteMatch
  BY DEF RouteShape
<1> QED BY <1>1, RoutesKept, PTL

-----------------------------------------------------------------------------
(* Descriptors *)

\* The connections of key k in its bucket or on the list Close works off, and
\* those the rotator took out.
Stocked(k) == idle[k] \cup {c \in hand[Closer] : target[c] = k}
Expired(k) == {c \in hand[Rotator] : target[c] = k}

\* Each of them is bounded as the bucket was when they were taken out of it; a
\* refill that may still add one was let in when there was room.
Budget == /\ \A k \in Keys : /\ IsFiniteSet(Stocked(k)) /\ Cardinality(Stocked(k)) <= PoolSize
                             /\ IsFiniteSet(Expired(k)) /\ Cardinality(Expired(k)) <= PoolSize
          /\ \A g \in Gor : gpc[g] \in {"try", "dial", "put", "drop"}
                              => Cardinality(Stocked(g[1])) < PoolSize
          /\ \A g \in Gor : gpc[g] = "drop" => closed

\* A subset of a bounded set is bounded.
LEMMA Fewer ==
    ASSUME NEW S, NEW T, IsFiniteSet(T), S \subseteq T
    PROVE  /\ IsFiniteSet(S)
           /\ Cardinality(S) \in Nat /\ Cardinality(T) \in Nat
           /\ Cardinality(S) <= Cardinality(T)
BY FS_Subset, FS_CardinalityType

\* Once the pool is closed no refill gets past its checks, and a connection is
\* only dropped then.
LEMMA LateRefill ==
    ASSUME IInv, Next, NEW g \in Gor
    PROVE  /\ closed /\ gpc'[g] \in {"try", "dial", "put", "drop"}
                => gpc[g] \in {"try", "dial", "put", "drop"}
           /\ gpc'[g] = "drop" => gpc[g] = "drop" \/ closed
<1> USE DEF IInv
<1>1. CASE Starting
  BY <1>1 DEF Starting
<1>2. ASSUME NEW h \in Gor, Refill(h), h # g
      PROVE  gpc'[g] = gpc[g]
  BY <1>2, OtherRound
<1>3. CASE Refill(g)
  <2>1. \A v : gpc' = [gpc EXCEPT ![g] = v] => gpc'[g] = v
    BY DEF TypeOK, GorType
  <2>2. CASE RefillCheck(g)
    BY <2>1, <2>2 DEF RefillCheck
  <2>3. CASE RefillTry(g) \/ RefillDialOk(g) \/ RefillDialFail(g)
    BY <2>1, <2>3 DEF RefillTry, RefillDialOk, RefillDialFail
  <2>4. CASE RefillFail(g) \/ RefillDrop(g) \/ RefillExit(g)
    BY <2>1, <2>4 DEF RefillFail, RefillDrop, RefillExit
  <2>5. CASE RefillPut(g)
    BY <2>1, <2>5 DEF RefillPut, StillOpen, AddToBucket
  <2> QED BY <1>3, <2>2, <2>3, <2>4, <2>5 DEF Refill
<1> QED BY <1>1, <1>2, <1>3, Starts

LEMMA BudgetStep ==
    ASSUME IInv, RouteShape, Budget, [Next]_vars
    PROVE  Budget'
<1>1. CASE UNCHANGED vars
  BY <1>1 DEF Budget, Stocked, Expired, vars, shared, conns, locals, gvars
<1>2. CASE Next
  <2>1. IInv' /\ Flow
    BY <1>2, NextInv, Flows
  <2>2. /\ \A k \in Keys : idle[k] \subseteq open /\ idle'[k] \subseteq open'
        /\ \A p \in Procs : hand[p] \subseteq open /\ hand'[p] \subseteq open'
    BY <2>1 DEF IInv, NoLeak, Held, TypeOK, PoolType, ConnType
  <2>3. Rotator \in Procs /\ Closer \in Procs /\ Rotator # Closer /\ \A g \in Gor : g[1] \in Keys
    BY ProcsAssumption DEF Procs, Gor
  <2>4. \A g \in Gor : gpc'[g] = "drop" => closed'
    BY <1>2, <2>1, LateRefill DEF Flow, Budget, CloseLocked
  <2>5. \A k \in Keys : IsFiniteSet(idle[k]) /\ Cardinality(idle[k]) <= PoolSize
    BY DEF IInv, Room, IdleBound
  <2>6. ASSUME NEW k \in Keys
        PROVE  IsFiniteSet(Expired(k)') /\ Cardinality(Expired(k)') <= PoolSize
    <3>1. CASE RotateLocked
      <4>1. PICK q \in [Keys -> SUBSET Conns] :
              Take(Rotator, UNION {idle[j] \ q[j] : j \in Keys})
        <5> DEFINE q == [j \in Keys |-> IF j \in known THEN {c \in idle[j] : ~stale(c, rseen)}
                                        ELSE idle[j]]
        <5>1. Take(Rotator, UNION {idle[j] \ q[j] : j \in Keys})
          BY <3>1 DEF RotateLocked
        <5>2. q \in [Keys -> SUBSET Conns]
          BY DEF IInv, TypeOK, PoolType
        <5> HIDE DEF q
        <5> QED BY <5>1, <5>2
      <4>2. hand'[Rotator] = UNION {idle[j] \ q[j] : j \in Keys} /\ target' = target
        BY <2>3, <3>1, <4>1 DEF RotateLocked, Take, conns, IInv, TypeOK, ConnType
      <4>3. Expired(k)' \subseteq idle[k]
        BY <4>2 DEF Expired, RouteShape
      <4> QED BY <2>5, <4>3, Fewer, SizeAssumption
    <3>2. CASE hand'[Rotator] \subseteq hand[Rotator]
      <4>1. Expired(k)' \subseteq Expired(k)
        BY <2>1, <2>2, <2>3, <3>2 DEF Flow, Expired
      <4> QED BY <4>1, Fewer, SizeAssumption DEF Budget
    <3> QED BY <2>1, <3>1, <3>2 DEF Flow
  <2>7. CASE ~closed'
    <3>1. \A k \in Keys : Stocked(k)' = idle'[k]
      BY <2>1, <2>7 DEF Stocked, IInv, HandShape, ClosedShape
    <3>2. \A g \in Gor : gpc'[g] \in {"try", "dial", "put"} => Cardinality(idle'[g[1]]) < PoolSize
      BY <2>1 DEF IInv, Room
    <3>3. \A k \in Keys : IsFiniteSet(idle'[k]) /\ Cardinality(idle'[k]) <= PoolSize
      BY <2>1 DEF IInv, Room, IdleBound
    <3> QED BY <2>3, <2>4, <2>6, <2>7, <3>1, <3>2, <3>3 DEF Budget
  <2>8. CASE CloseLocked
    <3>1. ~closed /\ hand'[Closer] = Idle /\ target' = target /\ gpc' = gpc
          /\ \A k \in Keys : idle'[k] = {}
      BY <2>3, <2>8 DEF CloseLocked, FreshMap, Take, conns, gvars, IInv, TypeOK, ConnType, ClosedShape
    <3>2. \A k \in Keys : Stocked(k)' \subseteq idle[k]
      BY <3>1 DEF Stocked, Idle, RouteShape
    <3>3. \A k \in Keys : /\ IsFiniteSet(Stocked(k)')
                          /\ Cardinality(Stocked(k)') <= Cardinality(idle[k])
                          /\ Cardinality(Stocked(k)') \in Nat /\ Cardinality(idle[k]) \in Nat
      BY <2>5, <3>2, Fewer
    <3>4. \A k \in Keys : Cardinality(Stocked(k)') <= PoolSize
      BY <2>5, <3>3, SizeAssumption
    <3>5. \A g \in Gor : gpc'[g] \in {"try", "dial", "put", "drop"}
                           => Cardinality(Stocked(g[1])') < PoolSize
      BY <2>3, <3>1, <3>3, SizeAssumption DEF Budget, IInv, Room
    <3> QED BY <2>4, <2>6, <3>3, <3>4, <3>5 DEF Budget
  <2>9. CASE closed' /\ ~CloseLocked
    <3>1. closed /\ hand'[Closer] \subseteq hand[Closer]
      BY <2>1, <2>9 DEF Flow
    <3>2. \A k \in Keys : idle'[k] = {}
      BY <2>1, <2>9 DEF IInv, ClosedShape
    <3>3. \A k \in Keys : Stocked(k)' \subseteq Stocked(k)
      BY <2>1, <2>2, <2>3, <3>1, <3>2 DEF Flow, Stocked
    <3>4. \A k \in Keys : /\ IsFiniteSet(Stocked(k)')
                          /\ Cardinality(Stocked(k)') <= Cardinality(Stocked(k))
                          /\ Cardinality(Stocked(k)') \in Nat /\ Cardinality(Stocked(k)) \in Nat
      BY <3>3, Fewer DEF Budget
    <3>5. \A k \in Keys : Cardinality(Stocked(k)') <= PoolSize
      BY <3>4, SizeAssumption DEF Budget
    <3>6. \A g \in Gor : gpc'[g] \in {"try", "dial", "put", "drop"}
                           => gpc[g] \in {"try", "dial", "put", "drop"}
      BY <1>2, <3>1, LateRefill
    <3>7. \A g \in Gor : gpc'[g] \in {"try", "dial", "put", "drop"}
                           => Cardinality(Stocked(g[1])') < PoolSize
      BY <2>3, <3>4, <3>6, SizeAssumption DEF Budget
    <3> QED BY <2>4, <2>6, <3>4, <3>5, <3>7 DEF Budget
  <2> QED BY <2>7, <2>8, <2>9
<1> QED BY <1>1, <1>2

\* What the pool holds for a key: the bucket, what is being closed, and what
\* the key's refill just dialled.
LEMMA BudgetBound ==
    ASSUME IInv, RouteShape, Budget
    PROVE  FDBound
<1> SUFFICES ASSUME NEW k \in Keys
             PROVE  Cardinality(PoolHeld(k)) + (IF Dialling(k) THEN 1 ELSE 0) <= Reserve \div 2
  BY DEF FDBound
<1>1. Reserve \div 2 = 2 * PoolSize
  BY SizeAssumption DEF Reserve
<1> DEFINE D == Stocked(k)
           R == Expired(k)
<1>2. /\ IsFiniteSet(D) /\ Cardinality(D) \in Nat /\ Cardinality(D) <= PoolSize
      /\ IsFiniteSet(R) /\ Cardinality(R) \in Nat /\ Cardinality(R) <= PoolSize
  BY FS_CardinalityType DEF Budget
<1>3. ASSUME NEW c \in PoolHeld(k)
      PROVE  c \in D \cup R \/ \E g \in Gor : g[1] = k /\ c \in hand[g]
  <2>1. c \in open /\ target[c] = k /\ \A x \in Clients : c \notin hand[x]
    BY DEF PoolHeld
  <2>2. Held(c)
    BY <2>1 DEF IInv, NoLeak, TypeOK, ConnType
  <2>3. ASSUME NEW j \in Keys, c \in idle[j] PROVE c \in D
    BY <2>1, <2>3 DEF RouteShape, Stocked
  <2>4. c \in hand[Rotator] => c \in R
    BY <2>1 DEF Expired
  <2>5. c \in hand[Closer] => c \in D
    BY <2>1 DEF Stocked
  <2>6. \A g \in Gor : c \in hand[g] => g[1] = k
    BY <2>1 DEF RouteShape
  <2> QED BY <2>1, <2>2, <2>3, <2>4, <2>5, <2>6 DEF Held, Procs
<1> HIDE DEF D, R
<1>4. IsFiniteSet(D \cup R) /\ Cardinality(D \cup R) \in Nat
      /\ Cardinality(D \cup R) <= Cardinality(D) + Cardinality(R)
  <2>1. /\ IsFiniteSet(D \cup R)
        /\ Cardinality(D \cup R) = Cardinality(D) + Cardinality(R) - Cardinality(D \cap R)
    BY <1>2, FS_Union
  <2>2. Cardinality(D \cap R) \in Nat
    BY <1>2, Fewer
  <2>3. Cardinality(D \cup R) \in Nat
    BY <2>1, FS_CardinalityType
  <2> QED BY <1>2, <2>1, <2>2, <2>3
<1>5. CASE \E g \in Gor : g[1] = k /\ gpc[g] \in {"put", "drop"}
  <2>1. PICK g \in Gor : g[1] = k /\ gpc[g] \in {"put", "drop"}
    BY <1>5
  <2>2. \A h \in Gor : h[1] = k /\ h # g => gpc[h] = "none"
    BY <2>1 DEF IInv, OneRefill
  <2>3. ~Dialling(k)
    <3>1. \A s \in Slots : <<k, s>> \in Gor /\ <<k, s>>[1] = k
      BY DEF Gor
    <3> QED BY <2>1, <2>2, <3>1 DEF Dialling
  <2>4. PICK c \in Conns : hand[g] = {c}
    BY <2>1 DEF IInv, HandShape
  <2>5. \A h \in Gor : h[1] = k /\ h # g => hand[h] = {}
    BY <2>2 DEF IInv, HandShape
  <2>6. PoolHeld(k) \subseteq (D \cup R) \cup {c}
    BY <1>3, <2>4, <2>5
  <2>7. /\ IsFiniteSet((D \cup R) \cup {c})
        /\ Cardinality((D \cup R) \cup {c}) \in Nat
        /\ Cardinality((D \cup R) \cup {c}) <= Cardinality(D \cup R) + 1
    <3> DEFINE E == D \cup R
    <3>1. IsFiniteSet(E) /\ Cardinality(E) \in Nat
      BY <1>4
    <3> HIDE DEF E
    <3>2. IsFiniteSet(E \cup {c}) /\ Cardinality(E \cup {c}) \in {Cardinality(E), Cardinality(E) + 1}
      BY <3>1, FS_AddElement
    <3> QED BY <3>1, <3>2 DEF E
  <2>8. Cardinality(PoolHeld(k)) \in Nat /\ Cardinality(PoolHeld(k)) <= Cardinality((D \cup R) \cup {c})
    BY <2>6, <2>7, Fewer
  <2>9. Cardinality(D) < PoolSize
    BY <2>1 DEF Budget, D
  <2> QED BY <1>1, <1>2, <1>4, <2>3, <2>7, <2>8, <2>9, SizeAssumption
<1>6. CASE ~\E g \in Gor : g[1] = k /\ gpc[g] \in {"put", "drop"}
  <2>1. \A g \in Gor : g[1] = k => hand[g] = {}
    BY <1>6 DEF IInv, HandShape
  <2>2. PoolHeld(k) \subseteq D \cup R
    BY <1>3, <2>1
  <2>3. Cardinality(PoolHeld(k)) \in Nat /\ Cardinality(PoolHeld(k)) <= Cardinality(D \cup R)
    BY <1>4, <2>2, Fewer
  <2>4. ASSUME Dialling(k) PROVE Cardinality(D) < PoolSize
    <3>1. PICK s \in Slots : gpc[<<k, s>>] = "dial"
      BY <2>4 DEF Dialling
    <3>2. <<k, s>> \in Gor /\ <<k, s>>[1] = k
      BY DEF Gor
    <3> QED BY <3>1, <3>2 DEF Budget, D
  <2> QED BY <1>1, <1>2, <1>4, <2>3, <2>4, SizeAssumption
<1> QED BY <1>5, <1>6

\* The descriptors fitsFDBudget reserves for a bucket are enough, for every
\* pool size: what is idle, being dialled, expired or being closed.
THEOREM DescriptorsSuffice == Spec => []FDBound
<1>1. Init => Budget
  <2> SUFFICES ASSUME Init PROVE Budget
    OBVIOUS
  <2>1. \A k \in Keys : Stocked(k) = {} /\ Expired(k) = {}
    BY DEF Init, Stocked, Expired, Procs
  <2>2. IsFiniteSet({}) /\ Cardinality({}) = 0
    BY FS_EmptySet
  <2>3. \A g \in Gor : gpc[g] = "none"
    BY DEF Init
  <2> QED BY <2>1, <2>2, <2>3, SizeAssumption DEF Budget
<1>2. IInv /\ RouteShape /\ Budget /\ [Next]_vars => Budget'
  BY BudgetStep
<1>3. IInv /\ RouteShape /\ Budget => FDBound
  BY BudgetBound
<1> QED BY <1>1, <1>2, <1>3, Invariant, RoutesKept, PTL DEF Spec

-----------------------------------------------------------------------------
(* The pool implements ConnPool *)

\* The instance counts with the same operator.
LEMMA SameCardinality == \A S : Pool!Cardinality(S) = Cardinality(S)
BY DEF Pool!Cardinality, Cardinality

\* What a client holds, seen from ConnPool, changes with its hand only.
LEMMA LentStep ==
    ASSUME NEW x \in Clients, hand'[x] = hand[x], want'[x] = want[x] \/ hand[x] = {}
    PROVE  Lent'[x] = Lent[x]
BY DEF Lent

\* Every step of the pool is one of ConnPool, or invisible.
LEMMA RefinesStep ==
    ASSUME IInv, [Next]_vars
    PROVE  [Pool!Next]_(Pool!vars)
<1>1. Clients \subseteq Procs /\ Gor \subseteq Procs
  BY DEF Procs
<1>2. /\ Lent = [x \in Clients |-> Lent[x]]
      /\ Lent' = [x \in Clients |-> Lent'[x]]
  BY DEF Lent
<1>3. ASSUME \A x \in Clients : Lent'[x] = Lent[x] PROVE Lent' = Lent
  BY <1>2, <1>3
<1>4. CASE UNCHANGED vars
  <2>1. Lent' = Lent
    BY <1>3, <1>4, LentStep DEF vars, locals, cvars
  <2> QED BY <1>4, <2>1 DEF vars, shared, Pool!vars
<1>5. CASE Internal
  <2>1. Lent' = Lent
    BY <1>3, <1>5, LentStep DEF Internal
  <2> QED BY <1>5, <2>1 DEF Internal, Pool!vars
<1>6. ASSUME NEW x \in Clients, GetPop(x) PROVE Pool!Next
  <2>1. PICK k \in Keys : k = poolKey(x)
    BY <1>6 DEF GetPop, poolKey, IInv, TypeOK, ControlType, WantShape
  <2>2. PICK c \in idle[k] : idle' = [idle EXCEPT ![k] = @ \ {c}] /\ Take(x, {c})
    BY <1>6, <2>1 DEF GetPop
  <2>3. c \in Conns /\ want' = want /\ ~closed /\ closed' = closed /\ cpc[x] = "get"
    BY <1>6, <2>2 DEF GetPop, IInv, TypeOK, PoolType
  <2>4. \A p \in Procs : hand'[p] = IF p = x THEN {c} ELSE hand[p]
    BY <1>1, <2>2 DEF Take, IInv, TypeOK, ConnType
  <2>5. hand[x] = {} /\ Head(want[x]) = k
    BY <2>1, <2>3 DEF IInv, HandShape, poolKey
  <2>6. Lent[x] = {} /\ Lent'[x] = {<<k, c>>}
    BY <1>1, <2>3, <2>4, <2>5 DEF Lent
  <2>7. \A y \in Clients : y # x => Lent'[y] = Lent[y]
    BY <1>1, <2>3, <2>4, LentStep
  <2>8. Lent' = [Lent EXCEPT ![x] = {<<k, c>>}]
    BY <1>2, <2>6, <2>7
  <2>9. Pool!Lend(x, k, c)
    BY <2>2, <2>3, <2>6, <2>8 DEF Pool!Lend
  <2> QED BY <2>3, <2>9 DEF Pool!Next
<1>7. ASSUME NEW x \in Clients, GetStale(x) \/ Release(x) PROVE Pool!Next
  <2>1. /\ UNCHANGED <<idle, closed>>
        /\ cpc[x] \in {"check", "using"}
        /\ \A p \in Procs : hand'[p] = IF p = x THEN {} ELSE hand[p]
        /\ \A y \in Clients : y # x => want'[y] = want[y]
    BY <1>1, <1>7 DEF GetStale, Release, Take, shared, IInv, TypeOK, ConnType, ControlType
  <2>2. PICK c \in Conns : hand[x] = {c}
    BY <2>1 DEF IInv, HandShape
  <2>3. Lent[x] # {} /\ Lent'[x] = {}
    BY <1>1, <2>1, <2>2 DEF Lent
  <2>4. \A y \in Clients : y # x => Lent'[y] = Lent[y]
    BY <1>1, <2>1, LentStep
  <2>5. Lent' = [Lent EXCEPT ![x] = {}]
    BY <1>2, <2>3, <2>4
  <2> QED BY <2>1, <2>3, <2>5 DEF Pool!Next, Pool!GiveUp
<1>8. ASSUME NEW g \in Gor, RefillPut(g), ~closed PROVE Pool!Next
  <2>1. g \notin Clients /\ g[1] \in Keys
    BY ProcsAssumption DEF Gor
  <2>2. PICK c \in Conns : hand[g] = {c}
    BY <1>8 DEF RefillPut, IInv, HandShape
  <2>3. /\ idle' = [idle EXCEPT ![g[1]] = @ \cup {c}]
        /\ hand' = [hand EXCEPT ![g] = {}]
        /\ want' = want /\ closed' = closed
    BY <1>8, <2>2 DEF RefillPut, StillOpen, AddToBucket, Take, cvars
  <2>4. \A x \in Clients : hand'[x] = hand[x]
    BY <1>1, <2>1, <2>3 DEF IInv, TypeOK, ConnType
  <2>5. Lent' = Lent
    BY <1>3, <2>3, <2>4, LentStep
  <2>6. Pool!Cardinality(idle[g[1]]) < PoolSize
    BY <1>8, SameCardinality DEF RefillPut, IInv, Room
  <2>7. \A k \in Keys : c \notin idle[k]
    BY <1>1, <2>2 DEF IInv, Exclusive
  <2>8. \A x \in Clients : c \notin hand[x]
    BY <1>1, <2>1, <2>2 DEF IInv, Exclusive
  <2>9. c \notin Pool!InUse
    <3>1. c \notin UNION {idle[k] : k \in Keys}
      BY <2>7
    <3>2. \A x \in Clients : \A p \in Lent[x] : p[2] # c
      BY <2>8 DEF Lent
    <3>3. \A p \in UNION {Lent[x] : x \in Clients} : p[2] # c
      BY <3>2
    <3>4. c \notin {p[2] : p \in UNION {Lent[x] : x \in Clients}}
      BY <3>3
    <3> QED BY <3>1, <3>4 DEF Pool!InUse
  <2>10. Pool!Fill(g[1], c)
    BY <1>8, <2>3, <2>5, <2>6, <2>9 DEF Pool!Fill
  <2> QED BY <2>1, <2>10 DEF Pool!Next
<1>9. ASSUME RotateLocked \/ CloseLocked PROVE Pool!Next
  <2>1. want' = want /\ (\E S : Take(Rotator, S) \/ Take(Closer, S))
    BY <1>9 DEF RotateLocked, CloseLocked, cvars
  <2>2. \A x \in Clients : hand'[x] = hand[x]
    BY <1>1, <2>1, ProcsAssumption DEF Take, IInv, TypeOK, ConnType
  <2>3. Lent' = Lent
    BY <1>3, <2>1, <2>2, LentStep
  <2>4. CASE RotateLocked
    <3>1. DOMAIN idle' = Keys /\ \A k \in Keys : idle'[k] \subseteq idle[k]
      BY <2>4 DEF RotateLocked
    <3>2. closed' = closed
      BY <2>4 DEF RotateLocked
    <3> QED BY <2>3, <3>1, <3>2 DEF Pool!Next, Pool!Discard
  <2>5. CASE CloseLocked
    <3>1. ~closed /\ closed' = TRUE /\ idle' = [k \in Keys |-> {}]
      BY <2>5 DEF CloseLocked, FreshMap, IInv, ClosedShape
    <3> QED BY <2>3, <3>1 DEF Pool!Next, Pool!Shutdown
  <2> QED BY <1>9, <2>4, <2>5
<1> QED BY <1>4, <1>5, <1>6, <1>7, <1>8, <1>9, Visible

\* The pool implements ConnPool: seen from its clients each of its operations
\* is one atomic step, or none.
THEOREM ImplementsContract == Spec => ImplementsConnPool
<1>1. Init => Pool!Init
  BY DEF Init, Pool!Init, Lent, Procs
<1>2. IInv /\ [Next]_vars => [Pool!Next]_(Pool!vars)
  BY RefinesStep
<1> QED BY <1>1, <1>2, Invariant, PTL DEF Spec, ImplementsConnPool, Pool!Spec
=============================================================================
