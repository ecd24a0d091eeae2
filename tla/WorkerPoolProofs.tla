-------------------------- MODULE WorkerPoolProofs --------------------------
(***************************************************************************)
(* Proofs about workerPool for any number of keys, connections and         *)
(* sessions.                                                               *)
(***************************************************************************)
EXTENDS WorkerPool, FiniteSetTheorems, TLAPS

\* The steps of a goroutine that has not yet given back the p.refilling mark.
Busy == {"next", "dial", "dialled", "put"}

\* A place for at most one connection.
Single(S) == S = {} \/ \E c \in Conns : S = {c}

PoolType == /\ cancelled \in BOOLEAN /\ closed \in BOOLEAN /\ warmed \in BOOLEAN
            /\ idle \in [Keys -> SUBSET Conns]
            /\ refilling \subseteq Keys

ConnType == /\ open \subseteq Conns
            /\ hand \in [Procs -> SUBSET Conns]
            /\ aged \subseteq open

ControlType == /\ gpc \in [Gor -> Busy \cup {"none", "drop"}]
               /\ cpc \in [Clients -> {"idle", "check", "init", "pooled", "next",
                                       "dial", "write", "restock", "own"}]
               /\ key \in [Clients -> Keys \cup {NoKey}]
               /\ zpc \in {"open", "closing", "done"}

\* A session in cfWorkerFallback has a key.
KeyShape == \A x \in Clients : cpc[x] # "idle" => key[x] \in Keys

\* What a process holds follows from where it is in its code.
HandShape == /\ \A k \in Keys : Single(idle[k])
             /\ \A p \in Clients \cup Gor : Single(hand[p])
             /\ \A g \in Gor : gpc[g] \in {"none", "next", "dial"} => hand[g] = {}
             /\ \A x \in Clients : cpc[x] \in {"idle", "next", "dial"} => hand[x] = {}
             /\ zpc # "closing" => hand[Closer] = {}

\* p.closed is Close's doing; a closed pool has nothing idle, and no goroutine
\* once Close has returned.
ClosedShape == /\ closed <=> zpc # "open"
               /\ closed => \A k \in Keys : idle[k] = {}
               /\ zpc = "done" => AllDone

\* The mark: a goroutine that may still fill p.idle has it, alone, and the
\* place it would fill is free.
Marked == /\ \A k \in refilling : idle[k] = {}
          /\ \A g \in Gor : gpc[g] \in Busy => g[1] \in refilling
          /\ \A g, h \in Gor : gpc[g] \in Busy /\ gpc[h] \in Busy /\ g[1] = h[1] => g = h

\* The inductive invariant.
IInv == /\ PoolType /\ ConnType /\ ControlType /\ KeyShape
        /\ HandShape /\ ClosedShape /\ Marked /\ Exclusive /\ NoLeak

-----------------------------------------------------------------------------
(* Operators *)

LEMMA ProcsFacts ==
    /\ Clients \subseteq Procs /\ Gor \subseteq Procs /\ Closer \in Procs
    /\ \A x \in Clients : x # Closer /\ x \notin Gor
    /\ \A g \in Gor : g # Closer /\ g[1] \in Keys /\ g = <<g[1], g[2]>>
BY WorkerAssumption DEF Procs, Gor

\* What scheduleRefill changes: it adds goroutines, for keys that had neither a
\* mark nor an idle connection, and marks these.
LEMMA ScheduleFacts ==
    ASSUME IInv, NEW S \in SUBSET Keys, NEW q \in [Keys -> SUBSET Conns], Schedule(S, q),
           \A k \in Keys : q[k] \subseteq idle[k], idle' = q
    PROVE  /\ refilling' \in SUBSET Keys
           /\ gpc' \in [Gor -> Busy \cup {"none", "drop"}]
           /\ \A g \in Gor : gpc'[g] = gpc[g] \/ (gpc[g] = "none" /\ gpc'[g] = "next")
           /\ closed => gpc' = gpc
           /\ Marked'
<1> DEFINE start == {k \in S : MayRefill(k, q)}
<1>1. PICK s \in [start -> Slots] :
        /\ \A k \in start : gpc[<<k, s[k]>>] = "none"
        /\ gpc' = [g \in Gor |-> IF g[1] \in start /\ g[2] = s[g[1]] THEN "next" ELSE gpc[g]]
  BY DEF Schedule
<1>2. refilling' = refilling \cup start
  BY DEF Schedule
<1>3. \A k \in start : k \in Keys /\ k \notin refilling /\ q[k] = {} /\ ~closed
  BY DEF MayRefill
<1> HIDE DEF start
<1>4. \A g \in Gor : g = <<g[1], g[2]>> /\ g[1] \in Keys
  BY ProcsFacts
<1>5. gpc' \in [Gor -> Busy \cup {"none", "drop"}]
  BY <1>1 DEF IInv, ControlType, Busy
<1>6. \A g \in Gor : gpc'[g] = gpc[g] \/ (gpc[g] = "none" /\ gpc'[g] = "next" /\ g[1] \in start)
  BY <1>1, <1>4
<1>7. closed => gpc' = gpc
  BY <1>1, <1>3 DEF IInv, ControlType
<1>8. \A k \in refilling' : idle'[k] = {}
  BY <1>2, <1>3 DEF IInv, Marked, PoolType
<1>9. \A g \in Gor : gpc'[g] \in Busy => g[1] \in refilling'
  BY <1>2, <1>6 DEF IInv, Marked
<1>10. \A g, h \in Gor : gpc'[g] \in Busy /\ gpc'[h] \in Busy /\ g[1] = h[1] => g = h
  BY <1>1, <1>3, <1>4 DEF IInv, Marked
<1> QED BY <1>2, <1>3, <1>5, <1>6, <1>7, <1>8, <1>9, <1>10 DEF Marked, IInv, PoolType

\* A process closes some of the connections it holds.
LEMMA ShutFacts ==
    ASSUME IInv, NEW p \in Procs, NEW S \in SUBSET hand[p], Shut(p, S), idle' = idle
    PROVE  /\ ConnType' /\ Exclusive' /\ NoLeak'
           /\ \A q \in Procs : hand'[q] = IF q = p THEN hand[p] \ S ELSE hand[q]
<1> USE DEF IInv
<1>1. \A q \in Procs : hand'[q] = IF q = p THEN hand[p] \ S ELSE hand[q]
  BY DEF Shut, ConnType
<1>2. ConnType'
  BY DEF Shut, ConnType
<1>3. Exclusive'
  BY <1>1 DEF Exclusive
<1>4. NoLeak'
  <2> SUFFICES ASSUME NEW c \in Conns PROVE c \in open' <=> Owned(c)'
    BY DEF NoLeak
  <2>1. CASE c \in S
    BY <2>1, <1>1 DEF Shut, Exclusive, Owned
  <2>2. CASE c \notin S
    BY <2>2, <1>1 DEF Shut, NoLeak, Owned
  <2> QED BY <2>1, <2>2
<1> QED BY <1>1, <1>2, <1>3, <1>4

\* A process that holds nothing gets a new connection from a dial.
LEMMA OpenFacts ==
    ASSUME IInv, NEW p \in Procs, hand[p] = {}, NEW c \in Conns \ open, Open(p, c), idle' = idle
    PROVE  /\ ConnType' /\ Exclusive' /\ NoLeak'
           /\ \A q \in Procs : hand'[q] = IF q = p THEN {c} ELSE hand[q]
<1> USE DEF IInv
<1>1. \A q \in Procs : hand'[q] = IF q = p THEN {c} ELSE hand[q]
  BY DEF Open, ConnType
<1>2. ConnType'
  BY DEF Open, ConnType
<1>3. ~Owned(c)
  BY DEF NoLeak
<1>4. Exclusive'
  BY <1>1, <1>3 DEF Exclusive, Owned
<1>5. NoLeak'
  <2> SUFFICES ASSUME NEW d \in Conns PROVE d \in open' <=> Owned(d)'
    BY DEF NoLeak
  <2>1. CASE d = c
    BY <2>1, <1>1 DEF Open, Owned
  <2>2. CASE d # c
    BY <2>2, <1>1 DEF Open, NoLeak, Owned
  <2> QED BY <2>1, <2>2
<1> QED BY <1>1, <1>2, <1>4, <1>5

\* The conjuncts a step leaves alone.
LEMMA Frame ==
    ASSUME IInv
    PROVE  /\ UNCHANGED <<shared, pool>> => PoolType'
           /\ UNCHANGED conns => ConnType'
           /\ UNCHANGED <<idle, conns>> => Exclusive' /\ NoLeak'
           /\ UNCHANGED <<closed, idle, zpc, gpc>> => ClosedShape'
           /\ UNCHANGED <<pool, gpc>> => Marked'
           /\ UNCHANGED <<cpc, key>> => KeyShape'
<1> USE DEF IInv
<1>1. UNCHANGED <<shared, pool>> => PoolType'
  BY DEF shared, pool, PoolType
<1>2. UNCHANGED conns => ConnType'
  BY DEF conns, ConnType
<1>3. UNCHANGED <<idle, conns>> => Exclusive' /\ NoLeak'
  BY DEF conns, Exclusive, NoLeak, Owned
<1>4. UNCHANGED <<closed, idle, zpc, gpc>> => ClosedShape'
  BY DEF ClosedShape, AllDone
<1>5. UNCHANGED <<pool, gpc>> => Marked'
  BY DEF pool, Marked
<1>6. UNCHANGED <<cpc, key>> => KeyShape'
  BY DEF KeyShape
<1> QED BY <1>1, <1>2, <1>3, <1>4, <1>5, <1>6

-----------------------------------------------------------------------------
(* Sessions *)

\* A session goes to step l and then holds H; nothing else moves.
LEMMA SessionMoves ==
    ASSUME IInv, NEW x \in Clients, NEW v \in Keys \cup {NoKey}, NEW H,
           NEW l \in {"idle", "check", "init", "pooled", "next", "dial", "write", "restock", "own"},
           cpc' = [cpc EXCEPT ![x] = l], key' = [key EXCEPT ![x] = v],
           l = "idle" \/ v \in Keys,
           UNCHANGED <<shared, pool, gpc, zpc>>,
           ConnType', Exclusive', NoLeak',
           \A p \in Procs : hand'[p] = IF p = x THEN H ELSE hand[p],
           Single(H), l \in {"idle", "next", "dial"} => H = {}
    PROVE  IInv'
<1> USE DEF IInv
<1>1. ControlType' /\ KeyShape'
  BY DEF ControlType, KeyShape
<1>2. HandShape'
  <2>1. \A k \in Keys : Single(idle'[k])
    BY DEF HandShape, pool
  <2>2. \A p \in Clients \cup Gor : Single(hand'[p])
    BY ProcsFacts DEF HandShape
  <2>3. \A g \in Gor : gpc'[g] \in {"none", "next", "dial"} => hand'[g] = {}
    BY ProcsFacts DEF HandShape
  <2>4. \A y \in Clients : cpc'[y] \in {"idle", "next", "dial"} => hand'[y] = {}
    BY ProcsFacts DEF HandShape, ControlType
  <2>5. zpc' # "closing" => hand'[Closer] = {}
    BY ProcsFacts DEF HandShape
  <2> QED BY <2>1, <2>2, <2>3, <2>4, <2>5 DEF HandShape, Single
<1> QED BY <1>1, <1>2, Frame DEF shared, pool

\* The session only moves on.
LEMMA SessionQuiet ==
    ASSUME IInv, NEW x \in Clients, cpc[x] # "idle",
           NEW l \in {"check", "init", "pooled", "next", "dial", "write", "restock", "own"},
           Goto(x, l), UNCHANGED <<shared, pool, conns, gpc, key, zpc>>,
           l \in {"next", "dial"} => hand[x] = {}
    PROVE  IInv'
<1>1. ConnType' /\ Exclusive' /\ NoLeak'
  BY Frame DEF pool
<1>2. key' = [key EXCEPT ![x] = key[x]] /\ key[x] \in Keys
  BY DEF IInv, ControlType, KeyShape
<1>3. (\A p \in Procs : hand'[p] = IF p = x THEN hand[x] ELSE hand[p]) /\ Single(hand[x])
  BY DEF IInv, HandShape, conns
<1>4. cpc' = [cpc EXCEPT ![x] = l]
  BY DEF Goto
<1>5. UNCHANGED <<shared, pool, gpc, zpc>>
  OBVIOUS
<1> QED BY <1>1, <1>2, <1>3, <1>4, <1>5, SessionMoves

\* The session closes its connection and goes on to l, with key v.
LEMMA SessionCloses ==
    ASSUME IInv, NEW x \in Clients, NEW l \in {"idle", "next"}, NEW v \in Keys \cup {NoKey},
           Goto(x, l), key' = [key EXCEPT ![x] = v], l = "idle" \/ v \in Keys,
           Shut(x, hand[x]), UNCHANGED <<shared, pool, gpc, zpc>>
    PROVE  IInv'
<1>1. /\ ConnType' /\ Exclusive' /\ NoLeak'
      /\ \A p \in Procs : hand'[p] = IF p = x THEN {} ELSE hand[p]
  <2>1. x \in Procs /\ hand[x] \in SUBSET hand[x] /\ idle' = idle
    BY ProcsFacts DEF pool
  <2>2. /\ ConnType' /\ Exclusive' /\ NoLeak'
        /\ \A p \in Procs : hand'[p] = IF p = x THEN hand[x] \ hand[x] ELSE hand[p]
    BY <2>1, ShutFacts
  <2> QED BY <2>2
<1>2. cpc' = [cpc EXCEPT ![x] = l] /\ Single({})
  BY DEF Goto, Single
<1>3. UNCHANGED <<shared, pool, gpc, zpc>>
  OBVIOUS
<1> QED BY <1>1, <1>2, <1>3, SessionMoves

LEMMA GetInv ==
    ASSUME IInv, NEW x \in Clients, NEW k \in Keys, Get(x, k)
    PROVE  IInv'
<1> USE DEF IInv
<1>1. CASE closed \/ ~Enabled \/ idle[k] = {}
  <2>1. /\ cpc' = [cpc EXCEPT ![x] = "next"] /\ key' = [key EXCEPT ![x] = k]
        /\ UNCHANGED <<shared, pool, gpc, zpc>> /\ UNCHANGED conns /\ idle' = idle
    BY <1>1 DEF Get, Goto, pool, conns
  <2>2. ConnType' /\ Exclusive' /\ NoLeak'
    BY <2>1, Frame
  <2>3. hand[x] = {} /\ \A p \in Procs : hand'[p] = IF p = x THEN {} ELSE hand[p]
    BY <2>1 DEF Get, HandShape, conns
  <2>4. Single({})
    BY DEF Single
  <2> QED BY <2>1, <2>2, <2>3, <2>4, SessionMoves
<1>2. CASE ~(closed \/ ~Enabled \/ idle[k] = {})
  <2> DEFINE q == [idle EXCEPT ![k] = {}]
  <2>1. /\ idle' = q /\ hand' = [hand EXCEPT ![x] = idle[k]] /\ Schedule({k}, q)
        /\ cpc' = [cpc EXCEPT ![x] = "check"] /\ key' = [key EXCEPT ![x] = k]
        /\ UNCHANGED <<shared, open, aged, zpc>>
    BY <1>2 DEF Get, Goto
  <2>2. /\ q \in [Keys -> SUBSET Conns]
        /\ \A j \in Keys : q[j] = IF j = k THEN {} ELSE idle[j]
    BY DEF PoolType
  <2> HIDE DEF q
  <2>3. /\ refilling' \in SUBSET Keys
        /\ gpc' \in [Gor -> Busy \cup {"none", "drop"}]
        /\ \A g \in Gor : gpc'[g] = gpc[g] \/ (gpc[g] = "none" /\ gpc'[g] = "next")
        /\ Marked'
    <3>1. {k} \in SUBSET Keys /\ \A j \in Keys : q[j] \subseteq idle[j]
      BY <2>2
    <3> QED BY <2>1, <2>2, <3>1, ScheduleFacts
  <2>4. hand[x] = {} /\ idle[k] \subseteq Conns /\ x \in Procs
    BY ProcsFacts DEF Get, HandShape, PoolType
  <2>5. \A p \in Procs : hand'[p] = IF p = x THEN idle[k] ELSE hand[p]
    BY <2>1 DEF ConnType
  <2>6. PoolType' /\ ConnType'
    BY <2>1, <2>2, <2>3, <2>4 DEF PoolType, ConnType, shared
  <2>7. ControlType' /\ KeyShape'
    BY <2>1, <2>3 DEF ControlType, KeyShape
  <2>8. HandShape'
    <3>1. \A j \in Keys : Single(idle'[j])
      BY <2>1, <2>2 DEF HandShape, Single
    <3>2. \A p \in Clients \cup Gor : Single(hand'[p])
      BY <2>5, ProcsFacts DEF HandShape
    <3>3. \A g \in Gor : gpc'[g] \in {"none", "next", "dial"} => hand'[g] = {}
      BY <2>3, <2>5, ProcsFacts DEF HandShape
    <3>4. \A y \in Clients : cpc'[y] \in {"idle", "next", "dial"} => hand'[y] = {}
      BY <2>1, <2>5, ProcsFacts DEF HandShape, ControlType
    <3>5. zpc' # "closing" => hand'[Closer] = {}
      BY <2>1, <2>5, ProcsFacts DEF HandShape
    <3> QED BY <3>1, <3>2, <3>3, <3>4, <3>5 DEF HandShape, Single
  <2>9. ClosedShape'
    BY <1>2, <2>1 DEF ClosedShape, AllDone, shared
  <2>10. Exclusive'
    BY <2>1, <2>2, <2>4, <2>5 DEF Exclusive
  <2>11. NoLeak'
    <3> SUFFICES ASSUME NEW c \in Conns PROVE c \in open <=> Owned(c)'
      BY <2>1 DEF NoLeak
    <3>1. CASE c \in idle[k]
      BY <2>4, <2>5, <3>1 DEF NoLeak, Owned
    <3>2. CASE c \notin idle[k]
      BY <2>1, <2>2, <2>4, <2>5, <3>2 DEF NoLeak, Owned
    <3> QED BY <3>1, <3>2
  <2> QED BY <2>3, <2>6, <2>7, <2>8, <2>9, <2>10, <2>11
<1> QED BY <1>1, <1>2

\* workers.refill: a goroutine may start.
LEMMA ScheduleOnly ==
    ASSUME IInv, NEW S \in SUBSET Keys, Schedule(S, idle),
           UNCHANGED <<cancelled, closed, idle, conns, key, zpc>>, warmed' \in BOOLEAN,
           cpc' \in [Clients -> {"idle", "check", "init", "pooled", "next",
                                 "dial", "write", "restock", "own"}],
           \A x \in Clients : cpc'[x] = cpc[x] \/ (cpc[x] = "restock" /\ cpc'[x] = "own")
    PROVE  IInv'
<1> USE DEF IInv
<1>1. /\ refilling' \in SUBSET Keys
      /\ gpc' \in [Gor -> Busy \cup {"none", "drop"}]
      /\ \A g \in Gor : gpc'[g] = gpc[g] \/ (gpc[g] = "none" /\ gpc'[g] = "next")
      /\ closed => gpc' = gpc
      /\ Marked'
  <2>1. idle \in [Keys -> SUBSET Conns] /\ idle' = idle /\ \A k \in Keys : idle[k] \subseteq idle[k]
    BY DEF PoolType
  <2> QED BY <2>1, ScheduleFacts
<1>2. PoolType' /\ ControlType' /\ KeyShape'
  BY <1>1 DEF PoolType, ControlType, KeyShape
<1>3. HandShape'
  BY <1>1 DEF HandShape, conns, Single
<1>4. ClosedShape'
  BY <1>1 DEF ClosedShape, AllDone
<1>5. ConnType' /\ Exclusive' /\ NoLeak'
  BY Frame
<1> QED BY <1>1, <1>2, <1>3, <1>4, <1>5

LEMMA SessionInv ==
    ASSUME IInv, NEW x \in Clients, Session(x)
    PROVE  IInv'
<1> USE DEF IInv
<1>1. x \in Procs
  BY ProcsFacts
<1>2. ASSUME cpc[x] # "idle" PROVE key[x] \in Keys /\ [key EXCEPT ![x] = key[x]] = key
  BY <1>2 DEF KeyShape, ControlType
<1>3. CASE GetCheck(x)
  <2>1. CASE hand[x] \cap aged = {}
    BY <1>3, <2>1, SessionQuiet DEF GetCheck
  <2>2. CASE hand[x] \cap aged # {}
    BY <1>2, <1>3, <2>2, SessionCloses DEF GetCheck
  <2> QED BY <2>1, <2>2
<1>4. CASE InitOk(x)
  BY <1>4, SessionQuiet DEF InitOk
<1>5. CASE InitFail(x)
  BY <1>2, <1>5, SessionCloses DEF InitFail
<1>6. CASE ConnectNext(x)
  BY <1>6, SessionQuiet DEF ConnectNext, HandShape
<1>7. CASE ConnectError(x)
  <2>1. ConnType' /\ Exclusive' /\ NoLeak' /\ Single({})
    BY <1>7, Frame DEF ConnectError, pool, Single
  <2>2. hand[x] = {} /\ \A p \in Procs : hand'[p] = IF p = x THEN {} ELSE hand[p]
    BY <1>7 DEF ConnectError, HandShape, conns
  <2> QED BY <1>7, <2>1, <2>2, SessionMoves DEF ConnectError, Goto
<1>8. CASE ConnectDial(x)
  <2>1. hand[x] = {} /\ cpc[x] = "dial"
    BY <1>8 DEF ConnectDial, HandShape
  <2>2. CASE UNCHANGED conns /\ Goto(x, "next")
    BY <1>8, <2>1, <2>2, SessionQuiet DEF ConnectDial
  <2>3. CASE \E c \in Conns \ open : Open(x, c) /\ Goto(x, "write")
    <3>1. PICK c \in Conns \ open : Open(x, c) /\ Goto(x, "write")
      BY <2>3
    <3>2. UNCHANGED <<shared, pool, gpc, zpc>> /\ idle' = idle /\ key' = key
      BY <1>8 DEF ConnectDial, pool
    <3>3. /\ ConnType' /\ Exclusive' /\ NoLeak'
          /\ \A p \in Procs : hand'[p] = IF p = x THEN {c} ELSE hand[p]
      BY <1>1, <2>1, <3>1, <3>2, OpenFacts
    <3>4. Single({c})
      BY DEF Single
    <3> QED BY <1>2, <2>1, <3>1, <3>2, <3>3, <3>4, SessionMoves DEF Goto
  <2> QED BY <1>8, <2>2, <2>3 DEF ConnectDial
<1>9. CASE ConnectWrite(x)
  <2>1. CASE Goto(x, "restock") /\ UNCHANGED conns
    BY <1>9, <2>1, SessionQuiet DEF ConnectWrite
  <2>2. CASE Goto(x, "next") /\ Shut(x, hand[x])
    BY <1>2, <1>9, <2>2, SessionCloses DEF ConnectWrite
  <2> QED BY <1>9, <2>1, <2>2 DEF ConnectWrite
<1>10. CASE Restock(x)
  <2>1. {key[x]} \in SUBSET Keys
    BY <1>2, <1>10 DEF Restock
  <2>2. cpc' \in [Clients -> {"idle", "check", "init", "pooled", "next",
                              "dial", "write", "restock", "own"}]
    BY <1>10 DEF Restock, Goto, ControlType
  <2>3. \A y \in Clients : cpc'[y] = cpc[y] \/ (cpc[y] = "restock" /\ cpc'[y] = "own")
    BY <1>10 DEF Restock, Goto, ControlType
  <2>4. warmed' \in BOOLEAN /\ UNCHANGED <<cancelled, closed, idle, conns, key, zpc>>
        /\ Schedule({key[x]}, idle)
    BY <1>10 DEF Restock, shared, PoolType
  <2> QED BY <2>1, <2>2, <2>3, <2>4, ScheduleOnly
<1>11. CASE Release(x)
  BY <1>11, SessionCloses DEF Release
<1> QED BY <1>3, <1>4, <1>5, <1>6, <1>7, <1>8, <1>9, <1>10, <1>11, GetInv DEF Session

-----------------------------------------------------------------------------
(* Goroutines, warmup and Close *)

\* A goroutine goes to step l and then holds H; p.idle and the marks stay.
LEMMA GorMoves ==
    ASSUME IInv, NEW g \in Gor, gpc[g] # "none", NEW l \in Busy \cup {"none", "drop"}, NEW H,
           Step(g, l), l \in Busy => gpc[g] \in Busy,
           UNCHANGED <<shared, pool, cpc, key, zpc>>,
           ConnType', Exclusive', NoLeak',
           \A p \in Procs : hand'[p] = IF p = g THEN H ELSE hand[p],
           Single(H), l \in {"none", "next", "dial"} => H = {}
    PROVE  IInv'
<1> USE DEF IInv
<1>1. \A h \in Gor : gpc'[h] = IF h = g THEN l ELSE gpc[h]
  BY DEF Step, ControlType
<1>2. ControlType'
  BY DEF Step, ControlType
<1>3. HandShape'
  <2>1. \A k \in Keys : Single(idle'[k])
    BY DEF HandShape, pool
  <2>2. \A p \in Clients \cup Gor : Single(hand'[p])
    BY ProcsFacts DEF HandShape
  <2>3. \A h \in Gor : gpc'[h] \in {"none", "next", "dial"} => hand'[h] = {}
    BY <1>1, ProcsFacts DEF HandShape
  <2>4. \A y \in Clients : cpc'[y] \in {"idle", "next", "dial"} => hand'[y] = {}
    BY ProcsFacts DEF HandShape
  <2>5. zpc' # "closing" => hand'[Closer] = {}
    BY ProcsFacts DEF HandShape
  <2> QED BY <2>1, <2>2, <2>3, <2>4, <2>5 DEF HandShape, Single
<1>4. ClosedShape'
  BY <1>1 DEF ClosedShape, AllDone, shared, pool
<1>5. Marked'
  BY <1>1 DEF Marked, pool
<1> QED BY <1>2, <1>3, <1>4, <1>5, Frame

\* The goroutine only moves on.
LEMMA GorQuiet ==
    ASSUME IInv, NEW g \in Gor, gpc[g] \in Busy, NEW l \in {"next", "dial", "put"}, Step(g, l),
           UNCHANGED <<shared, pool, conns, cpc, key, zpc>>,
           l \in {"next", "dial"} => hand[g] = {}
    PROVE  IInv'
<1>1. ConnType' /\ Exclusive' /\ NoLeak'
  BY Frame DEF pool
<1>2. (\A p \in Procs : hand'[p] = IF p = g THEN hand[g] ELSE hand[p]) /\ Single(hand[g])
  BY DEF IInv, HandShape, conns
<1>3. gpc[g] # "none" /\ l \in Busy /\ UNCHANGED <<shared, pool, cpc, key, zpc>>
  BY DEF Busy
<1> QED BY <1>1, <1>2, <1>3, GorMoves

\* The goroutine closes what it holds.
LEMMA GorCloses ==
    ASSUME IInv, NEW g \in Gor, gpc[g] # "none", NEW l \in {"none", "next"}, Step(g, l),
           l = "next" => gpc[g] \in Busy, Shut(g, hand[g]),
           UNCHANGED <<shared, pool, cpc, key, zpc>>
    PROVE  IInv'
<1>1. g \in Procs /\ hand[g] \in SUBSET hand[g] /\ idle' = idle
  BY ProcsFacts DEF pool
<1>2. /\ ConnType' /\ Exclusive' /\ NoLeak'
      /\ \A p \in Procs : hand'[p] = IF p = g THEN hand[g] \ hand[g] ELSE hand[p]
  BY <1>1, ShutFacts
<1>3. \A p \in Procs : hand'[p] = IF p = g THEN {} ELSE hand[p]
  BY <1>2
<1>4. Single({}) /\ l \in Busy \cup {"none", "drop"} /\ (l \in Busy => gpc[g] \in Busy)
  BY DEF Single, Busy
<1> QED BY <1>2, <1>3, <1>4, GorMoves

\* The goroutine's critical section: the mark goes and the connection, if it is
\* kept, takes the free place.
LEMMA RefillPutInv ==
    ASSUME IInv, NEW g \in Gor, RefillPut(g)
    PROVE  IInv'
<1> USE DEF IInv
<1>1. /\ gpc' = [gpc EXCEPT ![g] = "drop"] /\ gpc[g] = "put" /\ refilling' = refilling \ {g[1]}
      /\ UNCHANGED <<shared, open, aged, cpc, key, zpc>>
  BY DEF RefillPut, Step
<1>2. \A h \in Gor : gpc'[h] = IF h = g THEN "drop" ELSE gpc[h]
  BY <1>1 DEF ControlType
<1>3. ControlType' /\ KeyShape'
  BY <1>1 DEF ControlType, KeyShape
<1>4. g[1] \in Keys /\ g[1] \in refilling /\ idle[g[1]] = {} /\ g \in Procs
  BY <1>1, ProcsFacts DEF Marked, Busy
<1>5. \A h \in Gor : gpc'[h] \in Busy => gpc[h] \in Busy /\ h[1] \in refilling'
  BY <1>1, <1>2 DEF Marked, Busy
<1>6. CASE Keepable(g)
  <2>1. /\ idle' = [idle EXCEPT ![g[1]] = hand[g]]
        /\ hand' = [hand EXCEPT ![g] = {}]
    BY <1>6 DEF RefillPut
  <2>2. hand[g] \subseteq Conns
    BY <1>4 DEF ConnType
  <2>3. /\ \A k \in Keys : idle'[k] = IF k = g[1] THEN hand[g] ELSE idle[k]
        /\ \A p \in Procs : hand'[p] = IF p = g THEN {} ELSE hand[p]
    BY <2>1 DEF PoolType, ConnType
  <2>4. PoolType' /\ ConnType'
    BY <1>1, <2>1, <2>2 DEF PoolType, ConnType, shared
  <2>5. HandShape'
    <3>1. \A k \in Keys : Single(idle'[k])
      BY <2>3 DEF HandShape
    <3>2. \A p \in Clients \cup Gor : Single(hand'[p])
      BY <2>3, ProcsFacts DEF HandShape, Single
    <3>3. \A h \in Gor : gpc'[h] \in {"none", "next", "dial"} => hand'[h] = {}
      BY <1>2, <2>3, ProcsFacts DEF HandShape
    <3>4. \A y \in Clients : cpc'[y] \in {"idle", "next", "dial"} => hand'[y] = {}
      BY <1>1, <2>3, ProcsFacts DEF HandShape
    <3>5. zpc' # "closing" => hand'[Closer] = {}
      BY <1>1, <2>3, ProcsFacts DEF HandShape
    <3> QED BY <3>1, <3>2, <3>3, <3>4, <3>5 DEF HandShape, Single
  <2>6. ClosedShape'
    BY <1>1, <1>6 DEF Keepable, ClosedShape, AllDone, shared
  <2>7. Marked'
    BY <1>1, <1>2, <1>5, <2>3 DEF Marked, PoolType
  <2>8. Exclusive'
    BY <1>4, <2>3 DEF Exclusive
  <2>9. NoLeak'
    <3> SUFFICES ASSUME NEW c \in Conns PROVE c \in open <=> Owned(c)'
      BY <1>1 DEF NoLeak
    <3>1. CASE c \in hand[g]
      BY <1>4, <2>3, <3>1 DEF NoLeak, Owned
    <3>2. CASE c \notin hand[g]
      BY <1>4, <2>3, <3>2 DEF NoLeak, Owned
    <3> QED BY <3>1, <3>2
  <2> QED BY <1>3, <2>4, <2>5, <2>6, <2>7, <2>8, <2>9
<1>7. CASE ~Keepable(g)
  <2>1. UNCHANGED <<idle, conns>>
    BY <1>1, <1>7 DEF RefillPut, conns
  <2>2. PoolType'
    BY <1>1, <2>1 DEF PoolType, shared
  <2>3. HandShape'
    BY <1>1, <1>2, <2>1 DEF HandShape, conns, Single
  <2>4. ClosedShape'
    BY <1>1, <1>2, <2>1 DEF ClosedShape, AllDone, shared
  <2>5. Marked'
    BY <1>1, <1>2, <1>5, <2>1 DEF Marked
  <2> QED BY <1>3, <2>1, <2>2, <2>3, <2>4, <2>5, Frame
<1> QED BY <1>6, <1>7

LEMMA RefillInv ==
    ASSUME IInv, NEW g \in Gor, Refill(g)
    PROVE  IInv'
<1> USE DEF IInv
<1>1. CASE RefillNext(g)
  <2>1. PICK l \in {"dial", "put"} : Step(g, l)
    BY <1>1 DEF RefillNext
  <2>2. hand[g] = {} /\ gpc[g] \in Busy
    BY <1>1 DEF RefillNext, HandShape, Busy
  <2> QED BY <1>1, <2>1, <2>2, GorQuiet DEF RefillNext
<1>2. CASE RefillDial(g)
  <2>1. hand[g] = {} /\ gpc[g] \in Busy /\ g \in Procs
    BY <1>2, ProcsFacts DEF RefillDial, HandShape, Busy
  <2>2. CASE UNCHANGED conns /\ Step(g, "next")
    BY <1>2, <2>1, <2>2, GorQuiet DEF RefillDial
  <2>3. CASE \E c \in Conns \ open : Open(g, c) /\ Step(g, "dialled")
    <3>1. PICK c \in Conns \ open : Open(g, c) /\ Step(g, "dialled")
      BY <2>3
    <3>2. UNCHANGED <<shared, pool, cpc, key, zpc>> /\ idle' = idle
      BY <1>2 DEF RefillDial, pool
    <3>3. /\ ConnType' /\ Exclusive' /\ NoLeak'
          /\ \A p \in Procs : hand'[p] = IF p = g THEN {c} ELSE hand[p]
      BY <2>1, <3>1, <3>2, OpenFacts
    <3>4. Single({c}) /\ gpc[g] # "none" /\ "dialled" \in Busy
      BY <2>1 DEF Single, Busy
    <3> QED BY <2>1, <3>1, <3>2, <3>3, <3>4, GorMoves
  <2> QED BY <1>2, <2>2, <2>3 DEF RefillDial
<1>3. CASE RefillContext(g)
  <2>1. gpc[g] \in Busy /\ gpc[g] # "none"
    BY <1>3 DEF RefillContext, Busy
  <2>2. CASE closed
    BY <1>3, <2>1, <2>2, GorCloses DEF RefillContext
  <2>3. CASE ~closed
    BY <1>3, <2>1, <2>3, GorQuiet DEF RefillContext
  <2> QED BY <2>2, <2>3
<1>4. CASE RefillDrop(g)
  BY <1>4, GorCloses DEF RefillDrop, AfterDrop
<1> QED BY <1>1, <1>2, <1>3, <1>4, RefillPutInv DEF Refill

LEMMA CloseLockedInv ==
    ASSUME IInv, CloseLocked
    PROVE  IInv'
<1> USE DEF IInv
<1>1. /\ zpc = "open" /\ zpc' = "closing" /\ closed' = TRUE
      /\ hand' = [hand EXCEPT ![Closer] = Idle]
      /\ idle' = [k \in Keys |-> {}]
      /\ UNCHANGED <<cancelled, warmed, refilling, open, aged, gpc, cpc, key>>
  BY DEF CloseLocked, FreshMap
<1>2. hand[Closer] = {} /\ Idle \subseteq Conns
  BY <1>1 DEF HandShape, Idle, PoolType
<1>3. /\ \A p \in Procs : hand'[p] = IF p = Closer THEN Idle ELSE hand[p]
      /\ \A k \in Keys : idle'[k] = {}
  BY <1>1 DEF ConnType
<1>4. PoolType' /\ ConnType' /\ ControlType' /\ KeyShape'
  BY <1>1, <1>2 DEF PoolType, ConnType, ControlType, KeyShape
<1>5. HandShape'
  BY <1>1, <1>3, ProcsFacts DEF HandShape, Single
<1>6. ClosedShape' /\ Marked'
  BY <1>1, <1>3 DEF ClosedShape, AllDone, Marked, PoolType
<1>7. Exclusive'
  <2>1. \A p \in Procs : Idle \cap hand[p] = {}
    BY DEF Exclusive, Idle
  <2> QED BY <1>3, <2>1 DEF Exclusive
<1>8. NoLeak'
  <2> SUFFICES ASSUME NEW c \in Conns PROVE c \in open <=> Owned(c)'
    BY <1>1 DEF NoLeak
  <2>1. Owned(c)' <=> c \in Idle \/ \E p \in Procs : p # Closer /\ c \in hand[p]
    BY <1>3, ProcsFacts DEF Owned
  <2>2. Owned(c) <=> c \in Idle \/ \E p \in Procs : p # Closer /\ c \in hand[p]
    BY <1>2 DEF Owned, Idle
  <2> QED BY <2>1, <2>2 DEF NoLeak
<1> QED BY <1>4, <1>5, <1>6, <1>7, <1>8

LEMMA CloseItemInv ==
    ASSUME IInv, CloseItem
    PROVE  IInv'
<1> USE DEF IInv
<1>1. PICK c \in hand[Closer] : Shut(Closer, {c})
  BY DEF CloseItem
<1>2. UNCHANGED <<shared, pool, gpc, cpc, key, zpc>> /\ idle' = idle /\ zpc = "closing"
  BY DEF CloseItem, pool
<1>3. /\ ConnType' /\ Exclusive' /\ NoLeak'
      /\ \A q \in Procs : hand'[q] = IF q = Closer THEN hand[Closer] \ {c} ELSE hand[q]
  BY <1>1, <1>2, ShutFacts, ProcsFacts
<1>4. HandShape'
  BY <1>2, <1>3, ProcsFacts DEF HandShape, pool, Single
<1>5. ControlType'
  BY <1>2 DEF ControlType
<1> QED BY <1>2, <1>3, <1>4, <1>5, Frame DEF shared, pool

LEMMA NextInv == IInv /\ [Next]_vars => IInv'
<1> SUFFICES ASSUME IInv, [Next]_vars PROVE IInv'
  OBVIOUS
<1> USE DEF IInv
<1>1. ASSUME UNCHANGED <<idle, refilling, conns, gpc, cpc, key>>, PoolType', ControlType', ClosedShape',
             zpc' # "closing" => hand[Closer] = {}
      PROVE  IInv'
  <2>1. HandShape'
    BY <1>1 DEF HandShape, conns, Single
  <2> QED BY <1>1, <2>1, Frame DEF pool
<1>2. CASE UNCHANGED vars
  BY <1>2, <1>1 DEF vars, shared, pool, PoolType, ControlType, ClosedShape, AllDone, HandShape
<1>3. CASE Warmup
  <2>1. WarmKeys \in SUBSET Keys /\ warmed' \in BOOLEAN
    BY <1>3, WorkerAssumption DEF Warmup
  <2> QED BY <1>3, <2>1, ScheduleOnly DEF Warmup, ControlType
<1>4. CASE Cancel
  BY <1>4, <1>1 DEF Cancel, pool, PoolType, ControlType, ClosedShape, AllDone, HandShape
<1>5. CASE CloseWait
  BY <1>5, <1>1 DEF CloseWait, shared, pool, PoolType, ControlType, ClosedShape, AllDone
<1>6. ASSUME NEW c \in Conns, Age(c) PROVE IInv'
  <2>1. c \in open
    BY <1>6, ProcsFacts DEF Age, Idle, NoLeak, Owned
  <2>2. ConnType'
    BY <1>6, <2>1 DEF Age, ConnType
  <2>3. UNCHANGED <<shared, pool, open, hand, gpc, cpc, key, zpc>>
    BY <1>6 DEF Age
  <2>4. PoolType' /\ ControlType' /\ KeyShape' /\ ClosedShape' /\ Marked'
    BY <2>3, Frame DEF ControlType, shared, pool
  <2>5. HandShape' /\ Exclusive' /\ NoLeak'
    BY <2>3 DEF HandShape, Single, Exclusive, NoLeak, Owned, pool
  <2> QED BY <2>2, <2>4, <2>5
<1> QED BY <1>2, <1>3, <1>4, <1>5, <1>6, SessionInv, RefillInv, CloseLockedInv, CloseItemInv
        DEF Next, Closing

-----------------------------------------------------------------------------
(* Theorems *)

\* The inductive invariant holds in every reachable state.
THEOREM Invariant == Spec => []IInv
<1>1. Init => IInv
  <2> SUFFICES ASSUME Init PROVE IInv
    OBVIOUS
  <2> USE DEF Init
  <2>1. PoolType /\ ConnType /\ ControlType /\ KeyShape
    BY DEF PoolType, ConnType, ControlType, KeyShape, Busy
  <2>2. HandShape
    BY ProcsFacts DEF HandShape, Single
  <2>3. ClosedShape /\ Marked
    BY DEF ClosedShape, Marked, Busy
  <2>4. Exclusive /\ NoLeak
    BY DEF Exclusive, NoLeak, Owned
  <2> QED BY <2>1, <2>2, <2>3, <2>4 DEF IInv
<1> QED BY <1>1, NextInv, PTL DEF Spec

\* Every variable has its type; p.idle holds at most one connection per key.
THEOREM TypeCorrect == Spec => []TypeOK
<1>1. ASSUME NEW S, Single(S) PROVE Cardinality(S) <= 1
  <2>1. CASE S = {}
    BY <2>1, FS_EmptySet
  <2>2. CASE \E c \in Conns : S = {c}
    BY <2>2, FS_Singleton
  <2> QED BY <1>1, <2>1, <2>2 DEF Single
<1>2. IInv => TypeOK
  <2> SUFFICES ASSUME IInv PROVE TypeOK
    OBVIOUS
  <2> USE DEF IInv
  <2>1. /\ \A k \in Keys : Cardinality(idle[k]) <= 1
        /\ \A p \in Procs \ {Closer} : Cardinality(hand[p]) <= 1
    BY <1>1 DEF HandShape, Procs
  <2> QED BY <2>1 DEF TypeOK, PoolType, ConnType, ControlType, Busy
<1> QED BY <1>2, Invariant, PTL

\* Every open connection of the worker pool has exactly one owner, which will
\* close it, whatever sessions, refills and Close do at the same time; after
\* Close that owner is a session.
THEOREM SingleOwner == Spec => []Ownership
<1>1. IInv => Ownership
  <2> SUFFICES ASSUME IInv PROVE CloseComplete
    BY DEF IInv, Ownership
  <2> SUFFICES ASSUME zpc = "done"
               PROVE  /\ \A g \in Gor : gpc[g] = "none"
                      /\ open = UNION {hand[x] : x \in Clients}
    BY DEF CloseComplete
  <2> USE DEF IInv
  <2>1. \A g \in Gor : gpc[g] = "none" /\ hand[g] = {}
    BY DEF ClosedShape, AllDone, HandShape
  <2>2. hand[Closer] = {} /\ \A k \in Keys : idle[k] = {}
    BY DEF HandShape, ClosedShape
  <2>3. \A c \in Conns : Owned(c) <=> \E x \in Clients : c \in hand[x]
    BY <2>1, <2>2 DEF Owned, Procs
  <2>4. \A x \in Clients : hand[x] \subseteq Conns
    BY ProcsFacts DEF ConnType
  <2>5. open = UNION {hand[x] : x \in Clients}
    BY <2>3, <2>4 DEF NoLeak, ConnType
  <2> QED BY <2>1, <2>5
<1> QED BY <1>1, Invariant, PTL

-----------------------------------------------------------------------------
(* The worker pool implements ConnPool *)

\* The instance counts with the same operator.
LEMMA SameCardinality == \A S : Contract!Cardinality(S) = Cardinality(S)
BY DEF Contract!Cardinality, Cardinality

\* A session that neither moves nor changes hands holds the same, seen from
\* ConnPool; so does one that holds nothing from the pool before and after.
LEMMA LentStep ==
    ASSUME NEW x \in Clients,
           \/ FromPool(x)' = FromPool(x) /\ key'[x] = key[x] /\ hand'[x] = hand[x]
           \/ ~FromPool(x) /\ ~FromPool(x)'
    PROVE  Lent'[x] = Lent[x]
BY DEF Lent

LEMMA LentSame ==
    ASSUME \A x \in Clients : Lent'[x] = Lent[x]
    PROVE  Lent' = Lent
<1>1. Lent = [x \in Clients |-> Lent[x]] /\ Lent' = [x \in Clients |-> Lent'[x]]
  BY DEF Lent
<1> QED BY <1>1

\* A session that drops what it has from the pool gives it up.
LEMMA GivesUp ==
    ASSUME NEW x \in Clients, UNCHANGED <<idle, closed>>, Lent'[x] = {},
           \A y \in Clients : y # x => Lent'[y] = Lent[y]
    PROVE  [Contract!Next]_(Contract!vars)
<1>1. CASE Lent[x] = {}
  <2>1. Lent' = Lent
    BY <1>1, LentSame
  <2> QED BY <2>1 DEF Contract!vars
<1>2. CASE Lent[x] # {}
  <2>1. Lent = [y \in Clients |-> Lent[y]] /\ Lent' = [y \in Clients |-> Lent'[y]]
    BY DEF Lent
  <2>2. Lent' = [Lent EXCEPT ![x] = {}]
    BY <2>1
  <2> QED BY <1>2, <2>2 DEF Contract!Next, Contract!GiveUp
<1> QED BY <1>1, <1>2

\* Only get's critical section takes something from the pool.
LEMMA SessionRefines ==
    ASSUME IInv, NEW x \in Clients, Session(x)
    PROVE  [Contract!Next]_(Contract!vars)
<1> USE DEF IInv
<1>1. \A y \in Clients : y # x => cpc'[y] = cpc[y] /\ key'[y] = key[y]
  BY DEF Session, Get, GetCheck, InitOk, InitFail, ConnectNext, ConnectError, ConnectDial,
         ConnectWrite, Restock, Release, Goto, ControlType
<1>2. \A y \in Clients : y # x => hand'[y] = hand[y]
  BY ProcsFacts DEF Session, Get, GetCheck, InitOk, InitFail, ConnectNext, ConnectError, ConnectDial,
         ConnectWrite, Restock, Release, Shut, Open, conns, ConnType
<1>3. \A y \in Clients : y # x => Lent'[y] = Lent[y]
  BY <1>1, <1>2, LentStep DEF FromPool
<1>4. ASSUME UNCHANGED <<idle, closed>>, Lent'[x] = Lent[x]
      PROVE  [Contract!Next]_(Contract!vars)
  <2>1. Lent' = Lent
    BY <1>3, <1>4, LentSame
  <2> QED BY <1>4, <2>1 DEF Contract!vars
<1>5. ASSUME UNCHANGED <<idle, closed>>, cpc'[x] \notin {"check", "init", "pooled"}
      PROVE  [Contract!Next]_(Contract!vars)
  <2>1. Lent'[x] = {}
    BY <1>5 DEF Lent, FromPool
  <2> QED BY <1>3, <1>5, <2>1, GivesUp
<1>6. ASSUME NEW l, Goto(x, l) PROVE cpc'[x] = l
  BY <1>6 DEF Goto, ControlType
<1>7. ASSUME NEW k \in Keys, Get(x, k) PROVE [Contract!Next]_(Contract!vars)
  <2>1. CASE closed \/ ~Enabled \/ idle[k] = {}
    BY <1>5, <1>6, <1>7, <2>1 DEF Get, pool, shared
  <2>2. CASE ~(closed \/ ~Enabled \/ idle[k] = {})
    <3>1. /\ idle' = [idle EXCEPT ![k] = {}] /\ hand' = [hand EXCEPT ![x] = idle[k]]
          /\ Goto(x, "check") /\ key' = [key EXCEPT ![x] = k] /\ closed' = closed /\ ~closed
          /\ cpc[x] = "idle"
      BY <1>7, <2>2 DEF Get, shared
    <3>2. PICK c \in Conns : idle[k] = {c}
      BY <2>2 DEF HandShape, Single
    <3>3. hand'[x] = {c} /\ key'[x] = k /\ cpc'[x] = "check"
      BY <1>6, <3>1, <3>2, ProcsFacts DEF ConnType, ControlType
    <3>4. Lent[x] = {} /\ Lent'[x] = {<<k, c>>}
      BY <3>1, <3>3 DEF Lent, FromPool
    <3>5. Lent = [y \in Clients |-> Lent[y]] /\ Lent' = [y \in Clients |-> Lent'[y]]
      BY DEF Lent
    <3>6. Lent' = [Lent EXCEPT ![x] = {<<k, c>>}]
      BY <1>3, <3>4, <3>5
    <3>7. c \in idle[k] /\ idle' = [idle EXCEPT ![k] = @ \ {c}]
      BY <3>1, <3>2
    <3>8. Contract!Lend(x, k, c)
      BY <3>1, <3>4, <3>6, <3>7 DEF Contract!Lend
    <3> QED BY <3>8 DEF Contract!Next
  <2> QED BY <2>1, <2>2
<1>8. CASE GetCheck(x)
  <2>1. CASE hand[x] \cap aged = {}
    <3>1. cpc'[x] = "init" /\ UNCHANGED <<idle, closed>> /\ key' = key /\ hand' = hand /\ cpc[x] = "check"
      BY <1>6, <1>8, <2>1 DEF GetCheck, pool, shared, conns
    <3> QED BY <1>4, <3>1, LentStep DEF FromPool
  <2>2. CASE hand[x] \cap aged # {}
    BY <1>5, <1>6, <1>8, <2>2 DEF GetCheck, pool, shared
  <2> QED BY <2>1, <2>2
<1>9. CASE InitOk(x)
  <2>1. cpc'[x] = "pooled" /\ UNCHANGED <<idle, closed>> /\ key' = key /\ hand' = hand /\ cpc[x] = "init"
    BY <1>6, <1>9 DEF InitOk, pool, shared, conns
  <2> QED BY <1>4, <2>1, LentStep DEF FromPool
<1>10. CASE InitFail(x) \/ ConnectNext(x) \/ ConnectError(x) \/ ConnectDial(x)
           \/ ConnectWrite(x) \/ Restock(x) \/ Release(x)
  <2>1. UNCHANGED <<idle, closed>>
    BY <1>10 DEF InitFail, ConnectNext, ConnectError, ConnectDial, ConnectWrite, Restock, Release,
                 pool, shared
  <2>2. \E l \in {"idle", "next", "dial", "write", "restock", "own"} : Goto(x, l)
    BY <1>10 DEF InitFail, ConnectNext, ConnectError, ConnectDial, ConnectWrite, Restock, Release
  <2> QED BY <1>5, <1>6, <2>1, <2>2
<1> QED BY <1>7, <1>8, <1>9, <1>10 DEF Session

\* A step that moves no session lends and takes back nothing.
LEMMA OthersLent ==
    ASSUME IInv, Next, ~\E x \in Clients : Session(x)
    PROVE  Lent' = Lent
<1> USE DEF IInv
<1>1. UNCHANGED <<cpc, key>>
  BY DEF Next, Refill, RefillNext, RefillDial, RefillContext, RefillPut, RefillDrop, Warmup, Cancel,
         Closing, CloseLocked, CloseItem, CloseWait, Age
<1>2. \/ hand' = hand
      \/ \E p \in Procs \ Clients : \E S : hand' = [hand EXCEPT ![p] = S]
  <2>1. ASSUME NEW g \in Gor, Refill(g) PROVE hand' = hand \/ \E S : hand' = [hand EXCEPT ![g] = S]
    BY <2>1 DEF Refill, RefillNext, RefillDial, RefillContext, RefillPut, RefillDrop, Shut, Open, conns
  <2>2. CASE Closing
    BY <2>2, ProcsFacts DEF Closing, CloseLocked, CloseItem, CloseWait, Shut, conns
  <2>3. CASE Warmup \/ Cancel \/ \E c \in Conns : Age(c)
    BY <2>3 DEF Warmup, Cancel, Age, conns
  <2> QED BY <2>1, <2>2, <2>3, ProcsFacts DEF Next
<1>3. \A x \in Clients : hand'[x] = hand[x]
  BY <1>2, ProcsFacts DEF ConnType
<1>4. \A x \in Clients : Lent'[x] = Lent[x]
  BY <1>1, <1>3, LentStep DEF FromPool
<1> QED BY <1>4, LentSame

LEMMA RefinesStep ==
    ASSUME IInv, [Next]_vars
    PROVE  [Contract!Next]_(Contract!vars)
<1> USE DEF IInv
<1>1. CASE UNCHANGED vars
  <2>1. \A x \in Clients : Lent'[x] = Lent[x]
    BY <1>1, LentStep DEF vars, conns, FromPool
  <2> QED BY <1>1, <2>1, LentSame DEF vars, shared, pool, Contract!vars
<1>2. CASE \E x \in Clients : Session(x)
  BY <1>2, SessionRefines
<1>3. CASE Next /\ ~\E x \in Clients : Session(x)
  <2>1. Lent' = Lent
    BY <1>3, OthersLent
  <2>2. ASSUME UNCHANGED <<idle, closed>> PROVE [Contract!Next]_(Contract!vars)
    BY <2>1, <2>2 DEF Contract!vars
  <2>3. ASSUME NEW g \in Gor, RefillPut(g) PROVE [Contract!Next]_(Contract!vars)
    <3>1. CASE Keepable(g)
      <4>1. PICK c \in Conns : hand[g] = {c}
        BY <3>1 DEF Keepable, HandShape, Single
      <4>2. idle' = [idle EXCEPT ![g[1]] = {c}] /\ closed' = closed /\ ~closed
        BY <2>3, <3>1, <4>1 DEF RefillPut, Keepable, shared
      <4>3. g[1] \in Keys /\ idle[g[1]] = {} /\ g \in Procs
        BY <2>3, ProcsFacts DEF RefillPut, Marked, Busy
      <4>4. Contract!Cardinality(idle[g[1]]) < 1
        BY <4>3, SameCardinality, FS_EmptySet
      <4>5. \A k \in Keys : c \notin idle[k]
        BY <4>1, <4>3 DEF Exclusive
      <4>6. \A x \in Clients : c \notin hand[x]
        BY <4>1, <4>3, ProcsFacts DEF Exclusive
      <4>7. c \notin Contract!InUse
        <5>1. c \notin UNION {idle[k] : k \in Keys}
          BY <4>5
        <5>2. \A x \in Clients : \A p \in Lent[x] : p[2] # c
          BY <4>6 DEF Lent
        <5>3. \A p \in UNION {Lent[x] : x \in Clients} : p[2] # c
          BY <5>2
        <5>4. c \notin {p[2] : p \in UNION {Lent[x] : x \in Clients}}
          BY <5>3
        <5> QED BY <5>1, <5>4 DEF Contract!InUse
      <4>8. idle' = [idle EXCEPT ![g[1]] = @ \cup {c}]
        BY <4>2, <4>3
      <4>9. Contract!Fill(g[1], c)
        BY <2>1, <4>2, <4>4, <4>7, <4>8 DEF Contract!Fill
      <4> QED BY <4>3, <4>9 DEF Contract!Next
    <3>2. CASE ~Keepable(g)
      BY <2>2, <2>3, <3>2 DEF RefillPut, shared
    <3> QED BY <3>1, <3>2
  <2>4. ASSUME NEW g \in Gor, Refill(g), ~RefillPut(g) PROVE [Contract!Next]_(Contract!vars)
    BY <2>2, <2>4 DEF Refill, RefillNext, RefillDial, RefillContext, RefillDrop, pool, shared
  <2>5. CASE CloseLocked
    <3>1. ~closed /\ closed' = TRUE /\ idle' = [k \in Keys |-> {}]
      BY <2>5 DEF CloseLocked, FreshMap, ClosedShape
    <3> QED BY <2>1, <3>1 DEF Contract!Next, Contract!Shutdown
  <2>6. CASE CloseItem \/ CloseWait \/ Warmup \/ Cancel \/ \E c \in Conns : Age(c)
    BY <2>2, <2>6 DEF CloseItem, CloseWait, Warmup, Cancel, Age, pool, shared
  <2> QED BY <1>3, <2>3, <2>4, <2>5, <2>6 DEF Next, Closing
<1> QED BY <1>1, <1>2, <1>3

\* The worker pool implements ConnPool with room for one connection per key.
THEOREM ImplementsContract == Spec => ImplementsConnPool
<1>1. Init => Contract!Init
  BY DEF Init, Contract!Init, Lent, FromPool
<1>2. IInv /\ [Next]_vars => [Contract!Next]_(Contract!vars)
  BY RefinesStep
<1> QED BY <1>1, <1>2, Invariant, PTL DEF Spec, ImplementsConnPool, Contract!Spec
=============================================================================
