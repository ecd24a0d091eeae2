-------------------------- MODULE TCPBackoffProofs --------------------------
(***************************************************************************)
(* Proofs about the TCP fallback's admission and hand-over, for any number *)
(* of sessions and addresses and any delays.                               *)
(***************************************************************************)
EXTENDS TCPBackoff, WellFoundedInduction, TLAPS

\* An AfterFunc goroutine exists only after a cancellation that found the
\* init write under way, and an attempt that is going to succeed has none.
Handover ==
    /\ \A s \in closer : cancelled /\ pc[s] \in {"write", "finish"}
    /\ \A s \in Sessions : pc[s] = "finish" /\ err[s] = "nil"
                             => s \in open /\ s \notin closer

\* The inductive invariant.
IInv == TypeOK /\ OneAttempt /\ Quiet /\ Handover /\ CleanHandover /\ NoLeak

\* One session moves; the others keep their step and their address.
LEMMA PcFacts ==
    ASSUME TypeOK, NEW s \in Sessions, NEW v, pc' = [pc EXCEPT ![s] = v]
    PROVE  \A t \in Sessions : pc'[t] = IF t = s THEN v ELSE pc[t]
BY DEF TypeOK

\* min(max(2 * delay, tcpBackoffMin), tcpBackoffMax) is within its bounds.
LEMMA NextDelayType ==
    ASSUME NEW d \in {0} \cup BackoffMin..BackoffMax
    PROVE  NextDelay(d) \in BackoffMin..BackoffMax
BY DelayAssumption DEF NextDelay

\* A set of natural numbers that is not empty has a least element: induction is
\* done on the least counterexample.
LEMMA LeastNumber ==
    ASSUME NEW T, T \subseteq Nat, T # {}
    PROVE  \E x \in T : \A y \in T : x <= y
<1>1. PICK x \in T : \A y \in T : ~ (<<y, x>> \in OpToRel(<, Nat))
  BY NatLessThanWellFounded, WFMin, Zenon
<1>2. \A y \in T : ~ (y < x)
  BY <1>1 DEF OpToRel
<1> QED BY <1>2

\* f starts with a, and h gives each of its values from the one before.
Iterates(f, S, a, h) ==
    f \in [Nat -> S] /\ f[0] = a /\ \A n \in Nat : f[n + 1] = h[n][f[n]]

\* The function that a first value and a rule for the next one define exists.
LEMMA Iterate ==
    ASSUME NEW S, NEW a \in S, NEW h \in [Nat -> [S -> S]]
    PROVE  \E f : Iterates(f, S, a, h)
<1> DEFINE Upto(n) == {g \in [0..n -> S] :
                         g[0] = a /\ \A i \in 0..(n - 1) : g[i + 1] = h[i][g[i]]}
<1>1. \A n \in Nat : Upto(n) # {}
  <2> DEFINE T == {n \in Nat : Upto(n) = {}}
  <2> SUFFICES ASSUME T # {} PROVE FALSE
    OBVIOUS
  <2>1. PICK n \in T : \A m \in T : n <= m
    BY LeastNumber
  <2>2. n # 0
    <3>1. [i \in 0..0 |-> a] \in Upto(0)
      OBVIOUS
    <3> QED BY <3>1
  <2>3. PICK m \in Nat : n = m + 1
    BY <2>2
  <2> HIDE DEF T
  <2>4. m \notin T
    BY <2>1, <2>3
  <2> USE DEF T
  <2>5. PICK g \in Upto(m) : TRUE
    BY <2>4
  <2>6. [i \in 0..n |-> IF i = n THEN h[m][g[m]] ELSE g[i]] \in Upto(n)
    BY <2>3, <2>5
  <2> QED BY <2>6
<1>2. ASSUME NEW m \in Nat, NEW n \in Nat, NEW g \in Upto(m), NEW k \in Upto(n),
             NEW i \in Nat, i <= m, i <= n
      PROVE  g[i] = k[i]
  <2> DEFINE T == {j \in Nat : j <= m /\ j <= n /\ g[j] # k[j]}
  <2> SUFFICES ASSUME T # {} PROVE FALSE
    BY <1>2
  <2>1. PICK j \in T : \A l \in T : j <= l
    BY LeastNumber
  <2>2. j # 0
    OBVIOUS
  <2>3. PICK l \in Nat : j = l + 1
    BY <2>2
  <2>4. l \notin T
    BY <2>1, <2>3
  <2>5. g[l] = k[l] /\ g[l + 1] = h[l][g[l]] /\ k[l + 1] = h[l][k[l]]
    BY <2>3, <2>4
  <2> QED BY <2>3, <2>5
<1> DEFINE at == [n \in Nat |-> CHOOSE g : g \in Upto(n)]
<1>3. \A n \in Nat : at[n] \in Upto(n)
  BY <1>1
<1> HIDE DEF at
<1> DEFINE f == [n \in Nat |-> at[n][n]]
<1>4. f \in [Nat -> S] /\ f[0] = a
  BY <1>3
<1>5. ASSUME NEW n \in Nat PROVE f[n + 1] = h[n][f[n]]
  <2>1. n + 1 \in Nat /\ n <= n + 1
    OBVIOUS
  <2>2. at[n + 1] \in Upto(n + 1) /\ at[n] \in Upto(n)
    BY <1>3, <2>1
  <2>3. at[n + 1][n + 1] = h[n][at[n + 1][n]]
    <3>1. PICK g \in Upto(n + 1) : g = at[n + 1]
      BY <2>2
    <3>2. n \in 0..((n + 1) - 1)
      OBVIOUS
    <3> QED BY <3>1, <3>2
  <2> HIDE DEF Upto
  <2>4. at[n + 1][n] = at[n][n]
    BY <2>1, <2>2, <1>2
  <2> QED BY <2>3, <2>4
<1> QED BY <1>4, <1>5 DEF Iterates

\* Doubled is what its definition says, and it is at least tcpBackoffMin.
LEMMA DoubledDef ==
    /\ Doubled[0] = BackoffMin
    /\ \A n \in Nat : Doubled[n + 1] = 2 * Doubled[n]
    /\ \A n \in Nat : Doubled[n] \in Nat /\ Doubled[n] >= BackoffMin
<1> DEFINE h == [n \in Nat |-> [x \in Nat |-> 2 * x]]
<1>1. h \in [Nat -> [Nat -> Nat]] /\ BackoffMin \in Nat
  BY DelayAssumption
<1>2. \A n, x \in Nat : h[n][x] = 2 * x
  OBVIOUS
<1> HIDE DEF h
<1>3. PICK f : Iterates(f, Nat, BackoffMin, h)
  BY <1>1, Iterate
<1>4. f \in [Nat -> Nat] /\ f[0] = BackoffMin /\ \A n \in Nat : f[n + 1] = 2 * f[n]
  BY <1>2, <1>3 DEF Iterates
<1>5. ASSUME NEW n \in Nat, n # 0 PROVE f[n] = 2 * f[n - 1]
  <2>1. PICK m \in Nat : n = m + 1
    BY <1>5
  <2> QED BY <2>1, <1>4
<1>6. f = [n \in Nat |-> IF n = 0 THEN BackoffMin ELSE 2 * f[n - 1]]
  BY <1>5, <1>4
<1>7. Doubled = [n \in Nat |-> IF n = 0 THEN BackoffMin ELSE 2 * Doubled[n - 1]]
  BY <1>6 DEF Doubled
<1>8. Doubled[0] = BackoffMin /\ \A n \in Nat : Doubled[n + 1] = 2 * Doubled[n]
  <2>1. \A n \in Nat : n + 1 \in Nat /\ n + 1 # 0 /\ (n + 1) - 1 = n
    OBVIOUS
  <2> QED BY <2>1, <1>7
<1>9. \A n \in Nat : Doubled[n] \in Nat /\ Doubled[n] >= BackoffMin
  <2> DEFINE T == {n \in Nat : ~(Doubled[n] \in Nat /\ Doubled[n] >= BackoffMin)}
  <2> SUFFICES ASSUME T # {} PROVE FALSE
    OBVIOUS
  <2>1. PICK n \in T : \A m \in T : n <= m
    BY LeastNumber
  <2>2. n # 0
    BY <1>8, DelayAssumption
  <2>3. PICK m \in Nat : n = m + 1
    BY <2>2
  <2>4. m \notin T
    BY <2>1, <2>3
  <2> QED BY <2>3, <2>4, <1>8, DelayAssumption
<1> QED BY <1>8, <1>9

\* finish doubles exactly as DelayAfter says: the failure that follows n others
\* makes the delay of n into that of n + 1, clamped at both ends.
LEMMA NextDelayAfter ==
    ASSUME NEW n \in Nat
    PROVE  NextDelay(DelayAfter(n)) = DelayAfter(n + 1)
<1>1. CASE n = 0
  BY <1>1, DoubledDef, DelayAssumption DEF NextDelay, DelayAfter
<1>2. CASE n # 0
  <2>1. PICK m \in Nat : n = m + 1
    BY <1>2
  <2>2. /\ Doubled[n] = 2 * Doubled[m]
        /\ Doubled[m] \in Nat /\ Doubled[m] >= BackoffMin
    BY <2>1, DoubledDef
  <2>3. /\ DelayAfter(n) = IF Doubled[m] > BackoffMax THEN BackoffMax ELSE Doubled[m]
        /\ DelayAfter(n + 1) = IF Doubled[n] > BackoffMax THEN BackoffMax ELSE Doubled[n]
    BY <2>1 DEF DelayAfter
  <2> QED BY <2>2, <2>3, DelayAssumption DEF NextDelay
<1> QED BY <1>1, <1>2

\* At the maximum a further failure changes nothing.
LEMMA NextDelaySaturates == NextDelay(BackoffMax) = BackoffMax
BY DelayAssumption DEF NextDelay

\* The steps of an attempt that do not touch the records.
LEMMA SameFlight ==
    ASSUME IInv, NEW s \in Sessions, NEW v \in {"write", "finish"},
           pc[s] \in {"dial", "write"}, pc' = [pc EXCEPT ![s] = v],
           UNCHANGED <<connecting, backoff, addr>>
    PROVE  OneAttempt' /\ Quiet'
<1>1. InFlight' = InFlight
  BY PcFacts DEF IInv, InFlight
<1> QED BY <1>1 DEF IInv, OneAttempt, Quiet

\* connectTCPFallback's begin: the address was free and quiet.
LEMMA BeginInv ==
    ASSUME IInv, NEW s \in Sessions, NEW a \in Addrs, Begin(s, a)
    PROVE  IInv'
<1> USE DEF IInv, Begin, Admits
<1>1. TypeOK'
  BY DEF TypeOK
<1>2. /\ \A t \in Sessions : pc'[t] = IF t = s THEN "dial" ELSE pc[t]
      /\ \A t \in Sessions : addr'[t] = IF t = s THEN a ELSE addr[t]
      /\ \A t \in Sessions : err'[t] = IF t = s THEN "nil" ELSE err[t]
  BY DEF TypeOK
<1>3. InFlight' = InFlight \cup {s} /\ s \notin InFlight
  BY <1>2 DEF InFlight
<1>4. OneAttempt'
  <2>1. \A t \in InFlight : t \in Sessions /\ t # s /\ addr[t] # a /\ addr'[t] = addr[t]
    BY <1>2, <1>3 DEF OneAttempt, InFlight
  <2> QED BY <2>1, <1>2, <1>3 DEF OneAttempt
<1>5. Quiet'
  BY DEF Quiet
<1>6. Handover' /\ CleanHandover' /\ NoLeak'
  BY <1>2 DEF Handover, CleanHandover, NoLeak, TypeOK
<1> QED BY <1>1, <1>4, <1>5, <1>6

\* The dial returns, the init is written or not: the connection and its
\* AfterFunc change hands, the records do not change.
LEMMA AttemptInv ==
    ASSUME IInv, NEW s \in Sessions,
           DialOk(s) \/ DialFail(s) \/ Write(s, "nil") \/ Write(s, "fail")
    PROVE  IInv'
<1> USE DEF IInv, routes
<1>1. CASE DialOk(s)
  <2> USE <1>1 DEF DialOk
  <2>1. TypeOK'
    BY DEF TypeOK
  <2>2. \A t \in Sessions : pc'[t] = IF t = s THEN "write" ELSE pc[t]
    BY PcFacts
  <2>3. OneAttempt' /\ Quiet'
    BY SameFlight
  <2>4. Handover' /\ CleanHandover' /\ NoLeak'
    BY <2>2 DEF Handover, CleanHandover, NoLeak, TypeOK
  <2> QED BY <2>1, <2>3, <2>4
<1>2. CASE DialFail(s)
  <2> USE <1>2 DEF DialFail
  <2>1. TypeOK'
    BY DEF TypeOK
  <2>2. /\ \A t \in Sessions : pc'[t] = IF t = s THEN "finish" ELSE pc[t]
        /\ \A t \in Sessions : t # s => err'[t] = err[t]
        /\ err'[s] # "nil"
    BY PcFacts DEF TypeOK
  <2>3. OneAttempt' /\ Quiet'
    BY SameFlight
  <2>4. Handover' /\ CleanHandover' /\ NoLeak'
    BY <2>2 DEF Handover, CleanHandover, NoLeak, TypeOK
  <2> QED BY <2>1, <2>3, <2>4
<1>3. ASSUME NEW r \in {"nil", "fail"}, Write(s, r) PROVE IInv'
  <2> USE <1>3 DEF Write
  <2>1. Outcome(r) \in {"nil", "fail", "cancel"} /\ (Outcome(r) = "nil" => r = "nil" /\ ~cancelled)
    BY DEF Outcome
  <2>2. TypeOK'
    BY <2>1 DEF TypeOK
  <2>3. /\ \A t \in Sessions : pc'[t] = IF t = s THEN "finish" ELSE pc[t]
        /\ \A t \in Sessions : err'[t] = IF t = s THEN Outcome(r) ELSE err[t]
    BY PcFacts DEF TypeOK
  <2>4. OneAttempt' /\ Quiet'
    BY SameFlight
  <2>5. Handover' /\ CleanHandover' /\ NoLeak'
    BY <2>1, <2>3 DEF Handover, CleanHandover, NoLeak, TypeOK
  <2> QED BY <2>2, <2>4, <2>5
<1> QED BY <1>1, <1>2, <1>3

\* finish frees the address, and only then can it back off.
LEMMA FinishInv ==
    ASSUME IInv, NEW s \in Sessions, Finish(s)
    PROVE  IInv'
<1> USE DEF IInv, Finish
<1> DEFINE a == addr[s]
<1>1. a \in Addrs /\ s \in InFlight /\ err[s] \in {"nil", "fail", "cancel"}
  BY DEF TypeOK, InFlight
<1>2. PICK v \in {"using", "idle"} :
        /\ pc' = [pc EXCEPT ![s] = v]
        /\ v = "using" <=> err[s] = "nil"
        /\ IF v = "using" THEN UNCHANGED <<open, closer>>
           ELSE open' = open \ {s} /\ closer' = closer \ {s}
  BY DEF Dispose
<1>3. /\ connecting' = connecting \ {a}
      /\ \A b \in Addrs : b # a => backoff'[b] = backoff[b]
      /\ delay' \in [Addrs -> {0} \cup BackoffMin..BackoffMax]
      /\ backoff' \in [Addrs -> BOOLEAN]
  <2>1. delay[a] \in {0} \cup BackoffMin..BackoffMax
    BY <1>1 DEF TypeOK
  <2>2. NextDelay(delay[a]) \in BackoffMin..BackoffMax
    BY <2>1, NextDelayType
  <2>3. CASE err[s] = "nil"
    BY <2>3, <1>1 DEF Record, TypeOK
  <2>4. CASE err[s] = "fail"
    BY <2>4, <2>2, <1>1 DEF Record, TypeOK
  <2>5. CASE err[s] = "cancel"
    BY <2>5, <2>1, <1>1 DEF Record, TypeOK
  <2> QED BY <2>3, <2>4, <2>5, <1>1
<1>4. fails' \in [Addrs -> Nat]
  <2>1. fails[a] \in Nat
    BY <1>1 DEF TypeOK
  <2>2. CASE err[s] = "nil"
    BY <2>2, <2>1, <1>1 DEF TypeOK
  <2>3. CASE err[s] = "fail"
    BY <2>3, <2>1, <1>1 DEF TypeOK
  <2>4. CASE err[s] = "cancel"
    BY <2>4, <2>1, <1>1 DEF TypeOK
  <2> QED BY <2>2, <2>3, <2>4, <1>1
<1>5. TypeOK'
  <2>1. pc' \in [Sessions -> {"idle", "dial", "write", "finish", "using"}]
    BY <1>2 DEF TypeOK
  <2>2. open' \subseteq Sessions /\ closer' \subseteq Sessions
    BY <1>2 DEF TypeOK
  <2> QED BY <2>1, <2>2, <1>3, <1>4 DEF TypeOK
<1>6. /\ \A t \in Sessions : pc'[t] = IF t = s THEN v ELSE pc[t]
      /\ InFlight' = InFlight \ {s}
  <2>1. \A t \in Sessions : pc'[t] = IF t = s THEN v ELSE pc[t]
    BY <1>2, PcFacts
  <2> QED BY <2>1 DEF InFlight
<1>7. OneAttempt'
  <2>1. \A t \in InFlight \ {s} : addr[t] # a
    BY <1>1 DEF OneAttempt
  <2> QED BY <2>1, <1>3, <1>6 DEF OneAttempt
<1>8. Quiet'
  BY <1>3 DEF Quiet
<1>9. Handover' /\ CleanHandover' /\ NoLeak'
  BY <1>2, <1>6 DEF Handover, CleanHandover, NoLeak, TypeOK
<1> QED BY <1>5, <1>7, <1>8, <1>9

\* The session's end, the cancellation and the clock.
LEMMA OtherInv ==
    ASSUME IInv,
           \/ \E s \in Sessions : Release(s) \/ AfterFunc(s)
           \/ Cancel
           \/ \E a \in Addrs : BackoffExpire(a)
    PROVE  IInv'
<1> USE DEF IInv, routes
<1>1. ASSUME NEW s \in Sessions, Release(s) PROVE IInv'
  <2> USE <1>1 DEF Release
  <2>1. TypeOK'
    BY DEF TypeOK
  <2>2. /\ \A t \in Sessions : pc'[t] = IF t = s THEN "idle" ELSE pc[t]
        /\ InFlight' = InFlight
    <3>1. \A t \in Sessions : pc'[t] = IF t = s THEN "idle" ELSE pc[t]
      BY PcFacts
    <3> QED BY <3>1 DEF InFlight
  <2>3. OneAttempt' /\ Quiet'
    BY <2>2 DEF OneAttempt, Quiet
  <2>4. Handover' /\ CleanHandover' /\ NoLeak'
    BY <2>2 DEF Handover, CleanHandover, NoLeak, TypeOK
  <2> QED BY <2>1, <2>3, <2>4
<1>2. ASSUME NEW s \in Sessions, AfterFunc(s) PROVE IInv'
  <2> USE <1>2 DEF AfterFunc
  <2>1. TypeOK' /\ OneAttempt' /\ Quiet'
    BY DEF TypeOK, OneAttempt, Quiet, InFlight
  <2>2. Handover' /\ CleanHandover' /\ NoLeak'
    BY DEF Handover, CleanHandover, NoLeak, TypeOK
  <2> QED BY <2>1, <2>2
<1>3. ASSUME Cancel PROVE IInv'
  <2> USE <1>3 DEF Cancel
  <2>1. TypeOK' /\ OneAttempt' /\ Quiet'
    BY DEF TypeOK, OneAttempt, Quiet, InFlight
  <2>2. Handover' /\ CleanHandover' /\ NoLeak'
    BY DEF Handover, CleanHandover, NoLeak, TypeOK
  <2> QED BY <2>1, <2>2
<1>4. ASSUME NEW a \in Addrs, BackoffExpire(a) PROVE IInv'
  <2> USE <1>4 DEF BackoffExpire
  <2>1. TypeOK' /\ Quiet'
    BY DEF TypeOK, Quiet
  <2>2. OneAttempt'
    BY DEF OneAttempt, InFlight
  <2>3. Handover' /\ CleanHandover' /\ NoLeak'
    BY DEF Handover, CleanHandover, NoLeak
  <2> QED BY <2>1, <2>2, <2>3
<1> QED BY <1>1, <1>2, <1>3, <1>4

\* The invariant holds of every behaviour of the TCP fallback.
THEOREM Invariant == Spec => []IInv
<1>1. Init => IInv
  <2> SUFFICES ASSUME Init PROVE IInv
    OBVIOUS
  <2> USE DEF Init
  <2>1. TypeOK
    BY DEF TypeOK
  <2>2. OneAttempt /\ Quiet
    BY DEF OneAttempt, Quiet, InFlight
  <2>3. Handover /\ CleanHandover /\ NoLeak
    BY DEF Handover, CleanHandover, NoLeak
  <2> QED BY <2>1, <2>2, <2>3 DEF IInv
<1>2. IInv /\ [Next]_vars => IInv'
  <2> SUFFICES ASSUME IInv, [Next]_vars PROVE IInv'
    OBVIOUS
  <2>1. CASE UNCHANGED vars
    BY <2>1 DEF vars, routes, IInv, TypeOK, OneAttempt, Quiet, Handover, CleanHandover,
                NoLeak, InFlight
  <2>2. CASE Next
    BY <2>2, BeginInv, AttemptInv, FinishInv, OtherInv DEF Next, Step
  <2> QED BY <2>1, <2>2
<1> QED BY <1>1, <1>2, PTL DEF Spec

\* The connecting mark of an address and the one session that is trying it
\* come and go together.
THEOREM AttemptsSingle == Spec => []OneAttempt
<1>1. IInv => OneAttempt
  BY DEF IInv
<1> QED BY <1>1, Invariant, PTL

\* An address that backs off is not being dialled.
THEOREM BackoffIsQuiet == Spec => []Quiet
<1>1. IInv => Quiet
  BY DEF IInv
<1> QED BY <1>1, Invariant, PTL

\* The connection a session goes on with is not closed behind its back by the
\* AfterFunc of the init write.
THEOREM HandoverIsClean == Spec => []CleanHandover
<1>1. IInv => CleanHandover
  BY DEF IInv
<1> QED BY <1>1, Invariant, PTL

\* Every connection that was dialled and not closed belongs to an attempt under
\* way or to the session that uses it: no failure, cancellation or late
\* AfterFunc leaves one behind.
THEOREM NothingLeaks == Spec => []NoLeak
<1>1. IInv => NoLeak
  BY DEF IInv
<1> QED BY <1>1, Invariant, PTL

\* Only finish touches a delay or the history of failures, and it keeps them in
\* step whatever the outcome.
LEMMA DelayStep ==
    ASSUME TypeOK, DelayTracksFailures, [Next]_vars
    PROVE  DelayTracksFailures'
<1>1. CASE UNCHANGED <<delay, fails>>
  BY <1>1 DEF DelayTracksFailures
<1>2. ASSUME NEW s \in Sessions, Finish(s) PROVE DelayTracksFailures'
  <2>1. PICK a \in Addrs : a = addr[s]
    BY DEF TypeOK
  <2>2. PICK e \in {"nil", "fail", "cancel"} : e = err[s]
    BY DEF TypeOK
  <2>3. /\ delay' = [delay EXCEPT ![a] = CASE e = "nil" -> 0
                                           [] e = "fail" -> NextDelay(@)
                                           [] e = "cancel" -> @]
        /\ fails' = [fails EXCEPT ![a] = CASE e = "nil" -> 0
                                           [] e = "fail" -> IF @ = MaxFails THEN @ ELSE @ + 1
                                           [] e = "cancel" -> @]
    BY <1>2, <2>1, <2>2 DEF Finish, Record
  <2>4. \A b \in Addrs : b # a => delay'[b] = delay[b] /\ fails'[b] = fails[b]
    BY <2>3 DEF TypeOK
  <2>5. PICK n \in Nat : n = fails[a]
    BY DEF TypeOK
  <2>6. delay[a] = DelayAfter(n)
    BY <2>5 DEF DelayTracksFailures
  <2>7. delay'[a] = DelayAfter(fails'[a])
    <3>1. CASE e = "nil"
      BY <3>1, <2>3 DEF TypeOK, DelayAfter
    <3>2. CASE e = "fail" /\ n = MaxFails
      <4>1. delay'[a] = NextDelay(delay[a]) /\ fails'[a] = n
        BY <3>2, <2>3, <2>5 DEF TypeOK
      <4> QED BY <4>1, <3>2, <2>6, SaturationAssumption, NextDelaySaturates
    <3>3. CASE e = "fail" /\ n # MaxFails
      <4>1. delay'[a] = NextDelay(delay[a]) /\ fails'[a] = n + 1
        BY <3>3, <2>3, <2>5 DEF TypeOK
      <4> QED BY <4>1, <2>6, NextDelayAfter
    <3>4. CASE e = "cancel"
      BY <3>4, <2>3, <2>5, <2>6 DEF TypeOK
    <3> QED BY <2>2, <3>1, <3>2, <3>3, <3>4
  <2> QED BY <2>4, <2>7 DEF DelayTracksFailures
<1>3. ASSUME NEW s \in Sessions, \E a \in Addrs : Begin(s, a) PROVE UNCHANGED <<delay, fails>>
  BY <1>3 DEF Begin
<1>4. ASSUME NEW s \in Sessions,
             \/ DialOk(s) \/ DialFail(s) \/ Write(s, "nil") \/ Write(s, "fail")
             \/ Release(s) \/ AfterFunc(s)
      PROVE  UNCHANGED <<delay, fails>>
  BY <1>4 DEF DialOk, DialFail, Write, Release, AfterFunc, routes
<1>5. Cancel \/ (\E a \in Addrs : BackoffExpire(a)) => UNCHANGED <<delay, fails>>
  BY DEF Cancel, BackoffExpire, routes
<1>6. UNCHANGED vars => UNCHANGED <<delay, fails>>
  BY DEF vars, routes
<1> QED BY <1>1, <1>2, <1>3, <1>4, <1>5, <1>6 DEF Next, Step

\* After n failures in a row, whatever the interleaving of sessions and however
\* many cancelled attempts lie between them, the delay is tcpBackoffMin doubled
\* n - 1 times and clamped.
THEOREM DelayIsExponential == Spec => []DelayTracksFailures
<1>1. Init => DelayTracksFailures
  BY DEF Init, DelayTracksFailures, DelayAfter
<1>2. IInv /\ DelayTracksFailures /\ [Next]_vars => DelayTracksFailures'
  BY DelayStep DEF IInv
<1> QED BY <1>1, <1>2, Invariant, PTL DEF Spec
=============================================================================
