--------------------------- MODULE CFProxyProofs ----------------------------
(***************************************************************************)
(* Proofs about the domain lists and the dial limits of the Cloudflare     *)
(* fallback, for any number of callers, domains and DCs and any limits.    *)
(***************************************************************************)
EXTENDS CFProxy, TLAPS, FiniteSetTheorems

\* The callers that are dialling key k.
DiallersOf(k) == {s \in InFlight : Key(s) = k}

\* A caller in flight has a key of its own kind, and the callers of a key can
\* be counted.
Flights == /\ \A s \in InFlight : Key(s) \in DialKeys
           /\ \A k \in DialKeys : IsFiniteSet(DiallersOf(k))

\* The inductive invariant.
IInv == TypeOK /\ Flights /\ Reservations /\ ActiveListed

-----------------------------------------------------------------------------
(* The counters: nobody, one more or one less is dialling *)

\* A step that changes no caller's flight and no counter.
LEMMA SameFlights ==
    ASSUME Flights, Reservations, UNCHANGED dials, InFlight' = InFlight,
           \A t \in InFlight : Key(t)' = Key(t)
    PROVE  Flights' /\ Reservations' /\ Dialling' = Dialling
<1>1. \A k \in DialKeys : DiallersOf(k)' = DiallersOf(k)
  BY DEF DiallersOf
<1>2. Flights'
  BY <1>1 DEF Flights
<1>3. Reservations'
  BY <1>1 DEF Reservations, DiallersOf
<1>4. Dialling' = Dialling
  BY DEF Dialling
<1> QED BY <1>2, <1>3, <1>4

\* beginFallbackDial: one more caller dials key k.
LEMMA OneMore ==
    ASSUME TypeOK, Flights, Reservations, NEW s \in Callers, NEW k \in DialKeys,
           s \notin InFlight, InFlight' = InFlight \cup {s}, Key(s)' = k,
           \A t \in InFlight : Key(t)' = Key(t),
           dials' = [dials EXCEPT ![k] = @ + 1]
    PROVE  Flights' /\ Reservations' /\ Dialling' = [Dialling EXCEPT ![s] = k]
<1>1. /\ DiallersOf(k)' = DiallersOf(k) \cup {s} /\ s \notin DiallersOf(k)
      /\ \A j \in DialKeys \ {k} : DiallersOf(j)' = DiallersOf(j)
  BY DEF DiallersOf
<1>2. /\ IsFiniteSet(DiallersOf(k)')
      /\ Cardinality(DiallersOf(k)') = Cardinality(DiallersOf(k)) + 1
  BY <1>1, FS_AddElement DEF Flights
<1>3. Flights'
  BY <1>1, <1>2 DEF Flights
<1>4. Reservations'
  <2>1. \A j \in DialKeys : dials'[j] = IF j = k THEN dials[k] + 1 ELSE dials[j]
    BY DEF TypeOK
  <2> QED BY <1>1, <1>2, <2>1 DEF Reservations, DiallersOf
<1>5. Dialling' = [Dialling EXCEPT ![s] = k]
  BY DEF Dialling, InFlight
<1> QED BY <1>3, <1>4, <1>5

\* finishFallbackDial: one caller less dials key k, and the counter was not 0.
LEMMA OneLess ==
    ASSUME TypeOK, Flights, Reservations, NEW s \in InFlight, NEW e, FinishDial(Key(s), e),
           InFlight' = InFlight \ {s}, \A t \in InFlight' : Key(t)' = Key(t)
    PROVE  Flights' /\ Reservations' /\ Dialling' = [Dialling EXCEPT ![s] = None]
<1>1. PICK k \in DialKeys : k = Key(s)
  BY DEF Flights
<1>2. /\ DiallersOf(k)' = DiallersOf(k) \ {s} /\ s \in DiallersOf(k)
      /\ \A j \in DialKeys \ {k} : DiallersOf(j)' = DiallersOf(j)
  BY <1>1 DEF DiallersOf
<1>3. /\ IsFiniteSet(DiallersOf(k)')
      /\ Cardinality(DiallersOf(k)') = Cardinality(DiallersOf(k)) - 1
  BY <1>1, <1>2, FS_RemoveElement DEF Flights
<1>4. Flights'
  BY <1>2, <1>3 DEF Flights
<1>5. Reservations'
  <2>1. Cardinality(DiallersOf(k)) \in Nat /\ Cardinality(DiallersOf(k)') \in Nat
    BY <1>1, <1>3, FS_CardinalityType DEF Flights
  <2>2. dials[k] = Cardinality(DiallersOf(k))
    BY <1>1 DEF Reservations, DiallersOf
  <2>3. \A j \in DialKeys : dials'[j] = IF j = k THEN dials[k] - 1 ELSE dials[j]
    BY <1>1, <1>3, <2>1, <2>2 DEF TypeOK, FinishDial
  <2> QED BY <1>2, <1>3, <2>2, <2>3 DEF Reservations, DiallersOf
<1>6. Dialling' = [Dialling EXCEPT ![s] = None]
  BY DEF Dialling, InFlight
<1> QED BY <1>4, <1>5, <1>6

\* The instance of Permits counts with a copy of Cardinality.
LEMMA SameCardinality == \A S : Semaphore!Cardinality(S) = Cardinality(S)
BY DEF Semaphore!Cardinality, Cardinality

-----------------------------------------------------------------------------
(* The callers *)

\* The variables of a caller that leaves the loop keep their types, and those
\* of the other callers their values.
LEMMA LeaveFacts ==
    ASSUME TypeOK, NEW s \in Callers, NEW l \in {"idle", "using"}, Leave(s, l)
    PROVE  /\ pc' \in [Callers -> {"idle", "next", "dial", "write", "promote", "using"}]
           /\ worker' \in [Callers -> BOOLEAN] /\ dc' \in [Callers -> DCs \cup {None}]
           /\ todo' \in [Callers -> SUBSET (CFDomains \cup WorkerDomains)]
           /\ head' \in [Callers -> CFDomains \cup {None}]
           /\ cur' \in [Callers -> CFDomains \cup WorkerDomains \cup {None}]
           /\ attempts' \in [Callers -> 0..MaxAttempts]
           /\ InFlight' = InFlight \ {s}
           /\ \A t \in Callers : t # s => Key(t)' = Key(t)
<1>1. 0 \in 0..MaxAttempts
  BY DomainAssumption
<1>2. InFlight' = InFlight \ {s} /\ \A t \in Callers : t # s => Key(t)' = Key(t)
  BY DEF Leave, TypeOK, InFlight, Key
<1> QED BY <1>1, <1>2 DEF Leave, TypeOK

\* A caller that is not in flight enters or returns.
LEMMA ComeAndGo ==
    ASSUME IInv, NEW s \in Callers,
           (\E d \in DCs : StartCF(s, d)) \/ StartWorker(s) \/ GiveUp(s) \/ Release(s)
    PROVE  IInv' /\ Dialling' = Dialling
<1> USE DEF IInv, StartCF, StartWorker, GiveUp, Release, Leave, lists, caller
<1>1. s \notin InFlight /\ InFlight' = InFlight
  BY DEF InFlight, TypeOK
<1>2. \A t \in InFlight : Key(t)' = Key(t)
  <2> TAKE t \in InFlight
  <2>1. t \in Callers /\ t # s
    BY <1>1 DEF InFlight
  <2> QED BY <2>1 DEF Key, TypeOK
<1>3. Flights' /\ Reservations' /\ Dialling' = Dialling
  BY <1>1, <1>2, SameFlights
<1>4. TypeOK'
  <2>1. ForTry \subseteq CFDomains
    BY DEF ForTry, TypeOK
  <2>2. CASE \E d \in DCs : StartCF(s, d)
    BY <2>1, <2>2 DEF TypeOK
  <2>3. CASE StartWorker(s)
    BY <2>3 DEF TypeOK
  <2>4. CASE GiveUp(s) \/ Release(s)
    <3> HIDE DEF Leave
    <3>1. CASE GiveUp(s)
      BY <3>1, LeaveFacts DEF TypeOK
    <3>2. CASE Release(s)
      BY <3>2 DEF TypeOK
    <3> QED BY <2>4, <3>1, <3>2
  <2> QED BY <2>2, <2>3, <2>4
<1>5. ActiveListed'
  BY DEF ActiveListed
<1> QED BY <1>3, <1>4, <1>5

\* One round of the loop: a domain is reserved, or passed over.
LEMMA BeginInv ==
    ASSUME IInv, NEW s \in Callers, Begin(s)
    PROVE  IInv' /\ (Semaphore!Next \/ Dialling' = Dialling)
<1> USE DEF IInv, Begin, lists, caller, Rest
<1>1. PICK x \in Candidates(s) :
        /\ todo' = [todo EXCEPT ![s] = Rest(s, x)]
        /\ IF MayDial(x, worker[s])
           THEN /\ dials' = [dials EXCEPT ![<<x, worker[s]>>] = @ + 1]
                /\ cur' = [cur EXCEPT ![s] = x]
                /\ attempts' = IF worker[s] THEN attempts ELSE [attempts EXCEPT ![s] = @ + 1]
                /\ pc' = [pc EXCEPT ![s] = "dial"]
           ELSE UNCHANGED <<dials, cur, attempts, pc>>
  OBVIOUS
<1>2. todo' \in [Callers -> SUBSET (CFDomains \cup WorkerDomains)] /\ ActiveListed'
  BY <1>1 DEF TypeOK, ActiveListed
<1>3. CASE ~MayDial(x, worker[s])
  <2>1. TypeOK' /\ InFlight' = InFlight /\ \A t \in InFlight : Key(t)' = Key(t)
    BY <1>1, <1>2, <1>3 DEF TypeOK, InFlight, Key
  <2> QED BY <1>1, <1>2, <1>3, <2>1, SameFlights
<1>4. CASE MayDial(x, worker[s])
  <2>1. PICK k \in DialKeys : k = <<x, worker[s]>>
    BY <1>4 DEF MayDial, Listed, DialKeys, TypeOK
  <2>2. x \in CFDomains \cup WorkerDomains
    BY <1>4 DEF MayDial, Listed, TypeOK
  <2>3. TypeOK'
    <3>1. dials' \in [DialKeys -> Nat]
      BY <1>1, <1>4, <2>1 DEF TypeOK
    <3>2. attempts' \in [Callers -> 0..MaxAttempts]
      <4>1. MaxAttempts \in Nat /\ worker[s] \in BOOLEAN
        BY DomainAssumption DEF TypeOK
      <4>2. CASE worker[s]
        BY <1>1, <1>4, <4>2 DEF TypeOK
      <4>3. CASE ~worker[s]
        <5>1. attempts[s] + 1 \in 0..MaxAttempts
          <6>1. attempts[s] \in 0..MaxAttempts
            BY DEF TypeOK
          <6>2. attempts[s] # MaxAttempts
            BY <4>3 DEF Exhausted
          <6> HIDE DEF IInv, Begin
          <6> QED BY <4>1, <6>1, <6>2
        <5> QED BY <1>1, <1>4, <4>3, <5>1 DEF TypeOK
      <4> QED BY <4>1, <4>2, <4>3
    <3>3. cur' \in [Callers -> CFDomains \cup WorkerDomains \cup {None}]
      BY <1>1, <1>4, <2>2 DEF TypeOK
    <3> QED BY <1>1, <1>2, <1>4, <3>1, <3>2, <3>3 DEF TypeOK
  <2>4. s \notin InFlight /\ InFlight' = InFlight \cup {s}
    BY <1>1, <1>4 DEF InFlight, TypeOK
  <2>5. Key(s)' = k /\ \A t \in InFlight : Key(t)' = Key(t)
    <3>1. \A t \in InFlight : t \in Callers /\ t # s
      BY <2>4 DEF InFlight
    <3> QED BY <1>1, <1>4, <2>1, <3>1 DEF Key, TypeOK
  <2>6. Flights' /\ Reservations' /\ Dialling' = [Dialling EXCEPT ![s] = k]
    BY <1>1, <1>4, <2>1, <2>4, <2>5, OneMore
  <2>7. Semaphore!Acquire(s, k)
    <3>1. Dialling[s] = None
      BY <2>4 DEF Dialling
    <3>2. Semaphore!HoldersOf(k) = DiallersOf(k)
      BY DomainAssumption DEF Semaphore!HoldersOf, DiallersOf, Dialling, InFlight
    <3>3. Cardinality(DiallersOf(k)) < MaxDials
      BY <1>4, <2>1 DEF MayDial, Reservations, DiallersOf
    <3> QED BY <2>6, <3>1, <3>2, <3>3, SameCardinality DEF Semaphore!Acquire
  <2> QED BY <1>2, <2>3, <2>6, <2>7 DEF Semaphore!Next
<1> QED BY <1>3, <1>4

\* The dial or the init write ends: the reservation is given back, once.
LEMMA FinishInv ==
    ASSUME IInv, NEW s \in Callers, Fail(s) \/ WriteOk(s)
    PROVE  IInv' /\ Semaphore!Next
<1> USE DEF IInv, Fail, WriteOk, lists, caller
<1>1. PICK e \in {"nil", "fail", "cancel"} : FinishDial(Key(s), e)
  BY DEF Failed
<1>2. s \in InFlight /\ InFlight' = InFlight \ {s}
  BY LeaveFacts DEF InFlight, TypeOK
<1>3. \A t \in InFlight' : Key(t)' = Key(t)
  <2> TAKE t \in InFlight'
  <2>1. t \in Callers /\ t # s
    BY <1>2 DEF InFlight
  <2> QED BY <2>1, LeaveFacts DEF Key, TypeOK
<1>4. Flights' /\ Reservations' /\ Dialling' = [Dialling EXCEPT ![s] = None]
  BY <1>1, <1>2, <1>3, OneLess
<1>5. TypeOK'
  <2>1. dials' \in [DialKeys -> Nat] /\ cooling' \subseteq DialKeys
    BY <1>1, <1>2 DEF FinishDial, Flights, TypeOK
  <2> QED BY <2>1, LeaveFacts DEF TypeOK
<1>6. ActiveListed'
  BY DEF ActiveListed
<1>7. Semaphore!Release(s)
  BY <1>2, <1>4, DomainAssumption DEF Semaphore!Release, Dialling, Flights
<1> QED BY <1>4, <1>5, <1>6, <1>7 DEF Semaphore!Next

\* The connection is there; the reservation stays until the init is written.
LEMMA DialOkInv ==
    ASSUME IInv, NEW s \in Callers, DialOk(s)
    PROVE  IInv' /\ Dialling' = Dialling
<1> USE DEF IInv, DialOk, lists, caller
<1>1. InFlight' = InFlight /\ \A t \in InFlight : Key(t)' = Key(t)
  BY DEF InFlight, Key, TypeOK
<1>2. TypeOK' /\ ActiveListed'
  BY DEF TypeOK, ActiveListed
<1> QED BY <1>1, <1>2, SameFlights

-----------------------------------------------------------------------------
(* The lists *)

\* promoteCFProxyDomain looks at the list as it is now.
LEMMA PromoteInv ==
    ASSUME IInv, NEW s \in Callers, Promote(s)
    PROVE  IInv' /\ Dialling' = Dialling
<1> USE DEF IInv, Promote, Promotable, caller
<1>1. InFlight' = InFlight /\ \A t \in InFlight : Key(t)' = Key(t)
  <2>1. s \notin InFlight
    BY DEF InFlight
  <2> QED BY <2>1, LeaveFacts DEF InFlight
<1>2. TypeOK'
  BY LeaveFacts DEF TypeOK
<1>3. ActiveListed'
  BY DomainAssumption DEF ActiveListed, TypeOK
<1> QED BY <1>1, <1>2, <1>3, SameFlights

\* setCFProxyDomains, the clock and the shutdown.
LEMMA OtherInv ==
    ASSUME IInv, RefreshRound \/ (\E k \in DialKeys : Warm(k)) \/ Cancel
    PROVE  IInv' /\ Dialling' = Dialling
<1> USE DEF IInv, RefreshRound, Refresh, Fetched, Warm, Cancel, lists, caller
<1>1. InFlight' = InFlight /\ \A t \in InFlight : Key(t)' = Key(t)
  BY DEF InFlight, Key
<1>2. TypeOK'
  BY DEF TypeOK
<1>3. ActiveListed'
  BY DEF ActiveListed, TypeOK
<1> QED BY <1>1, <1>2, <1>3, SameFlights

-----------------------------------------------------------------------------
(* The theorems *)

\* A step keeps the invariant and is a step of the semaphore, or none.
LEMMA StepInv ==
    ASSUME IInv, [Next]_vars
    PROVE  IInv' /\ [Semaphore!Next]_Dialling
<1>1. CASE UNCHANGED vars
  <2> USE <1>1 DEF vars, lists, caller, IInv
  <2>1. InFlight' = InFlight /\ \A t \in InFlight : Key(t)' = Key(t)
    BY DEF InFlight, Key
  <2>2. TypeOK' /\ ActiveListed'
    BY DEF TypeOK, ActiveListed
  <2> QED BY <2>1, <2>2, SameFlights
<1>2. CASE Next
  BY <1>2, ComeAndGo, BeginInv, FinishInv, DialOkInv, PromoteInv, OtherInv DEF Next, Step
<1> QED BY <1>1, <1>2

\* At the start nobody is dialling.
LEMMA InitInv ==
    ASSUME Init
    PROVE  IInv /\ Semaphore!Init
<1> USE DEF Init
<1>1. TypeOK
  <2>1. 0 \in 0..MaxAttempts
    BY DomainAssumption
  <2>2. perDC \in [DCs -> CFDomains \cup {None}]
    BY DEF Choices
  <2> QED BY <2>1, <2>2 DEF TypeOK
<1>2. InFlight = {}
  BY DEF InFlight
<1>3. Flights /\ Reservations
  <2>1. \A k \in DialKeys : DiallersOf(k) = {}
    BY <1>2 DEF DiallersOf
  <2> QED BY <1>2, <2>1, FS_EmptySet DEF Flights, Reservations, DiallersOf
<1>4. ActiveListed
  BY DomainAssumption DEF ActiveListed, Choices
<1>5. Semaphore!Init
  BY <1>2 DEF Semaphore!Init, Dialling
<1> QED BY <1>1, <1>3, <1>4, <1>5 DEF IInv

\* The invariant holds of every behaviour of the fallback.
THEOREM Invariant == Spec => []IInv
<1>1. Init => IInv
  BY InitInv
<1>2. IInv /\ [Next]_vars => IInv'
  BY StepInv
<1> QED BY <1>1, <1>2, PTL DEF Spec

\* fallbackDials counts the dials in flight: no failure, cancellation or
\* refresh loses a place or frees one twice.
THEOREM ReservationsCounted == Spec => []Reservations
<1>1. IInv => Reservations
  BY DEF IInv
<1> QED BY <1>1, Invariant, PTL

\* No refresh leaves a domain active that the list no longer has, and no
\* promotion brings one back.
THEOREM ActiveIsListed == Spec => []ActiveListed
<1>1. IInv => ActiveListed
  BY DEF IInv
<1> QED BY <1>1, Invariant, PTL

\* The fallbackDials counters, checked and changed in critical sections of
\* their own, implement a limit of MaxDials simultaneous dials per key.
THEOREM DialsAreLimited == Spec => LimitsDials
<1>1. Init => Semaphore!Init
  BY InitInv
<1>2. IInv /\ [Next]_vars => [Semaphore!Next]_Dialling
  BY StepInv
<1> QED BY <1>1, <1>2, Invariant, PTL DEF Spec, LimitsDials, Semaphore!Spec
=============================================================================
