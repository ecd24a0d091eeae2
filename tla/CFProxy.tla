------------------------------- MODULE CFProxy -------------------------------
(***************************************************************************)
(* The Cloudflare fallback (cfproxy_domains.go, cfproxyFallback and        *)
(* connectWorker): sessions and pool refills try the domains of a list one *)
(* after the other, with at most MaxDials dials of a domain at a time and  *)
(* a cooldown for domains that failed, while a background refresh replaces *)
(* the list.                                                               *)
(*                                                                         *)
(* A caller takes a snapshot of the list, then reserves, dials, writes the *)
(* relay init, gives the reservation back and, on the CF path, promotes    *)
(* the domain: five critical sections of cfproxyMu with network calls in   *)
(* between.  "worker" callers use the fixed list of worker domains with    *)
(* cooldowns and counters of their own.  A cooldown is a set membership    *)
(* the clock ends; a shuffled list is a set of which any member may come   *)
(* next.  Faulty variants are named Bad..., as in WSPool.                  *)
(***************************************************************************)
EXTENDS Naturals, FiniteSets

CONSTANTS CFDomains,      \* every domain a refresh may deliver
          WorkerDomains,  \* cfg.FallbackCFProxyWorkerDomains
          DCs,            \* the DCs sessions ask for
          KnownDCs,       \* the values of cfProxyKnownDCs to be looked at
          Callers,        \* sessions and refill goroutines
          MaxDials,       \* fallbackMaxDialsPerDomain
          MaxAttempts,    \* cfProxyMaxAttempts
          MinValid,       \* defaultCFProxyRefreshMinValidDomains
          None            \* the empty string

\* fallbackDialKey: a domain and whether it is used as a worker.
DialKeys == (CFDomains \X {FALSE}) \cup (WorkerDomains \X {TRUE})

ASSUME DomainAssumption == /\ KnownDCs \subseteq SUBSET DCs
                           /\ None \notin CFDomains \cup WorkerDomains
                           /\ None \notin DialKeys
                           /\ MaxDials \in Nat \ {0}
                           /\ MaxAttempts \in Nat \ {0}
                           /\ MinValid \in Nat \ {0}

VARIABLES
    known,      \* cfProxyKnownDCs, which never changes
    domains,    \* cfg.FallbackCFProxyDomains
    active,     \* cfg.FallbackCFProxyActive
    perDC,      \* cfg.FallbackCFProxyPerDCActive; None where there is no entry
    cooling,    \* the keys before their cfproxyFailUntil or cfworkerFailUntil
    dials,      \* cfg.fallbackDials
    cancelled,  \* the callers' context is done (the server's, and the worker
                \* pool's, which the server's cancels)
    pc,         \* next step of each caller
    worker,     \* caller: connectWorker rather than cfproxyFallback
    dc,         \* caller: its DC
    todo,       \* caller: the domains of its snapshot still to be tried
    head,       \* caller: the domain that comes first; None once looked at
    cur,        \* caller: the domain it is dialling
    attempts    \* caller: cfproxyFallback's attempts

lists == <<known, domains, active, perDC>>
caller == <<worker, dc>>
vars == <<lists, cooling, dials, cancelled, pc, caller, todo, head, cur, attempts>>

Key(s) == <<cur[s], worker[s]>>
InFlight == {s \in Callers : pc[s] \in {"dial", "write"}}

\* setCFProxyDomains and the configuration before it leave every known DC
\* with some domain of the list.
Choices(D) == {f \in [DCs -> D \cup {None}] : \A d \in known : f[d] # None}

Init ==
    /\ known \in KnownDCs
    /\ domains \in SUBSET CFDomains \ {{}}
    /\ active \in domains
    /\ perDC \in {f \in Choices(domains) : \A d \in DCs \ known : f[d] = None}
    /\ cooling = {}
    /\ dials = [k \in DialKeys |-> 0]
    /\ cancelled = FALSE
    /\ pc = [s \in Callers |-> "idle"]
    /\ worker = [s \in Callers |-> FALSE]
    /\ dc = [s \in Callers |-> None]
    /\ todo = [s \in Callers |-> {}]
    /\ head = [s \in Callers |-> None]
    /\ cur = [s \in Callers |-> None]
    /\ attempts = [s \in Callers |-> 0]

\* cfproxyDomainsForTry: the domains that are not cooling down, the active one
\* of the DC (or else of all DCs) first.
ForTry == {x \in domains : <<x, FALSE>> \notin cooling}
ActiveFor(d) == IF perDC[d] # None THEN perDC[d] ELSE active

\* A session enters cfproxyFallback and takes its snapshot.
StartCF(s, d) ==
    /\ pc[s] = "idle"
    /\ pc' = [pc EXCEPT ![s] = "next"]
    /\ worker' = [worker EXCEPT ![s] = FALSE]
    /\ dc' = [dc EXCEPT ![s] = d]
    /\ todo' = [todo EXCEPT ![s] = ForTry]
    /\ head' = [head EXCEPT ![s] = IF ActiveFor(d) \in ForTry THEN ActiveFor(d) ELSE None]
    /\ UNCHANGED <<lists, cooling, dials, cancelled, cur, attempts>>

\* A session or a refill goroutine enters connectWorker.
StartWorker(s) ==
    /\ pc[s] = "idle"
    /\ pc' = [pc EXCEPT ![s] = "next"]
    /\ worker' = [worker EXCEPT ![s] = TRUE]
    /\ todo' = [todo EXCEPT ![s] = WorkerDomains]
    /\ UNCHANGED <<lists, cooling, dials, cancelled, dc, head, cur, attempts>>

\* The domain the loop looks at next.
Candidates(s) == IF head[s] # None THEN {head[s]} ELSE todo[s]

\* The caller leaves the loop: its local variables are used no more.
Leave(s, l) ==
    /\ pc' = [pc EXCEPT ![s] = l]
    /\ worker' = [worker EXCEPT ![s] = FALSE]
    /\ dc' = [dc EXCEPT ![s] = None]
    /\ todo' = [todo EXCEPT ![s] = {}]
    /\ head' = [head EXCEPT ![s] = None]
    /\ cur' = [cur EXCEPT ![s] = None]
    /\ attempts' = [attempts EXCEPT ![s] = 0]

\* cfproxyFallback made all the dials it may.
Exhausted(s) == ~worker[s] /\ attempts[s] = MaxAttempts

\* The loop ends without a connection: no domain left, shutdown, or, on the CF
\* path, MaxAttempts dials made.
GiveUp(s) ==
    /\ pc[s] = "next"
    /\ \/ todo[s] = {}
       \/ cancelled
       \/ Exhausted(s)
    /\ Leave(s, "idle")
    /\ UNCHANGED <<lists, cooling, dials, cancelled>>

\* beginFallbackDial's condition, on the lists as they are now.
Listed(x, w) == IF w THEN x \in WorkerDomains ELSE x \in domains
BadMayDial(x, w) == Listed(x, w) /\ <<x, w>> \notin cooling      \* no limit
MayDial(x, w) == /\ Listed(x, w)
                 /\ <<x, w>> \notin cooling
                 /\ dials[<<x, w>>] < MaxDials

\* The rest of the snapshot once domain x was looked at.
BadRest(s, x) == IF MayDial(x, worker[s]) THEN todo[s] \ {x} ELSE todo[s]   \* retried
Rest(s, x) == todo[s] \ {x}

\* One round of the loop up to beginFallbackDial.
Begin(s) ==
    /\ pc[s] = "next"
    /\ ~cancelled
    /\ ~Exhausted(s)
    /\ head' = [head EXCEPT ![s] = None]
    /\ \E x \in Candidates(s) :
         /\ todo' = [todo EXCEPT ![s] = Rest(s, x)]
         /\ IF MayDial(x, worker[s])
            THEN /\ dials' = [dials EXCEPT ![<<x, worker[s]>>] = @ + 1]
                 /\ cur' = [cur EXCEPT ![s] = x]
                 /\ attempts' = IF worker[s] THEN attempts
                                ELSE [attempts EXCEPT ![s] = @ + 1]
                 /\ pc' = [pc EXCEPT ![s] = "dial"]
            ELSE UNCHANGED <<dials, cur, attempts, pc>>
    /\ UNCHANGED <<lists, cooling, cancelled, caller>>

\* The counters and the cooldowns after finishFallbackDial(k, e).
BadFinishDial(k, e) ==                    \* a cancelled dial keeps its place
    /\ dials' = IF e = "cancel" THEN dials ELSE [dials EXCEPT ![k] = @ - 1]
    /\ cooling' = IF e = "nil" THEN cooling \ {k} ELSE cooling \cup {k}
FinishDial(k, e) ==
    /\ dials' = [dials EXCEPT ![k] = IF @ <= 1 THEN 0 ELSE @ - 1]
    /\ cooling' = CASE e = "cancel" -> cooling
                    [] e = "nil" -> cooling \ {k}
                    [] e = "fail" -> cooling \cup {k}

\* A dial or an init write fails; after the shutdown its error counts as a
\* cancellation unless the dial had failed by itself before.  The next domain
\* is tried.
Failed == IF cancelled THEN {"fail", "cancel"} ELSE {"fail"}
Fail(s) ==
    /\ s \in InFlight
    /\ \E e \in Failed : FinishDial(Key(s), e)
    /\ pc' = [pc EXCEPT ![s] = "next"]
    /\ cur' = [cur EXCEPT ![s] = None]
    /\ UNCHANGED <<lists, cancelled, caller, todo, head, attempts>>

DialOk(s) ==
    /\ pc[s] = "dial"
    /\ pc' = [pc EXCEPT ![s] = "write"]
    /\ UNCHANGED <<lists, cooling, dials, cancelled, caller, todo, head, cur, attempts>>

\* The init is written and the context still alive: the dial is accounted as
\* a success.
WriteOk(s) ==
    /\ pc[s] = "write"
    /\ ~cancelled
    /\ FinishDial(Key(s), "nil")
    /\ IF worker[s] THEN Leave(s, "using")
       ELSE /\ pc' = [pc EXCEPT ![s] = "promote"]
            /\ UNCHANGED <<caller, todo, head, cur, attempts>>
    /\ UNCHANGED <<lists, cancelled>>

\* promoteCFProxyDomain, in a critical section of its own: the list may have
\* been replaced since the dial.
BadPromotable(x) == TRUE                            \* membership not checked
Promotable(x) == x \in domains
Promote(s) ==
    /\ pc[s] = "promote"
    /\ IF Promotable(cur[s])
       THEN /\ perDC' = [perDC EXCEPT ![dc[s]] = cur[s]]
            /\ active' = cur[s]
            /\ cooling' = cooling \ {<<cur[s], FALSE>>}
       ELSE UNCHANGED <<perDC, active, cooling>>
    /\ Leave(s, "using")
    /\ UNCHANGED <<known, domains, dials, cancelled>>

\* The bridge ends.
Release(s) ==
    /\ pc[s] = "using"
    /\ pc' = [pc EXCEPT ![s] = "idle"]
    /\ UNCHANGED <<lists, cooling, dials, cancelled, caller, todo, head, cur, attempts>>

\* The lists fetchCFProxyDomains delivers: decoded, checked, without repetitions,
\* and of at least MinValid domains.  Any other answer changes nothing.
Fetched == {D \in SUBSET CFDomains : Cardinality(D) >= MinValid}

\* setCFProxyDomains with list D.
Refresh(D) ==
    /\ domains' = D
    /\ active' \in D
    /\ perDC' \in {f \in [DCs -> CFDomains \cup {None}] :
                     /\ \A d \in known : f[d] \in D
                     /\ \A d \in DCs \ known : f[d] = perDC[d]}
    /\ cooling' = {k \in cooling : k[2] \/ k[1] \in D}
    /\ UNCHANGED <<known, dials, cancelled, pc, caller, todo, head, cur, attempts>>

\* A round of the refresh goroutine that got a list; any other round changes
\* nothing.
RefreshRound == \E D \in Fetched : Refresh(D)

\* A cooldown ends.
Warm(k) ==
    /\ k \in cooling
    /\ cooling' = cooling \ {k}
    /\ UNCHANGED <<lists, dials, cancelled, pc, caller, todo, head, cur, attempts>>

Cancel ==
    /\ ~cancelled
    /\ cancelled' = TRUE
    /\ UNCHANGED <<lists, cooling, dials, pc, caller, todo, head, cur, attempts>>

Step(s) == GiveUp(s) \/ Begin(s) \/ Fail(s) \/ DialOk(s) \/ WriteOk(s) \/ Promote(s)

Next == \/ \E s \in Callers : \/ \E d \in DCs : StartCF(s, d)
                              \/ StartWorker(s)
                              \/ Step(s)
                              \/ Release(s)
        \/ RefreshRound
        \/ \E k \in DialKeys : Warm(k)
        \/ Cancel

Spec == Init /\ [][Next]_vars

\* Dials and writes have deadlines (wsConnectTimeout, wsWriteTimeout).
FairSpec == Spec /\ \A s \in Callers : WF_vars(Step(s))

-----------------------------------------------------------------------------
(* Properties *)

\* The variables have their types; a caller makes at most MaxAttempts dials on
\* the CF path.
TypeOK ==
    /\ known \in KnownDCs
    /\ domains \subseteq CFDomains
    /\ active \in CFDomains
    /\ perDC \in [DCs -> CFDomains \cup {None}]
    /\ cooling \subseteq DialKeys
    /\ dials \in [DialKeys -> Nat]
    /\ cancelled \in BOOLEAN
    /\ pc \in [Callers -> {"idle", "next", "dial", "write", "promote", "using"}]
    /\ worker \in [Callers -> BOOLEAN]
    /\ dc \in [Callers -> DCs \cup {None}]
    /\ todo \in [Callers -> SUBSET (CFDomains \cup WorkerDomains)]
    /\ head \in [Callers -> CFDomains \cup {None}]
    /\ cur \in [Callers -> CFDomains \cup WorkerDomains \cup {None}]
    /\ attempts \in [Callers -> 0..MaxAttempts]

\* The counter of a key is the number of callers that are dialling it: no
\* failure, cancellation or refresh in between loses a place or frees one
\* twice.
Reservations ==
    \A k \in DialKeys : dials[k] = Cardinality({s \in InFlight : Key(s) = k})

\* A refresh that comes between a dial and its promotion never makes a domain
\* active that the list no longer has: the active domain, and the one of every
\* known DC, can be tried.
ActiveListed == active \in domains /\ \A d \in known : perDC[d] \in domains

\* What each caller is dialling.
Dialling == [s \in Callers |-> IF s \in InFlight THEN Key(s) ELSE None]
Semaphore == INSTANCE Permits WITH Users <- Callers, Resources <- DialKeys,
                                   Limit <- MaxDials, Nothing <- None,
                                   holds <- Dialling

\* The fallbackDials counters implement a limit of MaxDials simultaneous dials
\* per domain and kind.
LimitsDials == Semaphore!Spec

\* A caller that entered the fallback gets a connection or an error.
Answered == \A s \in Callers : pc[s] = "next" ~> pc[s] \in {"idle", "using"}
=============================================================================
