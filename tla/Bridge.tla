------------------------------- MODULE Bridge -------------------------------
(***************************************************************************)
(* bridgeWS and the relay of tcpFallback (transport.go), with the idle     *)
(* watchdog, the progress observer and the first-read handoff of pooledWS: *)
(* the goroutines that carry one session's bytes between the client and    *)
(* its upstream and must all be gone when the call returns.                *)
(*                                                                         *)
(* An upstream is "pooled" (a pooledWS), "cf" (a WebSocket dialled by      *)
(* cfproxyFallback), "worker" (one without a splitter) or "tcp".           *)
(*                                                                         *)
(* Bytes are counted, not kept: what a pump read, what it has still to add *)
(* to the statistics, what the splitter holds back (any number of bytes:   *)
(* the splitter itself is in DataPath) and what was written.  Messages     *)
(* without data and the message boundaries of the WebSocket change none of *)
(* this and are left out.  Faulty variants are named Bad..., as in WSPool. *)
(***************************************************************************)
EXTENDS Naturals, Sequences

CONSTANTS Kinds,        \* the kinds of upstream that occur
          Verbose,      \* the values of cfg.Verbose that occur
          MaxBytes,     \* bound on the bytes each peer sends
          FlushBytes    \* statsFlushBytes

ASSUME BridgeAssumption == /\ Kinds \subseteq {"pooled", "cf", "worker", "tcp"}
                           /\ Verbose \subseteq BOOLEAN
                           /\ MaxBytes \in Nat
                           /\ FlushBytes \in Nat \ {0}

Ends == {"client", "upstream"}
Pumps == {"up", "down"}
Closers == {"main", "dog", "after"}     \* who closes both ends

VARIABLES
    kind,       \* the upstream of this session
    cancelled,  \* cfg.context() is done
    gone,       \* the ends whose peer has hung up
    sock,       \* each end: "open", or "closed" by us
    first,      \* pooledWS: "idle" while its reader runs, then "data" or
                \* "error"; "taken" once the bridge has the result
    pc,         \* next step of each pump
    got,        \* bytes each pump has read
    pend,       \* upPending, downPending
    stat,       \* what was added to stats.bytesUp, stats.bytesDown
    out,        \* bytes each pump has in hand, to be written
    err,        \* up: the error that came with the last read
    held,       \* bytes in the splitter's plainBuf
    sent,       \* bytes each pump has written
    broken,     \* the pumps one of whose writes failed
    tokens,     \* the number of messages in the done channel
    stop,       \* stopIdleWatchdog is closed
    idle,       \* ioIdleTimeout has passed since lastActivity
    dog,        \* runIdleWatchdog: next step
    obs,        \* observeWSProgress: next step
    after,      \* the AfterFunc: its state
    main,       \* the caller: next step
    todo        \* the steps each closer has still to take

ends == <<kind, cancelled, gone, sock, first>>
bytes == <<got, pend, stat, out, err, held, sent, broken>>
control == <<tokens, stop, dog, obs, after, main, todo>>
vars == <<ends, pc, bytes, idle, control>>

Splits == kind \in {"pooled", "cf"}               \* a splitter was passed

Init ==
    /\ kind \in Kinds
    /\ cancelled \in BOOLEAN
    /\ gone = {}
    /\ sock = [e \in Ends |-> "open"]
    /\ first \in IF kind = "pooled" THEN {"idle", "data"} ELSE {"taken"}
    /\ pc = [p \in Pumps |-> "read"]
    /\ got = [p \in Pumps |-> 0]
    /\ pend = [p \in Pumps |-> 0]
    /\ stat = [p \in Pumps |-> 0]
    /\ out = [p \in Pumps |-> 0]
    /\ err = FALSE
    /\ held = 0
    /\ sent = [p \in Pumps |-> 0]
    /\ broken = {}
    /\ tokens = 0
    /\ stop = FALSE
    /\ idle = FALSE
    /\ dog = "run"
    /\ \E v \in Verbose : obs = IF v /\ kind # "tcp" THEN "run" ELSE "done"
    /\ after = "armed"
    /\ main = "first"
    /\ todo = [c \in Closers |-> <<>>]

\* A read (once the data is used up) or a write of this end fails.
Down(e) == sock[e] = "closed" \/ e \in gone

-----------------------------------------------------------------------------
(* The pumps *)

Goto(p, l) == pc' = [pc EXCEPT ![p] = l]

\* The pending count once t bytes have been counted.
Remainder(t) == IF t >= FlushBytes THEN 0 ELSE t

\* n bytes were read: the activity is noted and the statistics updated.
Account(p, n) ==
    LET total == pend[p] + n IN
      /\ got' = [got EXCEPT ![p] = @ + n]
      /\ pend' = [pend EXCEPT ![p] = Remainder(total)]
      /\ stat' = [stat EXCEPT ![p] = IF total >= FlushBytes THEN @ + total ELSE @]
      /\ idle' = FALSE

\* The bytes the peer of pump p may still send.
Left(p) == 1..(MaxBytes - got[p])

\* The up pump reads from the client, perhaps with an error as well; the
\* splitter keeps the start of an incomplete packet.  Without a complete one
\* the loop goes round and meets the error again.
UpRead(n, keep) ==
    /\ pc["up"] = "read"
    /\ sock["client"] = "open"
    /\ keep <= held + n
    /\ keep > 0 => Splits
    /\ Account("up", n)
    /\ held' = keep
    /\ out' = [out EXCEPT !["up"] = held + n - keep]
    /\ Goto("up", IF held + n = keep THEN "read" ELSE "write")
    /\ err' \in IF "client" \in gone THEN BOOLEAN ELSE {FALSE}
    /\ UNCHANGED <<sent, broken, ends, control>>

UpReadError ==
    /\ pc["up"] = "read"
    /\ Down("client")
    /\ Goto("up", "flush")
    /\ UNCHANGED <<bytes, idle, ends, control>>

\* The write of what is in hand; it may fail at its deadline although the
\* upstream is there.
UpWrite ==
    /\ pc["up"] = "write"
    /\ out' = [out EXCEPT !["up"] = 0]
    /\ \/ /\ ~Down("upstream")
          /\ sent' = [sent EXCEPT !["up"] = @ + out["up"]]
          /\ Goto("up", IF err THEN "flush" ELSE "read")
          /\ UNCHANGED broken
       \/ /\ broken' = broken \cup {"up"}
          /\ Goto("up", "exit")
          /\ UNCHANGED sent
    /\ UNCHANGED <<got, pend, stat, err, held, idle, ends, control>>

\* The bytes the splitter gives up at the end of the stream.
BadLast == 0                                          \* they are dropped
Last == held

\* The client is done: flush, whose write error is ignored.
UpFlush ==
    /\ pc["up"] = "flush"
    /\ held' = 0
    /\ \/ /\ Last > 0 => ~Down("upstream")
          /\ sent' = [sent EXCEPT !["up"] = @ + Last]
          /\ UNCHANGED broken
       \/ /\ Last > 0
          /\ broken' = broken \cup {"up"}
          /\ UNCHANGED sent
    /\ Goto("up", "exit")
    /\ UNCHANGED <<got, pend, stat, out, err, idle, ends, control>>

\* The read newPooledWS started when the connection entered the pool returns.
FirstData ==
    /\ first = "idle"
    /\ sock["upstream"] = "open"
    /\ first' = "data"
    /\ UNCHANGED <<kind, cancelled, gone, sock, pc, bytes, idle, control>>

FirstError ==
    /\ first = "idle"
    /\ Down("upstream")
    /\ first' = "error"
    /\ UNCHANGED <<kind, cancelled, gone, sock, pc, bytes, idle, control>>

\* The down pump's first NextReader waits for that read and takes its result.
DownTake ==
    /\ pc["down"] = "read"
    /\ first \in {"data", "error"}
    /\ first' = "taken"
    /\ Goto("down", IF first = "data" THEN "read" ELSE "exit")
    /\ UNCHANGED <<kind, cancelled, gone, sock, bytes, idle, control>>

\* Data from the upstream: a part of the current message or of the next.
DownRead(n) ==
    /\ pc["down"] = "read"
    /\ first = "taken"
    /\ sock["upstream"] = "open"
    /\ Account("down", n)
    /\ out' = [out EXCEPT !["down"] = n]
    /\ Goto("down", "write")
    /\ UNCHANGED <<err, held, sent, broken, ends, control>>

DownReadError ==
    /\ pc["down"] = "read"
    /\ first = "taken"
    /\ Down("upstream")
    /\ Goto("down", "exit")
    /\ UNCHANGED <<bytes, idle, ends, control>>

DownWrite ==
    /\ pc["down"] = "write"
    /\ out' = [out EXCEPT !["down"] = 0]
    /\ \/ /\ ~Down("client")
          /\ sent' = [sent EXCEPT !["down"] = @ + out["down"]]
          /\ Goto("down", "read")
          /\ UNCHANGED broken
       \/ /\ broken' = broken \cup {"down"}
          /\ Goto("down", "exit")
          /\ UNCHANGED sent
    /\ UNCHANGED <<got, pend, stat, err, held, idle, ends, control>>

\* The deferred functions of a pump, the last one first: the pending bytes
\* are added to the statistics ...
Pending(p) == pend[p]
Exit(p) ==
    /\ pc[p] = "exit"
    /\ stat' = [stat EXCEPT ![p] = @ + Pending(p)]
    /\ pend' = [pend EXCEPT ![p] = 0]
    /\ Goto(p, "signal")
    /\ UNCHANGED <<got, out, err, held, sent, broken, idle, ends, control>>

\* ... and then the end is announced, on a channel with room for two.
Signal(p) ==
    /\ pc[p] = "signal"
    /\ tokens < 2
    /\ tokens' = tokens + 1
    /\ Goto(p, "done")
    /\ UNCHANGED <<bytes, idle, ends, stop, dog, obs, after, main, todo>>

-----------------------------------------------------------------------------
(* The caller, the watchdog and the AfterFunc: all three close both ends *)

\* pooledWS.Close closes the connection and waits for the first read to end.
BadCloseUpstream == IF kind = "pooled" THEN <<"await", "upstream">> ELSE <<"upstream">>
CloseUpstream == IF kind = "pooled" THEN <<"upstream", "await">> ELSE <<"upstream">>

\* tcpFallback closes the client first, except in its AfterFunc.
CloseBoth(c) == IF kind = "tcp" /\ c # "after" THEN <<"client", "upstream">>
                ELSE CloseUpstream \o <<"client">>

\* Closer c takes its next step.
CloseStep(c) ==
    /\ todo[c] # <<>>
    /\ IF Head(todo[c]) = "await"
       THEN first # "idle" /\ UNCHANGED sock
       ELSE sock' = [sock EXCEPT ![Head(todo[c])] = "closed"]
    /\ todo' = [todo EXCEPT ![c] = Tail(@)]
    /\ UNCHANGED <<kind, cancelled, gone, first, pc, bytes, idle, tokens, stop,
                   dog, obs, after, main>>

\* The first pump is done: the watchdog is stopped and both ends are closed.
MainFirst ==
    /\ main = "first"
    /\ tokens > 0
    /\ tokens' = tokens - 1
    /\ main' = "stop"
    /\ UNCHANGED <<ends, pc, bytes, idle, stop, dog, obs, after, todo>>

MainStop ==
    /\ main = "stop"
    /\ stop' = TRUE
    /\ todo' = [todo EXCEPT !["main"] = CloseBoth("main")]
    /\ main' = "second"
    /\ UNCHANGED <<ends, pc, bytes, idle, tokens, dog, obs, after>>

MainSecond ==
    /\ main = "second"
    /\ todo["main"] = <<>>
    /\ tokens > 0
    /\ tokens' = tokens - 1
    /\ main' = "join"
    /\ UNCHANGED <<ends, pc, bytes, idle, stop, dog, obs, after, todo>>

\* The watchdog and the observer are waited for; the deferred stop disarms the
\* AfterFunc, unless it has started.
BadJoined == obs = "done"                             \* the watchdog is not waited for
Joined == dog = "done" /\ obs = "done"
MainReturn ==
    /\ main = "join"
    /\ Joined
    /\ main' = "returned"
    /\ after' = IF after = "armed" THEN "stopped" ELSE after
    /\ UNCHANGED <<ends, pc, bytes, idle, tokens, stop, dog, obs, todo>>

\* What the watchdog does after a check that found activity.
BadAfterCheck == "done"                               \* one check only
AfterCheck == "run"

\* The ticker fires.
DogTick ==
    /\ dog = "run"
    /\ dog' = IF idle THEN "close" ELSE AfterCheck
    /\ todo' = IF idle THEN [todo EXCEPT !["dog"] = CloseBoth("dog")] ELSE todo
    /\ UNCHANGED <<ends, pc, bytes, idle, tokens, stop, obs, after, main>>

DogStop ==
    /\ dog = "run"
    /\ stop
    /\ dog' = "done"
    /\ UNCHANGED <<ends, pc, bytes, idle, tokens, stop, obs, after, main, todo>>

DogClosed ==
    /\ dog = "close"
    /\ todo["dog"] = <<>>
    /\ dog' = "done"
    /\ UNCHANGED <<ends, pc, bytes, idle, tokens, stop, obs, after, main, todo>>

Observe ==
    /\ obs = "run"
    /\ stop
    /\ obs' = "done"
    /\ UNCHANGED <<ends, pc, bytes, idle, tokens, stop, dog, after, main, todo>>

AfterFunc ==
    /\ after = "armed"
    /\ cancelled
    /\ after' = "started"
    /\ todo' = [todo EXCEPT !["after"] = CloseBoth("after")]
    /\ UNCHANGED <<ends, pc, bytes, idle, tokens, stop, dog, obs, main>>

-----------------------------------------------------------------------------
(* The environment, as long as the session lasts *)

HangUp(e) ==
    /\ main # "returned"
    /\ e \notin gone
    /\ gone' = gone \cup {e}
    /\ UNCHANGED <<kind, cancelled, sock, first, pc, bytes, idle, control>>

Cancel ==
    /\ main # "returned"
    /\ ~cancelled
    /\ cancelled' = TRUE
    /\ UNCHANGED <<kind, gone, sock, first, pc, bytes, idle, control>>

\* ioIdleTimeout passes without a byte.
Silence ==
    /\ main # "returned"
    /\ ~idle
    /\ idle' = TRUE
    /\ UNCHANGED <<ends, pc, bytes, control>>

-----------------------------------------------------------------------------
Receive == \/ \E n \in Left("up") : \E keep \in 0..MaxBytes : UpRead(n, keep)
           \/ \E n \in Left("down") : DownRead(n)
           \/ FirstData

Up == UpReadError \/ UpWrite \/ UpFlush \/ Exit("up") \/ Signal("up")
DownPump == DownTake \/ DownReadError \/ DownWrite \/ Exit("down") \/ Signal("down")
Main == MainFirst \/ MainStop \/ CloseStep("main") \/ MainSecond \/ MainReturn
Dog == DogTick \/ DogStop \/ CloseStep("dog") \/ DogClosed
After == AfterFunc \/ CloseStep("after")

Next == \/ Receive \/ Up \/ DownPump \/ FirstError
        \/ Main \/ Dog \/ Observe \/ After
        \/ \E e \in Ends : HangUp(e)
        \/ Cancel \/ Silence

Spec == Init /\ [][Next]_vars

\* Goroutines run; reads of a closed or abandoned socket return, writes have
\* deadlines, and the tickers tick.  Nobody has to send anything.
Fairness == /\ WF_vars(Up) /\ WF_vars(DownPump) /\ WF_vars(FirstError)
            /\ WF_vars(Main) /\ WF_vars(Dog) /\ WF_vars(Observe)
            /\ WF_vars(After)

FairSpec == Spec /\ Fairness

-----------------------------------------------------------------------------
(* Properties *)

\* The variables have their types; what is pending is less than
\* statsFlushBytes, and the done channel never has more than two messages.
TypeOK ==
    /\ kind \in Kinds
    /\ cancelled \in BOOLEAN /\ stop \in BOOLEAN /\ idle \in BOOLEAN /\ err \in BOOLEAN
    /\ gone \subseteq Ends
    /\ sock \in [Ends -> {"open", "closed"}]
    /\ first \in {"idle", "data", "error", "taken"}
    /\ pc \in [Pumps -> {"read", "write", "flush", "exit", "signal", "done"}]
    /\ pend \in [Pumps -> 0..(FlushBytes - 1)]
    /\ \A f \in {got, stat, out, sent} : f \in [Pumps -> 0..MaxBytes]
    /\ held \in 0..MaxBytes
    /\ broken \subseteq Pumps
    /\ tokens \in 0..2
    /\ dog \in {"run", "close", "done"}
    /\ obs \in {"run", "done"}
    /\ after \in {"armed", "started", "stopped"}
    /\ main \in {"first", "stop", "second", "join", "returned"}
    /\ todo \in [Closers -> Seq(Ends \cup {"await"})]

\* When bridgeWS or tcpFallback returns, both ends are closed and no pump,
\* watchdog, observer or first read is left, whichever of the pumps, the
\* watchdog and the shutdown began the end.  Only an AfterFunc that stop() came
\* too late for may still run; it closes what is closed.
AllGone ==
    main = "returned" => /\ \A p \in Pumps : pc[p] = "done"
                         /\ dog = "done" /\ obs = "done"
                         /\ \A e \in Ends : sock[e] = "closed"
                         /\ first # "idle"

\* Every byte read is in the statistics when the call returns, once.
Counted == main = "returned" => stat = got

\* Unless a write failed, an ended pump has written every byte it read: the
\* start of a packet the splitter held back is not lost when the client ends.
Written ==
    \A p \in Pumps : pc[p] \in {"exit", "signal", "done"} /\ p \notin broken
                       => sent[p] = got[p]

\* No byte a pump read is lost on the way out of the loop, neither from the
\* stream nor from the statistics.
Delivered == Written /\ Counted

\* If a peer hangs up or the server shuts down, the call returns: nobody waits
\* for a read, for the first read of a pooled connection or for the channel
\* for ever.
Returns == (cancelled \/ gone # {}) ~> main = "returned"

\* A session in which nothing moves is ended by the watchdog.
IdleEnds == idle ~> (~idle \/ main = "returned")
=============================================================================
