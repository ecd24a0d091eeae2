---------------------------- MODULE BridgeProofs ----------------------------
(***************************************************************************)
(* Proofs about bridgeWS and the relay of tcpFallback, for every kind of   *)
(* upstream, any number of bytes and any statsFlushBytes.                  *)
(***************************************************************************)
EXTENDS Bridge, SequenceTheorems, TLAPS

-----------------------------------------------------------------------------
(* The bytes *)

\* What the splitter holds back is the up pump's.
Back(p) == IF p = "up" THEN held ELSE 0

ByteType ==
    /\ pc \in [Pumps -> {"read", "write", "flush", "exit", "signal", "done"}]
    /\ got \in [Pumps -> 0..MaxBytes]
    /\ pend \in [Pumps -> 0..(FlushBytes - 1)]
    /\ stat \in [Pumps -> Nat]
    /\ out \in [Pumps -> Nat]
    /\ sent \in [Pumps -> Nat]
    /\ held \in Nat
    /\ err \in BOOLEAN
    /\ broken \subseteq Pumps

\* What a pump read is in the statistics or pending, and it was written, is in
\* hand or held back; at the end nothing is in hand, held back or pending.
Balance(p) ==
    /\ got[p] = stat[p] + pend[p]
    /\ sent[p] + out[p] + Back(p) <= got[p]
    /\ p \notin broken => sent[p] + out[p] + Back(p) = got[p]
    /\ pc[p] # "write" => out[p] = 0
    /\ pc[p] \in {"exit", "signal", "done"} /\ p \notin broken => Back(p) = 0
    /\ pc[p] \in {"signal", "done"} => pend[p] = 0

Bytes == ByteType /\ Balance("up") /\ Balance("down")

\* Account adds the bytes to what is pending or, with it, to the statistics.
LEMMA AccountFacts ==
    ASSUME ByteType, NEW p \in Pumps, NEW n \in Left(p), Account(p, n)
    PROVE  /\ got' \in [Pumps -> 0..MaxBytes]
           /\ pend' \in [Pumps -> 0..(FlushBytes - 1)]
           /\ stat' \in [Pumps -> Nat]
           /\ n \in Nat
           /\ got'[p] = got[p] + n
           /\ stat'[p] + pend'[p] = stat[p] + pend[p] + n
           /\ \A q \in Pumps : q # p => got'[q] = got[q] /\ stat'[q] = stat[q] /\ pend'[q] = pend[q]
<1>1. /\ n \in Nat /\ got[p] \in 0..MaxBytes /\ got[p] + n <= MaxBytes
      /\ pend[p] \in 0..(FlushBytes - 1) /\ stat[p] \in Nat
  BY BridgeAssumption DEF Left, ByteType
<1> DEFINE total == pend[p] + n
<1>2. total \in Nat /\ total = pend[p] + n
  BY <1>1, BridgeAssumption
<1>3. /\ got' = [got EXCEPT ![p] = got[p] + n]
      /\ pend' = [pend EXCEPT ![p] = IF total >= FlushBytes THEN 0 ELSE total]
      /\ stat' = [stat EXCEPT ![p] = IF total >= FlushBytes THEN stat[p] + total ELSE stat[p]]
  BY DEF Account, Remainder
<1> HIDE DEF total
<1>4. got[p] + n \in 0..MaxBytes
  BY <1>1, BridgeAssumption
<1>5. (IF total >= FlushBytes THEN 0 ELSE total) \in 0..(FlushBytes - 1)
  BY <1>2, BridgeAssumption
<1>6. (IF total >= FlushBytes THEN stat[p] + total ELSE stat[p]) \in Nat
  BY <1>1, <1>2, BridgeAssumption
<1>7. /\ got' \in [Pumps -> 0..MaxBytes]
      /\ pend' \in [Pumps -> 0..(FlushBytes - 1)]
      /\ stat' \in [Pumps -> Nat]
  BY <1>3, <1>4, <1>5, <1>6 DEF ByteType
<1>8. /\ got'[p] = got[p] + n
      /\ pend'[p] = IF total >= FlushBytes THEN 0 ELSE total
      /\ stat'[p] = IF total >= FlushBytes THEN stat[p] + total ELSE stat[p]
  BY <1>3 DEF ByteType
<1>9. stat'[p] + pend'[p] = stat[p] + pend[p] + n
  BY <1>1, <1>2, <1>8, BridgeAssumption
<1>10. \A q \in Pumps : q # p => got'[q] = got[q] /\ stat'[q] = stat[q] /\ pend'[q] = pend[q]
  BY <1>3 DEF ByteType
<1> QED BY <1>1, <1>7, <1>8, <1>9, <1>10

\* A step that reads, writes and ends nothing keeps the books.
LEMMA BytesFrame ==
    ASSUME Bytes, UNCHANGED <<pc, bytes>>
    PROVE  Bytes'
BY DEF Bytes, ByteType, Balance, Back, bytes

LEMMA UpReadBytes ==
    ASSUME Bytes, NEW n \in Left("up"), NEW keep \in 0..MaxBytes, UpRead(n, keep)
    PROVE  Bytes'
<1> USE DEF Bytes
<1>1. "up" \in Pumps /\ "down" \in Pumps
  BY DEF Pumps
<1>2. /\ got' \in [Pumps -> 0..MaxBytes]
      /\ pend' \in [Pumps -> 0..(FlushBytes - 1)]
      /\ stat' \in [Pumps -> Nat]
      /\ n \in Nat
      /\ got'["up"] = got["up"] + n
      /\ stat'["up"] + pend'["up"] = stat["up"] + pend["up"] + n
      /\ got'["down"] = got["down"] /\ stat'["down"] = stat["down"] /\ pend'["down"] = pend["down"]
  BY <1>1, AccountFacts DEF UpRead
<1>3. /\ held' = keep /\ keep \in Nat /\ keep <= held + n /\ held \in Nat
      /\ out' = [out EXCEPT !["up"] = held + n - keep]
      /\ pc' = [pc EXCEPT !["up"] = IF held + n = keep THEN "read" ELSE "write"]
      /\ sent' = sent /\ broken' = broken
      /\ pc["up"] = "read"
  BY BridgeAssumption DEF UpRead, Goto, ByteType
<1>4. err' \in BOOLEAN
  BY Zenon DEF UpRead
<1>5. held + n - keep \in Nat
  BY <1>2, <1>3
<1>6. ByteType'
  BY <1>2, <1>3, <1>4, <1>5 DEF ByteType
<1>7. /\ out'["up"] = held + n - keep /\ out'["down"] = out["down"]
      /\ pc'["up"] = IF held + n = keep THEN "read" ELSE "write"
      /\ pc'["down"] = pc["down"]
  BY <1>1, <1>3 DEF ByteType
<1>8. /\ got["up"] \in Nat /\ sent["up"] \in Nat /\ stat["up"] \in Nat /\ pend["up"] \in Nat
      /\ out["up"] = 0
  BY <1>1, <1>3, BridgeAssumption DEF ByteType, Balance
<1>9. Balance("up")'
  BY <1>2, <1>3, <1>5, <1>7, <1>8 DEF Balance, Back
<1>10. Balance("down")'
  BY <1>2, <1>3, <1>7 DEF Balance, Back
<1> QED BY <1>6, <1>9, <1>10

LEMMA DownReadBytes ==
    ASSUME Bytes, NEW n \in Left("down"), DownRead(n)
    PROVE  Bytes'
<1> USE DEF Bytes
<1>1. "up" \in Pumps /\ "down" \in Pumps
  BY DEF Pumps
<1>2. /\ got' \in [Pumps -> 0..MaxBytes]
      /\ pend' \in [Pumps -> 0..(FlushBytes - 1)]
      /\ stat' \in [Pumps -> Nat]
      /\ n \in Nat
      /\ got'["down"] = got["down"] + n
      /\ stat'["down"] + pend'["down"] = stat["down"] + pend["down"] + n
      /\ got'["up"] = got["up"] /\ stat'["up"] = stat["up"] /\ pend'["up"] = pend["up"]
  BY <1>1, AccountFacts DEF DownRead
<1>3. /\ out' = [out EXCEPT !["down"] = n]
      /\ pc' = [pc EXCEPT !["down"] = "write"]
      /\ UNCHANGED <<err, held, sent, broken>>
      /\ pc["down"] = "read"
  BY DEF DownRead, Goto
<1>4. ByteType'
  BY <1>2, <1>3 DEF ByteType
<1>5. /\ out'["down"] = n /\ out'["up"] = out["up"]
      /\ pc'["down"] = "write" /\ pc'["up"] = pc["up"]
  BY <1>1, <1>3 DEF ByteType
<1>6. /\ got["down"] \in Nat /\ sent["down"] \in Nat /\ stat["down"] \in Nat /\ pend["down"] \in Nat
      /\ out["down"] = 0
  BY <1>1, <1>3, BridgeAssumption DEF ByteType, Balance
<1>7. Balance("up")' /\ Balance("down")'
  BY <1>2, <1>3, <1>5, <1>6 DEF Balance, Back
<1> QED BY <1>4, <1>7

\* What is in hand is written, or the write fails.
LEMMA WriteBytes ==
    ASSUME Bytes, NEW p \in Pumps, pc[p] = "write",
           out' = [out EXCEPT ![p] = 0], UNCHANGED <<got, pend, stat, err, held>>,
           \/ /\ sent' = [sent EXCEPT ![p] = @ + out[p]] /\ broken' = broken
              /\ \E l \in {"read", "flush"} : pc' = [pc EXCEPT ![p] = l]
           \/ /\ broken' = broken \cup {p} /\ sent' = sent
              /\ pc' = [pc EXCEPT ![p] = "exit"]
    PROVE  Bytes'
<1> USE DEF Bytes
<1>1. Pumps = {"up", "down"} /\ out[p] \in Nat /\ sent[p] \in Nat /\ sent[p] + out[p] \in Nat
      /\ held \in Nat /\ got[p] \in Nat
  BY BridgeAssumption DEF Pumps, ByteType
<1>2. ByteType'
  <2>1. out' \in [Pumps -> Nat] /\ sent' \in [Pumps -> Nat]
    BY <1>1 DEF ByteType
  <2>2. broken' \subseteq Pumps
    BY DEF ByteType
  <2>3. pc' \in [Pumps -> {"read", "write", "flush", "exit", "signal", "done"}]
    BY DEF ByteType
  <2> QED BY <2>1, <2>2, <2>3 DEF ByteType
<1>3. ASSUME NEW q \in Pumps PROVE out'[q] = IF q = p THEN 0 ELSE out[q]
  BY DEF ByteType
<1>4. CASE /\ sent' = [sent EXCEPT ![p] = @ + out[p]] /\ broken' = broken
           /\ \E l \in {"read", "flush"} : pc' = [pc EXCEPT ![p] = l]
  <2>1. \A q \in Pumps : /\ sent'[q] = IF q = p THEN sent[p] + out[p] ELSE sent[q]
                         /\ IF q = p THEN pc'[q] \in {"read", "flush"} ELSE pc'[q] = pc[q]
    BY <1>4 DEF ByteType
  <2>2. \A q \in Pumps : Balance(q)'
    <3> SUFFICES ASSUME NEW q \in Pumps PROVE Balance(q)'
      OBVIOUS
    <3>1. Balance(q) /\ Back(q)' = Back(q) /\ Back(q) \in Nat
      BY <1>1 DEF Back, ByteType
    <3>2. CASE q = p
      BY <1>1, <1>3, <1>4, <2>1, <3>1, <3>2 DEF Balance
    <3>3. CASE q # p
      BY <1>3, <1>4, <2>1, <3>1, <3>3 DEF Balance
    <3> QED BY <3>2, <3>3
  <2> QED BY <1>1, <1>2, <2>2
<1>5. CASE /\ broken' = broken \cup {p} /\ sent' = sent
           /\ pc' = [pc EXCEPT ![p] = "exit"]
  <2>1. \A q \in Pumps : pc'[q] = IF q = p THEN "exit" ELSE pc[q]
    BY <1>5 DEF ByteType
  <2>2. \A q \in Pumps : Balance(q)'
    <3> SUFFICES ASSUME NEW q \in Pumps PROVE Balance(q)'
      OBVIOUS
    <3>1. Balance(q) /\ Back(q)' = Back(q) /\ Back(q) \in Nat
      BY <1>1 DEF Back, ByteType
    <3>2. CASE q = p
      BY <1>1, <1>3, <1>5, <2>1, <3>1, <3>2 DEF Balance
    <3>3. CASE q # p
      BY <1>3, <1>5, <2>1, <3>1, <3>3 DEF Balance
    <3> QED BY <3>2, <3>3
  <2> QED BY <1>1, <1>2, <2>2
<1> QED BY <1>4, <1>5

LEMMA UpFlushBytes ==
    ASSUME Bytes, UpFlush
    PROVE  Bytes'
<1> USE DEF Bytes
<1>1. "up" \in Pumps /\ "down" \in Pumps
  BY DEF Pumps
<1>2. /\ held' = 0 /\ pc' = [pc EXCEPT !["up"] = "exit"] /\ pc["up"] = "flush"
      /\ UNCHANGED <<got, pend, stat, out, err>>
      /\ \/ sent' = [sent EXCEPT !["up"] = sent["up"] + held] /\ broken' = broken
         \/ broken' = broken \cup {"up"} /\ sent' = sent
  BY DEF UpFlush, Last, Goto
<1>3. /\ held \in Nat /\ sent["up"] \in Nat /\ sent["up"] + held \in Nat /\ got["up"] \in Nat
      /\ out["up"] = 0
  BY <1>1, <1>2, BridgeAssumption DEF ByteType, Balance
<1>4. sent' \in [Pumps -> Nat] /\ broken' \subseteq Pumps
  BY <1>1, <1>2, <1>3 DEF ByteType
<1>5. pc' \in [Pumps -> {"read", "write", "flush", "exit", "signal", "done"}]
  BY <1>2 DEF ByteType
<1>6. ByteType'
  BY <1>2, <1>4, <1>5 DEF ByteType
<1>7. pc'["up"] = "exit" /\ pc'["down"] = pc["down"] /\ sent'["down"] = sent["down"]
      /\ ("down" \in broken' <=> "down" \in broken)
  BY <1>1, <1>2 DEF ByteType
<1>8. Balance("down")'
  BY <1>2, <1>7 DEF Balance, Back
<1>9. \/ sent'["up"] = sent["up"] + held /\ broken' = broken
      \/ sent'["up"] = sent["up"] /\ "up" \in broken'
  BY <1>1, <1>2 DEF ByteType
<1>10. Balance("up")'
  BY <1>2, <1>3, <1>7, <1>9 DEF Balance, Back
<1> QED BY <1>6, <1>8, <1>10

\* The pump leaves its loop, or goes round, without touching bytes.
LEMMA MoveBytes ==
    ASSUME Bytes, NEW p \in Pumps, NEW l \in {"read", "flush", "exit"},
           pc[p] = "read", pc' = [pc EXCEPT ![p] = l], UNCHANGED bytes,
           l = "exit" => p = "down"
    PROVE  Bytes'
<1> USE DEF Bytes
<1>1. Pumps = {"up", "down"}
  BY DEF Pumps
<1>2. ByteType'
  BY DEF ByteType, bytes
<1>3. \A q \in Pumps : pc'[q] = IF q = p THEN l ELSE pc[q]
  BY DEF ByteType
<1>4. \A q \in Pumps : Balance(q)'
  BY <1>1, <1>3 DEF Balance, Back, bytes
<1> QED BY <1>1, <1>2, <1>4

LEMMA ExitBytes ==
    ASSUME Bytes, NEW p \in Pumps, Exit(p)
    PROVE  Bytes'
<1> USE DEF Bytes
<1>1. Pumps = {"up", "down"}
  BY DEF Pumps
<1>2. /\ stat' = [stat EXCEPT ![p] = stat[p] + pend[p]] /\ pend' = [pend EXCEPT ![p] = 0]
      /\ pc' = [pc EXCEPT ![p] = "signal"] /\ pc[p] = "exit"
      /\ UNCHANGED <<got, out, err, held, sent, broken>>
  BY DEF Exit, Goto, Pending
<1>3. stat[p] \in Nat /\ pend[p] \in Nat /\ stat[p] + pend[p] \in Nat /\ 0 \in 0..(FlushBytes - 1)
  BY BridgeAssumption DEF ByteType
<1>4. ByteType'
  BY <1>2, <1>3 DEF ByteType
<1>5. \A q \in Pumps : /\ pc'[q] = IF q = p THEN "signal" ELSE pc[q]
                       /\ stat'[q] = IF q = p THEN stat[p] + pend[p] ELSE stat[q]
                       /\ pend'[q] = IF q = p THEN 0 ELSE pend[q]
  BY <1>2 DEF ByteType
<1>6. \A q \in Pumps : Balance(q)'
  <2> SUFFICES ASSUME NEW q \in Pumps PROVE Balance(q)'
    OBVIOUS
  <2>1. Balance(q) /\ Back(q)' = Back(q)
    BY <1>1, <1>2 DEF Back
  <2>2. CASE q = p
    BY <1>2, <1>3, <1>5, <2>1, <2>2 DEF Balance
  <2>3. CASE q # p
    BY <1>2, <1>5, <2>1, <2>3 DEF Balance
  <2> QED BY <2>2, <2>3
<1> QED BY <1>1, <1>4, <1>6

LEMMA SignalBytes ==
    ASSUME Bytes, NEW p \in Pumps, Signal(p)
    PROVE  Bytes'
<1> USE DEF Bytes
<1>1. Pumps = {"up", "down"}
  BY DEF Pumps
<1>2. pc' = [pc EXCEPT ![p] = "done"] /\ pc[p] = "signal" /\ UNCHANGED bytes
  BY DEF Signal, Goto
<1>3. ByteType'
  BY <1>2 DEF ByteType, bytes
<1>4. \A q \in Pumps : pc'[q] = IF q = p THEN "done" ELSE pc[q]
  BY <1>2 DEF ByteType
<1>5. \A q \in Pumps : Balance(q)'
  BY <1>1, <1>2, <1>4 DEF Balance, Back, bytes
<1> QED BY <1>1, <1>3, <1>5

LEMMA BytesStep ==
    ASSUME Bytes, [Next]_vars
    PROVE  Bytes'
<1>1. "up" \in Pumps /\ "down" \in Pumps
  BY DEF Pumps
<1>2. CASE Receive
  BY <1>2, UpReadBytes, DownReadBytes, BytesFrame DEF Receive, FirstData
<1>3. CASE Up
  <2>1. CASE UpReadError
    BY <1>1, <2>1, MoveBytes DEF UpReadError, Goto
  <2>2. CASE UpWrite
    BY <1>1, <2>2, WriteBytes DEF UpWrite, Goto
  <2> QED BY <1>1, <1>3, <2>1, <2>2, UpFlushBytes, ExitBytes, SignalBytes DEF Up
<1>4. CASE DownPump
  <2>1. CASE DownReadError
    BY <1>1, <2>1, MoveBytes DEF DownReadError, Goto
  <2>2. CASE DownTake
    BY <1>1, <2>2, MoveBytes DEF DownTake, Goto
  <2>3. CASE DownWrite
    BY <1>1, <2>3, WriteBytes DEF DownWrite, Goto
  <2> QED BY <1>1, <1>4, <2>1, <2>2, <2>3, ExitBytes, SignalBytes DEF DownPump
<1>5. CASE FirstError \/ Main \/ Dog \/ Observe \/ After \/ (\E e \in Ends : HangUp(e))
           \/ Cancel \/ Silence
  <2>1. UNCHANGED <<pc, bytes>>
    BY <1>5 DEF FirstError, Main, MainFirst, MainStop, CloseStep, MainSecond, MainReturn, Dog, DogTick,
                DogStop, DogClosed, Observe, After, AfterFunc, HangUp, Cancel, Silence
  <2> QED BY <2>1, BytesFrame
<1>6. CASE UNCHANGED vars
  BY <1>6, BytesFrame DEF vars
<1> QED BY <1>2, <1>3, <1>4, <1>5, <1>6 DEF Next

-----------------------------------------------------------------------------
(* The end of the session *)

ControlType ==
    /\ kind \in Kinds
    /\ cancelled \in BOOLEAN /\ stop \in BOOLEAN /\ idle \in BOOLEAN
    /\ gone \subseteq Ends
    /\ sock \in [Ends -> {"open", "closed"}]
    /\ first \in {"idle", "data", "error", "taken"}
    /\ tokens \in Nat
    /\ dog \in {"run", "close", "done"}
    /\ obs \in {"run", "done"}
    /\ after \in {"armed", "started", "stopped"}
    /\ main \in {"first", "stop", "second", "join", "returned"}
    /\ todo \in [Closers -> Seq(Ends \cup {"await"})]

\* The messages the caller has taken from the done channel, and the one a pump
\* has sent.
Taken == IF main = "first" THEN 0 ELSE IF main \in {"stop", "second"} THEN 1 ELSE 2
Sent(p) == IF pc[p] = "done" THEN 1 ELSE 0

\* Every pump that is done has sent one message.
Counting == tokens + Taken = Sent("up") + Sent("down")

\* v is a step still to be taken by the list s.
In(v, s) == \E i \in 1..Len(s) : s[i] = v

\* What the caller has not closed yet is on its list; the first read of a
\* pooled connection is waited for.
Ending ==
    /\ first = "idle" => kind = "pooled"
    /\ main \in {"first", "stop"} => todo["main"] = <<>>
    /\ main \in {"second", "join", "returned"} =>
         /\ \A e \in Ends : sock[e] = "open" => In(e, todo["main"])
         /\ first = "idle" => In("await", todo["main"])
    /\ main \in {"join", "returned"} => todo["main"] = <<>>
    /\ main = "returned" => dog = "done" /\ obs = "done"

\* The inductive invariant.
IInv == Bytes /\ ControlType /\ Counting /\ Ending

\* A list with one more step at its end.
LEMMA JoinFacts ==
    ASSUME NEW S, NEW s \in Seq(S), NEW v \in S
    PROVE  /\ s \o <<v>> \in Seq(S)
           /\ In(v, s \o <<v>>)
           /\ \A w : In(w, s) => In(w, s \o <<v>>)
<1>1. /\ <<v>> \in Seq(S) /\ Len(<<v>>) = 1 /\ <<v>>[1] = v /\ Len(s) \in Nat
  OBVIOUS
<1>2. /\ s \o <<v>> \in Seq(S) /\ Len(s \o <<v>>) = Len(s) + 1
      /\ \A i \in 1..Len(s) : (s \o <<v>>)[i] = s[i]
      /\ (s \o <<v>>)[Len(s) + 1] = v
  BY <1>1
<1> QED BY <1>1, <1>2 DEF In

\* The lists of steps.
LEMMA CloseBothFacts ==
    ASSUME NEW c \in Closers
    PROVE  /\ CloseBoth(c) \in Seq(Ends \cup {"await"})
           /\ \A e \in Ends : In(e, CloseBoth(c))
           /\ kind = "pooled" => In("await", CloseBoth(c))
<1> DEFINE E == Ends \cup {"await"}
<1>1. "client" \in E /\ "upstream" \in E /\ "await" \in E /\ Ends = {"client", "upstream"}
  BY DEF Ends
<1> HIDE DEF E
<1>2. CASE kind = "tcp" /\ c # "after"
  <2>1. CloseBoth(c) = <<"client", "upstream">>
    BY <1>2 DEF CloseBoth
  <2>2. /\ <<"client", "upstream">> \in Seq(E) /\ Len(<<"client", "upstream">>) = 2
        /\ <<"client", "upstream">>[1] = "client" /\ <<"client", "upstream">>[2] = "upstream"
    BY <1>1
  <2>3. 1 \in 1..2 /\ 2 \in 1..2
    OBVIOUS
  <2> QED BY <1>1, <1>2, <2>1, <2>2, <2>3 DEF In, E
<1>3. CASE ~(kind = "tcp" /\ c # "after")
  <2>1. CloseBoth(c) = CloseUpstream \o <<"client">>
    BY <1>3 DEF CloseBoth
  <2>2. CASE kind = "pooled"
    <3>1. CloseBoth(c) = <<"upstream", "await">> \o <<"client">>
      BY <2>1, <2>2 DEF CloseUpstream
    <3>2. /\ <<"upstream", "await">> \in Seq(E)
          /\ In("upstream", <<"upstream", "await">>) /\ In("await", <<"upstream", "await">>)
      BY <1>1 DEF In
    <3> QED BY <1>1, <3>1, <3>2, JoinFacts DEF E
  <2>3. CASE kind # "pooled"
    <3>1. CloseBoth(c) = <<"upstream">> \o <<"client">>
      BY <2>1, <2>3 DEF CloseUpstream
    <3>2. <<"upstream">> \in Seq(E) /\ In("upstream", <<"upstream">>)
      BY <1>1 DEF In
    <3> QED BY <1>1, <2>3, <3>1, <3>2, JoinFacts DEF E
  <2> QED BY <2>2, <2>3
<1> QED BY <1>2, <1>3

\* A list without its head has all steps but that one.
LEMMA TailFacts ==
    ASSUME NEW S, NEW s \in Seq(S), s # <<>>
    PROVE  /\ Tail(s) \in Seq(S) /\ Head(s) \in S
           /\ \A v : In(v, s) => v = Head(s) \/ In(v, Tail(s))
<1>1. Tail(s) \in Seq(S) /\ Head(s) \in S /\ Len(s) \in Nat /\ Len(Tail(s)) = Len(s) - 1
      /\ Head(s) = s[1] /\ Len(s) > 0
  OBVIOUS
<1>2. \A i \in 1..Len(Tail(s)) : Tail(s)[i] = s[i + 1]
  OBVIOUS
<1>3. ASSUME NEW i \in 1..Len(s), i # 1 PROVE i - 1 \in 1..Len(Tail(s)) /\ Tail(s)[i - 1] = s[i]
  BY <1>1, <1>2, <1>3
<1> QED BY <1>1, <1>3 DEF In

\* A closer's next step.
LEMMA CloseStepInv ==
    ASSUME IInv, NEW c \in Closers, CloseStep(c)
    PROVE  ControlType' /\ Counting' /\ Ending'
<1> USE DEF IInv
<1>1. /\ todo[c] \in Seq(Ends \cup {"await"}) /\ todo[c] # <<>>
      /\ todo' = [todo EXCEPT ![c] = Tail(todo[c])]
      /\ UNCHANGED <<kind, cancelled, gone, first, pc, idle, tokens, stop, dog, obs, after, main>>
  BY DEF CloseStep, ControlType
<1>2. /\ Tail(todo[c]) \in Seq(Ends \cup {"await"}) /\ Head(todo[c]) \in Ends \cup {"await"}
      /\ \A v : In(v, todo[c]) => v = Head(todo[c]) \/ In(v, Tail(todo[c]))
  BY <1>1, TailFacts
<1>3. /\ Head(todo[c]) = "await" => first # "idle" /\ sock' = sock
      /\ Head(todo[c]) # "await" => sock' = [sock EXCEPT ![Head(todo[c])] = "closed"]
  BY DEF CloseStep
<1>4. ControlType'
  BY <1>1, <1>2, <1>3 DEF ControlType
<1>5. Counting'
  BY <1>1 DEF Counting, Taken, Sent
<1>6. "main" \in Closers /\ todo'["main"] = IF c = "main" THEN Tail(todo[c]) ELSE todo["main"]
  BY <1>1 DEF Closers, ControlType
<1>7. \A e \in Ends : sock'[e] = "open" => sock[e] = "open" /\ e # Head(todo[c])
  BY <1>2, <1>3 DEF ControlType, Ends
<1>8. Ending'
  <2>1. CASE c = "main"
    BY <1>1, <1>2, <1>3, <1>6, <1>7, <2>1 DEF Ending, ControlType
  <2>2. CASE c # "main"
    BY <1>1, <1>6, <1>7, <2>2 DEF Ending
  <2> QED BY <2>1, <2>2
<1> QED BY <1>4, <1>5, <1>8

\* The steps of the caller.
LEMMA MainInv ==
    ASSUME IInv, MainFirst \/ MainStop \/ MainSecond \/ MainReturn
    PROVE  ControlType' /\ Counting' /\ Ending'
<1> USE DEF IInv
<1>1. "main" \in Closers /\ tokens \in Nat
  BY DEF Closers, ControlType
<1>2. CASE MainFirst
  BY <1>1, <1>2 DEF MainFirst, ends, ControlType, Counting, Taken, Sent, Ending
<1>3. CASE MainStop
  <2>1. /\ todo' = [todo EXCEPT !["main"] = CloseBoth("main")] /\ main = "stop" /\ main' = "second"
        /\ stop' = TRUE
        /\ UNCHANGED <<kind, cancelled, gone, sock, first, pc, idle, tokens, dog, obs, after>>
    BY <1>3 DEF MainStop, ends
  <2>2. /\ CloseBoth("main") \in Seq(Ends \cup {"await"})
        /\ \A e \in Ends : In(e, CloseBoth("main"))
        /\ kind = "pooled" => In("await", CloseBoth("main"))
    BY <1>1, CloseBothFacts
  <2>3. todo'["main"] = CloseBoth("main")
    BY <1>1, <2>1 DEF ControlType
  <2>4. ControlType'
    BY <2>1, <2>2 DEF ControlType
  <2>5. Counting' /\ Ending'
    BY <2>1, <2>2, <2>3 DEF Counting, Taken, Sent, Ending
  <2> QED BY <2>4, <2>5
<1>4. CASE MainSecond
  BY <1>1, <1>4 DEF MainSecond, ends, ControlType, Counting, Taken, Sent, Ending
<1>5. CASE MainReturn
  BY <1>1, <1>5 DEF MainReturn, Joined, ends, ControlType, Counting, Taken, Sent, Ending
<1> QED BY <1>2, <1>3, <1>4, <1>5

\* The watchdog, the observer and the AfterFunc.
LEMMA HelpersInv ==
    ASSUME IInv, DogTick \/ DogStop \/ DogClosed \/ Observe \/ AfterFunc
    PROVE  ControlType' /\ Counting' /\ Ending'
<1> USE DEF IInv
<1>1. "main" \in Closers /\ "dog" \in Closers /\ "after" \in Closers
  BY DEF Closers
<1>2. /\ UNCHANGED <<kind, cancelled, gone, sock, first, pc, idle, tokens, stop, main>>
      /\ dog' \in {"run", "close", "done"} /\ (dog = "done" => dog' = "done")
      /\ obs' \in {"run", "done"} /\ (obs = "done" => obs' = "done")
      /\ after' \in {"armed", "started", "stopped"}
  BY DEF DogTick, AfterCheck, DogStop, DogClosed, Observe, AfterFunc, ends, ControlType
<1>3. todo' = todo \/ \E c \in {"dog", "after"} : todo' = [todo EXCEPT ![c] = CloseBoth(c)]
  BY DEF DogTick, DogStop, DogClosed, Observe, AfterFunc
<1>4. todo' \in [Closers -> Seq(Ends \cup {"await"})] /\ todo'["main"] = todo["main"]
  BY <1>1, <1>3, CloseBothFacts DEF ControlType
<1>5. ControlType'
  BY <1>2, <1>4 DEF ControlType
<1> QED BY <1>2, <1>4, <1>5 DEF Counting, Taken, Sent, Ending

\* The pumps and the environment.
LEMMA PumpInv ==
    ASSUME IInv, Receive \/ Up \/ DownPump \/ FirstError \/ (\E e \in Ends : HangUp(e)) \/ Cancel
                   \/ Silence
    PROVE  ControlType' /\ Counting' /\ Ending'
<1> USE DEF IInv
<1>1. Pumps = {"up", "down"} /\ tokens \in Nat
  BY DEF Pumps, ControlType
<1>2. UNCHANGED <<kind, sock, stop, dog, obs, after, main, todo>>
  BY DEF Receive, UpRead, DownRead, FirstData, Up, UpReadError, UpWrite, UpFlush, Exit, Signal, DownPump,
         DownTake, DownReadError, DownWrite, FirstError, HangUp, Cancel, Silence, ends, control
<1>3. cancelled' \in BOOLEAN /\ gone' \subseteq Ends
  BY DEF Receive, UpRead, DownRead, FirstData, Up, UpReadError, UpWrite, UpFlush, Exit, Signal, DownPump,
         DownTake, DownReadError, DownWrite, FirstError, HangUp, Cancel, Silence, ends, ControlType
<1>4. idle' \in BOOLEAN
  BY DEF Receive, UpRead, DownRead, Account, FirstData, Up, UpReadError, UpWrite, UpFlush, Exit, Signal,
         DownPump, DownTake, DownReadError, DownWrite, FirstError, HangUp, Cancel, Silence, ends,
         ControlType
<1>5. first' = first \/ first' \in {"data", "error", "taken"}
  BY DEF Receive, UpRead, DownRead, FirstData, Up, UpReadError, UpWrite, UpFlush, Exit, Signal, DownPump,
         DownTake, DownReadError, DownWrite, FirstError, HangUp, Cancel, Silence, ends
<1>6. CASE \E p \in Pumps : Signal(p)
  <2>1. PICK p \in Pumps : Signal(p)
    BY <1>6
  <2>2. tokens' = tokens + 1 /\ \A q \in Pumps : pc'[q] = IF q = p THEN "done" ELSE pc[q]
    BY <2>1 DEF Signal, Goto, Bytes, ByteType
  <2>3. pc[p] = "signal"
    BY <2>1 DEF Signal
  <2>4. Counting'
    BY <1>1, <1>2, <2>2, <2>3 DEF Counting, Taken, Sent
  <2>5. ControlType'
    BY <1>1, <1>2, <1>3, <1>4, <1>5, <2>2 DEF ControlType
  <2> QED BY <1>2, <1>5, <2>4, <2>5 DEF Ending
<1>7. CASE ~\E p \in Pumps : Signal(p)
  <2>1. tokens' = tokens
    BY <1>1, <1>7 DEF Receive, UpRead, DownRead, FirstData, Up, UpReadError, UpWrite, UpFlush, Exit,
         DownPump, DownTake, DownReadError, DownWrite, FirstError, HangUp, Cancel, Silence, control
  <2>2. \/ pc' = pc
        \/ \E p \in Pumps : \E l : pc[p] # "done" /\ l # "done" /\ pc' = [pc EXCEPT ![p] = l]
    <3>1. CASE Receive
      BY <1>1, <3>1 DEF Receive, UpRead, DownRead, FirstData, Goto
    <3>2. CASE Up
      BY <1>1, <1>7, <3>2 DEF Up, UpReadError, UpWrite, UpFlush, Exit, Goto
    <3>3. CASE DownPump
      BY <1>1, <1>7, <3>3 DEF DownPump, DownTake, DownReadError, DownWrite, Exit, Goto
    <3>4. CASE FirstError \/ (\E e \in Ends : HangUp(e)) \/ Cancel \/ Silence
      BY <3>4 DEF FirstError, HangUp, Cancel, Silence
    <3> QED BY <3>1, <3>2, <3>3, <3>4
  <2>3. \A q \in Pumps : pc'[q] = "done" <=> pc[q] = "done"
    BY <2>2 DEF Bytes, ByteType
  <2>4. Counting'
    BY <1>1, <1>2, <2>1, <2>3 DEF Counting, Taken, Sent
  <2>5. ControlType'
    BY <1>2, <1>3, <1>4, <1>5, <2>1 DEF ControlType
  <2> QED BY <1>2, <1>5, <2>4, <2>5 DEF Ending
<1> QED BY <1>6, <1>7

LEMMA NextInv == IInv /\ [Next]_vars => IInv'
<1> SUFFICES ASSUME IInv, [Next]_vars PROVE IInv'
  OBVIOUS
<1>1. Bytes'
  BY BytesStep DEF IInv
<1>2. CASE UNCHANGED vars
  <2>1. ControlType' /\ Counting' /\ Ending'
    BY <1>2 DEF IInv, vars, ends, control, ControlType, Counting, Taken, Sent, Ending
  <2> QED BY <1>1, <2>1 DEF IInv
<1>3. CASE Next
  <2>1. "main" \in Closers /\ "dog" \in Closers /\ "after" \in Closers
    BY DEF Closers
  <2>2. ControlType' /\ Counting' /\ Ending'
    BY <1>3, <2>1, CloseStepInv, MainInv, HelpersInv, PumpInv DEF Next, Main, Dog, After
  <2> QED BY <1>1, <2>2 DEF IInv
<1> QED BY <1>2, <1>3

-----------------------------------------------------------------------------
(* Theorems *)

\* The inductive invariant holds in every reachable state.
THEOREM Invariant == Spec => []IInv
<1>1. Init => IInv
  <2> SUFFICES ASSUME Init PROVE IInv
    OBVIOUS
  <2>1. 0 \in 0..MaxBytes /\ 0 \in 0..(FlushBytes - 1) /\ "up" \in Pumps /\ "down" \in Pumps
    BY BridgeAssumption DEF Pumps
  <2>2. Bytes
    <3>1. ByteType
      BY <2>1 DEF Init, ByteType
    <3>2. \A p \in Pumps : /\ got[p] = 0 /\ pend[p] = 0 /\ stat[p] = 0 /\ out[p] = 0 /\ sent[p] = 0
                           /\ pc[p] = "read" /\ Back(p) = 0
      BY DEF Init, Back
    <3> QED BY <2>1, <3>1, <3>2 DEF Bytes, Balance
  <2>3. ControlType
    <3>1. <<>> \in Seq(Ends \cup {"await"})
      OBVIOUS
    <3>2. todo \in [Closers -> Seq(Ends \cup {"await"})]
      BY <3>1 DEF Init
    <3> QED BY <3>2 DEF Init, ControlType
  <2>4. Counting
    BY <2>1 DEF Init, Counting, Taken, Sent
  <2>5. Ending
    BY DEF Init, Ending, Closers
  <2> QED BY <2>2, <2>3, <2>4, <2>5 DEF IInv
<1> QED BY <1>1, NextInv, PTL DEF Spec

\* When bridgeWS or tcpFallback returns, both ends are closed and no pump,
\* watchdog, observer or first read is left.
THEOREM NobodyLeft == Spec => []AllGone
<1>1. IInv => AllGone
  <2> SUFFICES ASSUME IInv, main = "returned"
               PROVE  /\ \A p \in Pumps : pc[p] = "done"
                      /\ dog = "done" /\ obs = "done"
                      /\ \A e \in Ends : sock[e] = "closed"
                      /\ first # "idle"
    BY DEF AllGone
  <2> USE DEF IInv
  <2>1. \A v : ~In(v, <<>>)
    BY DEF In
  <2>2. /\ dog = "done" /\ obs = "done" /\ first # "idle"
        /\ \A e \in Ends : sock[e] = "closed"
    BY <2>1 DEF Ending, ControlType
  <2>3. pc["up"] = "done" /\ pc["down"] = "done"
    BY DEF Counting, Taken, Sent, ControlType
  <2> QED BY <2>2, <2>3 DEF Pumps
<1> QED BY <1>1, Invariant, PTL

\* No byte a pump read is lost: it was written unless a write failed, and it is
\* in the statistics when the call returns.
THEOREM NothingLost == Spec => []Delivered
<1>1. IInv /\ AllGone => Delivered
  <2> SUFFICES ASSUME IInv, AllGone PROVE Written /\ Counted
    BY DEF Delivered
  <2> USE DEF IInv, Bytes
  <2>1. Pumps = {"up", "down"} /\ \A p \in Pumps : Balance(p)
    BY DEF Pumps
  <2>2. \A p \in Pumps : got[p] \in Nat /\ sent[p] \in Nat /\ stat[p] \in Nat /\ Back(p) \in Nat
    BY BridgeAssumption DEF ByteType, Back
  <2>3. Written
    BY <2>1, <2>2 DEF Written, Balance
  <2>4. Counted
    <3> SUFFICES ASSUME main = "returned" PROVE stat = got
      BY DEF Counted
    <3>1. \A p \in Pumps : stat[p] = got[p]
      BY <2>1, <2>2 DEF AllGone, Balance
    <3> QED BY <3>1 DEF ByteType
  <2> QED BY <2>3, <2>4
<1> QED BY <1>1, Invariant, NobodyLeft, PTL

\* The variables have their types; the done channel never has more than two
\* messages.
THEOREM TypeCorrect == Spec => []TypeOK
<1>1. IInv => TypeOK
  <2> SUFFICES ASSUME IInv PROVE TypeOK
    OBVIOUS
  <2> USE DEF IInv, Bytes
  <2>1. Pumps = {"up", "down"} /\ \A p \in Pumps : Balance(p)
    BY DEF Pumps
  <2>2. \A p \in Pumps : /\ got[p] \in 0..MaxBytes /\ sent[p] \in Nat /\ stat[p] \in Nat
                         /\ out[p] \in Nat /\ Back(p) \in Nat /\ pend[p] \in Nat
    BY BridgeAssumption DEF ByteType, Back
  <2>3. \A p \in Pumps : /\ sent[p] \in 0..MaxBytes /\ stat[p] \in 0..MaxBytes /\ out[p] \in 0..MaxBytes
                         /\ Back(p) \in 0..MaxBytes
    BY <2>1, <2>2, BridgeAssumption DEF Balance
  <2>4. held \in 0..MaxBytes
    BY <2>1, <2>3 DEF Back
  <2>5. /\ got \in [Pumps -> 0..MaxBytes] /\ stat \in [Pumps -> 0..MaxBytes]
        /\ out \in [Pumps -> 0..MaxBytes] /\ sent \in [Pumps -> 0..MaxBytes]
    BY <2>3 DEF ByteType
  <2>6. tokens \in 0..2
    BY DEF Counting, Taken, Sent, ControlType
  <2> QED BY <2>4, <2>5, <2>6 DEF TypeOK, ByteType, ControlType
<1> QED BY <1>1, Invariant, PTL
=============================================================================
