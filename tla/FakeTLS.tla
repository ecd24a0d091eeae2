------------------------------ MODULE FakeTLS -------------------------------
(***************************************************************************)
(* acceptFakeTLSClient (fake_tls.go): the handshake of a Fake TLS session. *)
(* A client that is no user of the proxy is relayed to the masking host,   *)
(* by two goroutines that copy until one direction ends.                   *)
(*                                                                         *)
(* Bytes are counted: chunks of the host's answer that it has sent, that   *)
(* the down copy holds and that the client got.  A write without a         *)
(* deadline blocks as long as its peer does not read.  Up to the relay a   *)
(* read or a write may always fail, whatever the reason; from there on the *)
(* reasons are in the state: the deadline, the peers and the shutdown.     *)
(* What arrives after a good handshake is in DataPath.  Faulty variants    *)
(* are named Bad..., as in WSPool.                                         *)
(***************************************************************************)
EXTENDS ClientHello, FiniteSets

CONSTANTS Hellos,        \* the ClientHellos that occur
          Profiles,      \* what the masking host may answer to the probe
          RandomSizes,   \* what randomIntInRange(64, 160) may return
          MaxRecord,     \* tlsRecordMaxLen
          Chunks,        \* bound on the chunks of the host's answer
          None           \* no hello or no answer yet, no well-formed offer

ASSUME FakeTLSAssumption == /\ Chunks \in Nat /\ RandomSizes \subseteq 64..160
                            /\ MaxSession \in Nat /\ MaxRecord \in Nat /\ MaxRecord >= 160
                            /\ \A h \in Hellos : h.body \in Seq(0..255)

\* A hello that a client has encoded has what it offers in the field offer:
\* the session ID, the suites and the key shares, and where they are.  exts are
\* the offsets of the extensions and of their end, key says which of them has
\* the shares (0: none), at are the offsets of the shares and of their end.
Number(b, i) == U16(From(b, i))
CompressionAt(o) == Len(o.session) + 3 + 2 * Len(o.suites)

EncodesSession(b, o) ==
    /\ o.session \in Seq(0..255) /\ Len(o.session) <= MaxSession
    /\ b[1] = Len(o.session) /\ SubSeq(b, 2, Len(o.session) + 1) = o.session

EncodesSuites(b, o) ==
    /\ o.suites \in Seq(Nat) /\ o.suites # <<>>
    /\ Number(b, Len(o.session) + 1) = 2 * Len(o.suites)
    /\ \A i \in DOMAIN o.suites : Number(b, Len(o.session) + 1 + 2 * i) = o.suites[i]

EncodesExtensions(b, o) ==
    /\ o.exts \in Seq(0..Len(b)) /\ o.exts # <<>> /\ o.key \in 0..(Len(o.exts) - 1)
    /\ CompressionAt(o) + 3 < o.exts[1]
    /\ b[CompressionAt(o) + 1] = o.exts[1] - CompressionAt(o) - 3
    /\ Number(b, o.exts[1] - 2) = Len(b) - o.exts[1] /\ o.exts[Len(o.exts)] = Len(b)
    /\ \A i \in 1..(Len(o.exts) - 1) :
         /\ o.exts[i] + 4 <= o.exts[i + 1]
         /\ Number(b, o.exts[i] + 2) = o.exts[i + 1] - o.exts[i] - 4
         /\ Number(b, o.exts[i]) = KeyShareExt <=> i = o.key

EncodesShares(b, o) ==
    /\ o.at \in Seq(0..o.exts[o.key + 1]) /\ Len(o.at) = Len(o.shares) + 1
    /\ o.at[1] = o.exts[o.key] + 6 /\ o.at[Len(o.at)] = o.exts[o.key + 1]
    /\ Number(b, o.exts[o.key] + 4) = o.at[Len(o.at)] - o.at[1]
    /\ \A i \in DOMAIN o.shares :
         /\ Number(b, o.at[i]) = o.shares[i].group
         /\ Number(b, o.at[i] + 2) = o.shares[i].len
         /\ o.at[i + 1] = o.at[i] + 4 + o.shares[i].len

Encodes(b, o) ==
    /\ EncodesSession(b, o) /\ EncodesSuites(b, o) /\ EncodesExtensions(b, o)
    /\ o.shares \in Seq([group : Nat, len : Nat])
    /\ IF o.key = 0 THEN o.shares = <<>> ELSE EncodesShares(b, o)

ASSUME OfferAssumption == \A h \in Hellos : h.offer # None => h.lenOK /\ Encodes(h.body, h.offer)

Sides == {"client", "upstream"}
Copies == {"up", "down"}

VARIABLES
    pc,          \* the session: next step
    hello,       \* the ClientHello that was read
    parser,      \* the state of parseFakeTLSClientHello
    reply,       \* the parameters of the ServerHello
    cancelled,   \* ctx is done
    deadline,    \* of the client's reads: "none", "running" or "passed"
    open,        \* the connections we have not closed
    closing,     \* those an AfterFunc that has started will close
    hung,        \* the sides whose peer has closed
    stuck,       \* the sides whose peer has stopped reading
    copy,        \* each goroutine: "none", "read", "write", "close", "exit", "gone"
    sent,        \* chunks the host has sent
    held,        \* chunks the down copy has in hand
    got,         \* chunks the client got
    refused,     \* a write to the host failed
    tokens       \* messages in the done channel

start == <<hello, parser, reply>>
ends == <<open, closing>>
peers == <<hung, stuck>>
relay == <<copy, held, got, refused, tokens>>
vars == <<pc, start, cancelled, deadline, ends, peers, sent, relay>>

Init == /\ pc = "first"
        /\ hello = None /\ parser = Empty /\ reply = None
        /\ cancelled = FALSE
        /\ deadline = "running"
        /\ open = {"client"} /\ closing = {}
        /\ hung = {} /\ stuck = {}
        /\ copy = [c \in Copies |-> "none"]
        /\ sent = 0 /\ held = 0 /\ got = 0
        /\ refused = FALSE
        /\ tokens = 0

-----------------------------------------------------------------------------
(* The handshake *)

Goto(l) == pc' = l

\* One io.ReadFull: its bytes lead to step l, an error ends the session.
ReadFull(at, l) ==
    /\ pc = at
    /\ ("client" \in open /\ Goto(l)) \/ Goto("return")
    /\ deadline' = IF pc' = "accepted" THEN "none" ELSE deadline
    /\ UNCHANGED <<start, cancelled, ends, peers, sent, relay>>

\* The first byte is that of a handshake record, or not.
ReadFirst == ReadFull("first", "header") \/ ReadFull("first", "redirect")
ReadHeader == ReadFull("header", "body")     \* an empty record is an error, too
ReadHandshake == ReadFull("handshake", "accepted")

\* The deadline the masking relay starts with: that of the handshake.
BadInherited(d) == "none"                \* cleared, as after a good handshake
Inherited(d) == d

ReadBody ==
    /\ pc = "body"
    /\ \/ Goto("return") /\ UNCHANGED <<hello, parser, deadline>>
       \/ \E h \in Hellos :
            /\ hello' = h
            /\ IF verifyFakeTLSClientHello(h)
               THEN Goto("parse") /\ parser' = Start(h) /\ UNCHANGED deadline
               ELSE Goto("dial") /\ deadline' = Inherited(deadline) /\ UNCHANGED parser
    /\ UNCHANGED <<reply, cancelled, ends, peers, sent, relay>>

\* A write to the client, with a deadline; then step l follows.
WriteClient(at, l) ==
    /\ pc = at
    /\ ("client" \in open /\ Goto(l)) \/ Goto("return")
    /\ deadline' = IF pc' = "handshake" THEN "running" ELSE deadline
    /\ UNCHANGED <<start, cancelled, ends, peers, sent, relay>>

WriteRedirect == WriteClient("redirect", "return")
WriteHello == WriteClient("write", "handshake")

Parse == /\ pc = "parse"
         /\ parser.st # "panic"
         /\ IF parser.st = "parsed" THEN Goto("build") /\ UNCHANGED parser
            ELSE Goto("parse") /\ parser' = Step(parser)
         /\ UNCHANGED <<hello, reply, cancelled, deadline, ends, peers, sent, relay>>

\* probeFakeTLSConn: the length of the first application record after
\* handshake records, and 0 (main leaves it so) if anything else comes first.
probeFakeTLSConn(records) ==
    LET valid(r) == r.version /\ r.len \in 1..(MaxRecord + 256)
        skipped(r) == valid(r) /\ r.type \in {"handshake", "ccs"} /\ ~r.cut
        i == SelectInSeq(records, LAMBDA r : ~skipped(r))
    IN  IF i = 0 THEN 0
        ELSE IF valid(records[i]) /\ records[i].type = "appdata" THEN records[i].len ELSE 0

\* The size of the answer's application record.
EncSizes(len) == IF len <= 0 THEN RandomSizes
                 ELSE {IF len < 64 THEN 64 ELSE IF len > MaxRecord THEN MaxRecord ELSE len}

\* The random source may fail.
Build ==
    /\ pc = "build"
    /\ \/ Goto("return") /\ UNCHANGED reply
       \/ /\ Goto("delay")
          /\ \E profile \in Profiles : \E n \in EncSizes(probeFakeTLSConn(profile)) :
               reply' = [suite |-> CipherSuite(parser), group |-> Group(parser),
                         session |-> SessionID(hello), size |-> n]
    /\ UNCHANGED <<hello, parser, cancelled, deadline, ends, peers, sent, relay>>

Delay == /\ pc = "delay"
         /\ Goto("write") \/ (cancelled /\ Goto("return"))
         /\ UNCHANGED <<start, cancelled, deadline, ends, peers, sent, relay>>

-----------------------------------------------------------------------------
(* proxyToMaskingDomain *)

\* The AfterFunc starts at once if the context is done already.
Dial == /\ pc = "dial"
        /\ \/ Goto("return") /\ UNCHANGED ends
           \/ /\ Goto("initial")
              /\ open' = open \cup {"upstream"}
              /\ closing' = IF cancelled THEN closing \cup {"upstream"} ELSE closing
        /\ UNCHANGED <<start, cancelled, deadline, peers, sent, relay>>

\* The ClientHello goes to the host, with a deadline for the write.
WriteInitial ==
    /\ pc = "initial"
    /\ \/ Goto("return") /\ refused' = TRUE /\ UNCHANGED copy
       \/ /\ "upstream" \in open
          /\ Goto("relay")
          /\ copy' = [c \in Copies |-> "read"]
          /\ UNCHANGED refused
    /\ UNCHANGED <<start, cancelled, deadline, ends, peers, sent, held, got, tokens>>

\* The session waits for the first of the two copies,
BadFirstDone == TRUE                     \* goes on without waiting
FirstDone == tokens > 0

WaitFirst == /\ pc = "relay"
             /\ FirstDone
             /\ Goto("closeClient")
             /\ tokens' = tokens - 1
             /\ UNCHANGED <<start, cancelled, deadline, ends, peers, sent, copy, held, got, refused>>

CloseSide(at, side, l) ==
    /\ pc = at
    /\ Goto(l)
    /\ open' = open \ {side}
    /\ UNCHANGED <<start, cancelled, deadline, closing, peers, sent, relay>>

CloseClient == CloseSide("closeClient", "client", "closeUpstream")
CloseUpstream == CloseSide("closeUpstream", "upstream", "drain")

\* and for the other one, or for fakeTLSDrainGrace.
Drain == /\ pc = "drain"
         /\ Goto("return")
         /\ tokens' \in {tokens, IF tokens > 0 THEN tokens - 1 ELSE 0}
         /\ UNCHANGED <<start, cancelled, deadline, ends, peers, sent, copy, held, got, refused>>

\* The deferred calls, and handleClient's.
Return == /\ pc = "return"
          /\ Goto("done")
          /\ open' = {}
          /\ UNCHANGED <<start, cancelled, deadline, closing, peers, sent, relay>>

-----------------------------------------------------------------------------
(* The copies *)

CopyGoto(c, l) == copy' = [copy EXCEPT ![c] = l]

UpRead ==
    /\ copy["up"] = "read"
    /\ \/ /\ deadline # "passed" /\ "client" \in open
          /\ CopyGoto("up", "write")
       \/ /\ deadline = "passed" \/ "client" \in hung \/ "client" \notin open
          /\ CopyGoto("up", "close")
    /\ UNCHANGED <<pc, start, cancelled, deadline, ends, peers, sent, held, got, refused, tokens>>

\* No deadline: the write ends when the host reads or a side is closed.
UpWrite ==
    /\ copy["up"] = "write"
    /\ \/ /\ "upstream" \in open /\ "upstream" \notin stuck
          /\ CopyGoto("up", "read")
          /\ UNCHANGED refused
       \/ /\ "upstream" \in hung \/ "upstream" \notin open
          /\ CopyGoto("up", "close")
          /\ refused' = TRUE
    /\ UNCHANGED <<pc, start, cancelled, deadline, ends, peers, sent, held, got, tokens>>

\* The chunks before the end of the stream are read first.
DownRead ==
    /\ copy["down"] = "read"
    /\ \/ /\ "upstream" \in open /\ sent > got
          /\ CopyGoto("down", "write")
          /\ held' = 1
       \/ /\ "upstream" \notin open \/ ("upstream" \in hung /\ sent = got)
          /\ CopyGoto("down", "close")
          /\ UNCHANGED held
    /\ UNCHANGED <<pc, start, cancelled, deadline, ends, peers, sent, got, refused, tokens>>

DownWrite ==
    /\ copy["down"] = "write"
    /\ held' = 0
    /\ \/ /\ "client" \in open /\ "client" \notin stuck
          /\ CopyGoto("down", "read")
          /\ got' = got + held
       \/ /\ "client" \in hung \/ "client" \notin open
          /\ CopyGoto("down", "close")
          /\ UNCHANGED got
    /\ UNCHANGED <<pc, start, cancelled, deadline, ends, peers, sent, refused, tokens>>

\* Each copy closes the side it writes to.
CopyClose(c) ==
    /\ copy[c] = "close"
    /\ CopyGoto(c, "exit")
    /\ open' = open \ {IF c = "up" THEN "upstream" ELSE "client"}
    /\ UNCHANGED <<pc, start, cancelled, deadline, closing, peers, sent, held, got, refused, tokens>>

CopyExit(c) ==
    /\ copy[c] = "exit"
    /\ CopyGoto(c, "gone")
    /\ tokens' = tokens + 1
    /\ UNCHANGED <<pc, start, cancelled, deadline, ends, peers, sent, held, got, refused>>

-----------------------------------------------------------------------------
(* The AfterFuncs of this call and of serve, and the environment *)

AfterClose(side) ==
    /\ side \in closing
    /\ closing' = closing \ {side}
    /\ open' = open \ {side}
    /\ UNCHANGED <<pc, start, cancelled, deadline, peers, sent, relay>>

\* Where a change of the environment is noticed; before, a read or write fails.
Masking == pc \in {"dial", "initial", "relay", "closeClient", "closeUpstream", "drain"}

Cancel == /\ Masking \/ pc = "delay"
          /\ ~cancelled
          /\ cancelled' = TRUE
          /\ closing' = open
          /\ UNCHANGED <<pc, start, deadline, open, peers, sent, relay>>

DeadlinePasses ==
    /\ Masking
    /\ deadline = "running"
    /\ deadline' = "passed"
    /\ UNCHANGED <<pc, start, cancelled, ends, peers, sent, relay>>

HostSends == /\ pc = "relay"
             /\ sent < Chunks
             /\ "upstream" \notin hung
             /\ sent' = sent + 1
             /\ UNCHANGED <<pc, start, cancelled, deadline, ends, peers, relay>>

HangUp(side) == /\ pc = "relay"
                /\ hung' = hung \cup {side}
                /\ UNCHANGED <<pc, start, cancelled, deadline, ends, stuck, sent, relay>>

StopReading(side) == /\ pc = "relay"
                     /\ stuck' = stuck \cup {side}
                     /\ UNCHANGED <<pc, start, cancelled, deadline, ends, hung, sent, relay>>

Main == \/ ReadFirst \/ ReadHeader \/ ReadBody \/ ReadHandshake
        \/ WriteRedirect \/ WriteHello \/ Parse \/ Build \/ Delay
        \/ Dial \/ WriteInitial \/ WaitFirst \/ CloseClient \/ CloseUpstream
        \/ Drain \/ Return

Up == UpRead \/ UpWrite \/ CopyClose("up") \/ CopyExit("up")
Down == DownRead \/ DownWrite \/ CopyClose("down") \/ CopyExit("down")

Next == \/ Main \/ Up \/ Down
        \/ \E side \in Sides : AfterClose(side) \/ HangUp(side) \/ StopReading(side)
        \/ Cancel \/ DeadlinePasses \/ HostSends

Fairness == /\ WF_vars(Main) /\ WF_vars(Up) /\ WF_vars(Down)
            /\ WF_vars(DeadlinePasses)
            /\ \A side \in Sides : WF_vars(AfterClose(side))

Spec == Init /\ [][Next]_vars /\ Fairness

-----------------------------------------------------------------------------
(* Properties *)

\* The parser never reads beyond what it was given, whatever a client that
\* knows the secret sends: a panic would end the session without an answer.
InBounds == parser.st # "panic"

\* The answer fits the hello that was sent (hello.offer says what it offered):
\* a suite the client offered if it offered one the proxy knows, the hybrid
\* group only for a first share of that group of the right length, the session
\* ID of the client, and a size TLS allows, whatever the masking host answered
\* to the probe.
Agreed ==
    reply # None =>
      /\ reply.size \in 64..MaxRecord
      /\ hello.offer # None =>
           LET known == {i \in DOMAIN Preferred : Contains(hello.offer.suites, Preferred[i])}
               shares == hello.offer.shares
           IN  /\ known # {} => /\ Contains(hello.offer.suites, reply.suite)
                                /\ \A i \in known : \E j \in 1..i : reply.suite = Preferred[j]
               /\ reply.group = MLKEM <=>
                    \E i \in DOMAIN shares : /\ shares[i].group = MLKEM /\ shares[i].len = MLKEMShare
                                             /\ \A j \in 1..(i - 1) : shares[j].group # MLKEM
               /\ Len(hello.offer.session) = MaxSession => reply.session = hello.offer.session

\* As long as neither the client ends its side, nor a write to the host fails,
\* nor the inherited deadline or the shutdown cuts the relay, the client's
\* connection is closed only after the host's, with all of its answer.
Transparent ==
    /\ copy["down"] # "none" /\ "client" \notin open
    /\ ~cancelled /\ deadline # "passed" /\ "client" \notin hung /\ ~refused
    => "upstream" \in hung /\ got = sent

\* A masking relay ends, closes both connections and leaves no goroutine
\* behind, although neither of its copies writes with a deadline: the read
\* deadline of the handshake ends the up copy, and each end unblocks the other.
\* Only a host that neither reads nor closes can prevent it until the shutdown.
Ends == pc = "relay" ~>
          \/ pc = "done" /\ open = {} /\ \A c \in Copies : copy[c] = "gone"
          \/ "upstream" \in stuck /\ "upstream" \notin hung /\ ~cancelled
=============================================================================
