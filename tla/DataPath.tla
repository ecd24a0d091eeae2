------------------------------ MODULE DataPath ------------------------------
(***************************************************************************)
(* What happens to the bytes of one session on their way: from the client, *)
(* through the record layer (with Fake TLS), the handshake, the ciphers    *)
(* and the splitter to Telegram, and back (server.go, transport.go and the *)
(* modules this one composes).                                             *)
(*                                                                         *)
(* The goroutines, failures and closes of a session are in Bridge; here    *)
(* every write succeeds, and the question is what arrives.  Reads return   *)
(* as few or as many bytes as they may.  Keys are chosen by the client and *)
(* by generateRelayInit; both ends follow the obfuscated MTProto transport *)
(* (external): the stream of each direction has the key of the handshake   *)
(* or of its reverse.                                                      *)
(***************************************************************************)
EXTENDS Splitter, TLSRecords, Ciphers

CONSTANTS Sessions,    \* [tls, secret, hs, proto, dcIdx, up, down]: what occurs
          Randoms,     \* what rand.Read may return in generateRelayInit
          Secret,      \* the secret of the proxy
          BufLen       \* the size of the pumps' buffers

VARIABLES
    s,          \* the session: an element of Sessions
    pc,         \* "handshake", "bridge", or "done"
    pos,        \* how much of its stream the client's records or segments held
    readBuf,    \* fakeTLSConn.readBuf
    hs,         \* what the handshake's io.ReadFull has read
    cs,         \* cltDec, cltEnc, tgEnc and tgDec
    splitter,   \* the splitter, if one was passed to bridgeWS
    splits,     \* whether one was
    up,         \* the bytes that Telegram got
    parts,      \* the messages they last came in, while the splitter was on
    lost,       \* bytes that arrived in a record that was cut short
    sent,       \* how much Telegram has sent
    down        \* the records, or writes, that the client got

vars == <<s, pc, pos, readBuf, hs, cs, splitter, splits, up, parts, lost, sent, down>>

-----------------------------------------------------------------------------
(* The two ends, external *)

Bytes(vals) == [i \in DOMAIN vals |-> Byte(vals[i])]

\* The client's handshake and payload, encrypted from the handshake's tail on.
ClientPlain == s.hs \o <<Byte(s.proto), Byte(s.dcIdx)>> \o Bytes(s.up)
ClientWire ==
    LET stream == ClientStream(PrekeyAndIV(ClientPlain), s.secret)
        encrypted == XOR(stream, ClientPlain)
    IN  [i \in DOMAIN encrypted |-> IF i > protoTagPos THEN encrypted[i] ELSE ClientPlain[i]]
ClientDecrypts(bytes) ==
    XOR(ClientStream(Reverse(PrekeyAndIV(s.hs)), s.secret), bytes)

\* Telegram reads from the handshake it got on, and sends with the reverse key.
TelegramDecrypts(bytes) == XOR(RelayStream(PrekeyAndIV(bytes)), bytes)
TelegramWire == XOR(RelayStream(Reverse(PrekeyAndIV(up))), Bytes(s.down))

-----------------------------------------------------------------------------
Init == /\ s \in Sessions
        /\ pc = "handshake"
        /\ pos = 0
        /\ readBuf = <<>> /\ hs = <<>>
        /\ cs = <<>>
        /\ splitter = msgSplitter("none")
        /\ splits = FALSE
        /\ up = <<>> /\ parts = <<>> /\ down = <<>>
        /\ lost = 0 /\ sent = 0

\* What the client's connection may deliver next: n more bytes of the stream,
\* in a record that others may precede; or its end: the connection or the TLS
\* session ends, or within a record of which n bytes arrive.
Before == {<<>>, <<Record(CCS, <<Byte(1)>>), Record(AppData, <<>>)>>}
Arriving(n) == SubSeq(ClientWire, pos + 1, pos + n)
Left == Len(ClientWire) - pos
Cut(r) == [r EXCEPT !.cut = TRUE]
Endings(n) == IF n > 0 THEN {<<Cut(Record(AppData, Arriving(n)))>>}
              ELSE {<<>>, <<Record(Alert, <<>>)>>, <<Cut(Record(CCS, <<>>))>>}

Outcome(r, n, gone) == [data |-> r.data, buf |-> r.buf, err |-> r.err, took |-> n, lost |-> gone]

\* The outcomes of client.Read into a buffer of this size.  A plain connection
\* has neither records nor a buffer of its own.
PlainReads(size) ==
    {Outcome([data |-> Arriving(n), buf |-> <<>>, err |-> n = 0], n, 0) :
        n \in {k \in 0..Left : k <= size}}

RecordReads(size) ==
    {Outcome(Read(<<>>, Append(b, Record(AppData, Arriving(n))), size), n, 0) :
        b \in Before, n \in 1..Left}
    \cup UNION {{Outcome(Read(<<>>, b \o e, size), n, n) : b \in Before, e \in Endings(n)} : n \in 0..Left}

ClientReads(size) == IF ~s.tls THEN PlainReads(size)
                     ELSE IF readBuf # <<>> THEN {Outcome(Read(readBuf, <<>>, size), 0, 0)}
                     ELSE RecordReads(size)

\* The state of the connection after a read.
AfterRead(r) == /\ pos' = pos + r.took
                /\ readBuf' = r.buf
                /\ lost' = r.lost

\* The handshake is complete: the session is refused or, with a splitter or
\* without one (workers and TCP), it is bridged to the route that was found,
\* whose first message is the init.
handleMTProtoClient(handshake) ==
    LET hi == tryHandshake(handshake, Secret)
    IN  IF ~hi.ok
        THEN pc' = "done" /\ UNCHANGED <<cs, splitter, splits, up>>
        ELSE \E rnd \in Randoms :
               LET relayInit == generateRelayInit(rnd, hi.ProtoTag, signedDC(hi.DC, hi.IsMedia))
               IN  /\ Acceptable(rnd)
                   /\ pc' = "bridge"
                   /\ cs' = buildCiphers(hi.ClientDecI, relayInit, Secret)
                   /\ splitter' = msgSplitter(hi.ProtoTag)
                   /\ splits' \in BOOLEAN
                   /\ up' = relayInit

\* One read of io.ReadFull for the handshake.
ReadHandshake ==
    /\ pc = "handshake"
    /\ \E r \in ClientReads(handshakeLen - Len(hs)) :
         /\ AfterRead(r)
         /\ hs' = hs \o r.data
         /\ CASE r.err -> pc' = "done" /\ UNCHANGED <<cs, splitter, splits, up>>
              [] ~r.err /\ Len(hs \o r.data) < handshakeLen ->
                   UNCHANGED <<pc, cs, splitter, splits, up>>
              [] OTHER -> handleMTProtoClient(hs \o r.data)
    /\ UNCHANGED <<s, parts, sent, down>>

-----------------------------------------------------------------------------
(* The pumps *)

\* The up pump: a read, and the writes of what it yields; after an error what
\* the splitter still holds.
Up ==
    /\ pc = "bridge"
    /\ \E r \in ClientReads(BufLen) :
         LET chunk == XOR(cs.cltDec, r.data)
             cut == IF r.err THEN flush(splitter) ELSE split(splitter, chunk)
             messages == IF splits THEN cut.parts ELSE Part(chunk)
             bytes == FlattenSeq(messages)
         IN  /\ AfterRead(r)
             /\ pc' = IF r.err THEN "done" ELSE pc
             /\ splitter' = IF splits THEN cut.m ELSE splitter
             /\ parts' = IF splits /\ ~cut.m.disabled THEN messages ELSE <<>>
             /\ up' = up \o XOR(cs.tgEnc, bytes)
             /\ cs' = [cs EXCEPT !.cltDec = Advance(@, Len(chunk)),
                                 !.tgEnc = Advance(@, Len(bytes))]
    /\ UNCHANGED <<s, hs, splits, sent, down>>

\* What the client gets of a write.
Write(p) == IF s.tls THEN wrapFakeTLSRecords(p) ELSE <<Record(AppData, p)>>

\* The down pump: n bytes of a message are read and written to the client.
Down(n) ==
    LET chunk == SubSeq(TelegramWire, sent + 1, sent + n)
    IN  /\ pc = "bridge"
        /\ n <= BufLen
        /\ sent' = sent + n
        /\ down' = down \o Write(XOR(cs.cltEnc, XOR(cs.tgDec, chunk)))
        /\ cs' = [cs EXCEPT !.tgDec = Advance(@, n), !.cltEnc = Advance(@, n)]
        /\ UNCHANGED <<s, pc, pos, readBuf, hs, splitter, splits, up, parts, lost>>

Next == ReadHandshake \/ Up \/ \E n \in 1..(Len(s.down) - sent) : Down(n)

Spec == Init /\ [][Next]_vars

-----------------------------------------------------------------------------
(* Properties *)

\* What Telegram and the client can read of what they got.
TelegramHas == TelegramDecrypts(up)
ClientHas == ClientDecrypts(FlattenSeq([i \in DOMAIN down |-> down[i].body]))

\* What has been decrypted for Telegram or is to be, and not yet written.
Waiting == splitter.plainBuf \o XOR(cs.cltDec, readBuf)

\* Telegram reads the client's protocol, data centre and payload, whatever the
\* client's records, the reads, the route and the splitter did to them: what
\* it has and what is still waiting here is what came in, without the bytes of
\* a record that was cut short; when the session ends nothing waits any more.
\* A complete handshake is refused exactly if the secret or the tag is wrong.
\* One byte lost, repeated or encrypted out of place (the rest of the record
\* that held the end of the handshake, a position of tgEnc) breaks this for
\* the rest of the session.
Upstream ==
    /\ up # <<>> =>
         /\ Drop(TelegramHas \o Waiting, protoTagPos)
              = SubSeq(ClientPlain, protoTagPos + 1, pos - lost)
         /\ pc = "done" => Waiting = <<>>
    /\ Len(hs) = handshakeLen =>
         (up # <<>> <=> s.secret = Secret /\ s.proto \in Tags)

\* The client reads what Telegram sent, and with Fake TLS every record it gets
\* has a body that TLS allows.
Downstream ==
    /\ ClientHas = Bytes(SubSeq(s.down, 1, sent))
    /\ s.tls => \A i \in DOMAIN down : Len(down[i].body) \in 1..MaxRecord

\* The proxy is transparent to both ends, and each understands the other.
EndToEnd == Upstream /\ Downstream

\* While the splitter is on, every message after the init is one packet and
\* none that is complete is held back; and it stays on for a client that
\* sends packets small enough for any read to fit in the buffer with them.
Framed ==
    pc = "bridge" /\ splits =>
      IF splitter.disabled
      THEN ~Packets(s.proto, Bytes(s.up), MaxPacket - BufLen + 1)
      ELSE /\ \A i \in DOMAIN parts : Packet(s.proto, parts[i])
           /\ \A n \in 1..Len(splitter.plainBuf) :
                ~Packet(s.proto, SubSeq(splitter.plainBuf, 1, n))
=============================================================================
