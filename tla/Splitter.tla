------------------------------ MODULE Splitter ------------------------------
(***************************************************************************)
(* msgSplitter (splitter.go): cuts the decrypted client stream, which      *)
(* arrives in chunks of any size, into the packets of the MTProto          *)
(* transport, so that each becomes one WebSocket message.  A header it     *)
(* cannot follow, or more than MaxPacket bytes at once, switches it off:   *)
(* from then on chunks pass unchanged.                                     *)
(*                                                                         *)
(* A splitter is a record with the fields of msgSplitter; split and flush  *)
(* give its next value and the parts that are returned.  A byte is a       *)
(* record whose field val is its number (module Ciphers).  Faulty variants *)
(* are named Bad..., as in WSPool.                                         *)
(***************************************************************************)
EXTENDS Integers, Sequences, SequencesExt

CONSTANT MaxPacket    \* maxSplitterPacketBytes

ASSUME SplitterAssumption == MaxPacket \in Nat

msgSplitter(proto) == [proto |-> proto, plainBuf |-> <<>>, disabled |-> FALSE]

\* The length of the packet that starts a buffer, if that is in the buffer;
\* -1 if more bytes are needed, 0 if there is no such packet.
BadComplete(b, n) == IF Len(b) <= n THEN -1 ELSE n    \* waits for one byte too many
Complete(b, n) == IF Len(b) < n THEN -1 ELSE n

\* Bytes as a little-endian number.
LE(b, i, j) == FoldRight(LAMBDA x, sum : x.val + 256 * sum, SubSeq(b, i, j), 0)

\* No packet of this size is waited for.
Oversize(header, payload) == header + payload > MaxPacket

nextAbridgedLen(b) ==
    LET long == b[1].val \in {127, 255}
        header == IF long THEN 4 ELSE 1
        payload == 4 * (IF long THEN LE(b, 2, 4) ELSE b[1].val % 128)
    IN  IF long /\ Len(b) < 4 THEN -1
        ELSE IF payload = 0 \/ Oversize(header, payload) THEN 0
        ELSE Complete(b, header + payload)

\* The top bit of the length is a flag.
nextIntermediateLen(b) ==
    LET payload == LE([b EXCEPT ![4].val = @ % 128], 1, 4)
    IN  IF Len(b) < 4 THEN -1
        ELSE IF payload = 0 \/ Oversize(4, payload) THEN 0
        ELSE Complete(b, 4 + payload)

nextPacketLen(m, b) == IF b = <<>> THEN -1
                       ELSE IF m.proto = "abridged" THEN nextAbridgedLen(b)
                       ELSE nextIntermediateLen(b)

\* split's loop over the buffer b: the parts it cuts off, the rest, and
\* whether the rest starts with a header it cannot follow.
Loop(m, b) ==
    LET from[i \in 0..Len(b)] ==
          LET rest == SubSeq(b, i + 1, Len(b))
              next == nextPacketLen(m, rest)
          IN  IF next <= 0 THEN [cut |-> <<>>, rest |-> rest, off |-> next = 0]
              ELSE LET r == from[i + next]
                   IN  [r EXCEPT !.cut = <<SubSeq(rest, 1, next)>> \o @]
    IN  from[0]

\* A buffer as the list of parts that it is: none if it is empty.
Part(b) == IF b = <<>> THEN <<>> ELSE <<b>>

\* What is returned when the chunk is more than the splitter will buffer.
GiveUp(m, chunk) == Part(m.plainBuf) \o <<chunk>>

split(m, chunk) ==
    LET r == Loop(m, m.plainBuf \o chunk)
        off == [m EXCEPT !.plainBuf = <<>>, !.disabled = TRUE]
    IN  CASE m.disabled -> [m |-> m, parts |-> Part(chunk)]
          [] ~m.disabled /\ Len(m.plainBuf) + Len(chunk) > MaxPacket ->
               [m |-> off, parts |-> GiveUp(m, chunk)]
          [] OTHER -> IF r.off THEN [m |-> off, parts |-> r.cut \o <<r.rest>>]
                      ELSE [m |-> [m EXCEPT !.plainBuf = r.rest], parts |-> r.cut]

\* What is left when the stream ends.
flush(m) == [m |-> [m EXCEPT !.plainBuf = <<>>], parts |-> Part(m.plainBuf)]

-----------------------------------------------------------------------------
\* What a packet is on the wire, independently of the splitter: a header that
\* gives its length.
Packet(proto, p) ==
    LET v(i) == p[i].val IN
      /\ Len(p) \in 1..MaxPacket
      /\ IF proto = "abridged"
         THEN \/ v(1) % 128 \in 1..126 /\ Len(p) = 1 + 4 * (v(1) % 128)
              \/ /\ v(1) % 128 = 127 /\ Len(p) > 4
                 /\ Len(p) = 4 * (1 + v(2) + 256 * v(3) + 65536 * v(4))
         ELSE /\ Len(p) > 4
              /\ Len(p) = 4 + v(1) + 256 * v(2) + 65536 * v(3) + 16777216 * (v(4) % 128)

\* A stream that is nothing but packets of at most max bytes.
Packets(proto, b, max) ==
    LET from[i \in 0..Len(b)] ==
          i = Len(b) \/ \E n \in 1..(Len(b) - i) :
                          /\ n <= max
                          /\ Packet(proto, SubSeq(b, i + 1, i + n))
                          /\ from[i + n]
    IN  from[0]
=============================================================================
