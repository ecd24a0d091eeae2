------------------------------ MODULE Ciphers -------------------------------
(***************************************************************************)
(* The MTProto handshake and the four key streams of a session (crypto.go).*)
(*                                                                         *)
(* A byte is its value and the set of key stream bytes it was combined     *)
(* with: XOR with the same key stream byte twice cancels out, and a byte   *)
(* is readable if no layer is left.  A key stream is AES-CTR with a key,   *)
(* an IV and the position it has reached.  SHA-256 of a prekey and the     *)
(* secret is the pair of them.                                             *)
(*                                                                         *)
(* The layout of a handshake is that of the code with shorter fields: what *)
(* is skipped, prekey, IV, tag and data centre index.  The tag is one      *)
(* "byte" whose value is its name, the index one whose value is 0..65535;  *)
(* the two bytes after it carry nothing.                                   *)
(***************************************************************************)
EXTENDS Integers, Sequences, SequencesExt

CONSTANTS skipLen, prekeyLen, ivLen,
          Reserved      \* beginnings that mean another protocol

ASSUME CiphersAssumption == skipLen \in Nat /\ prekeyLen \in Nat /\ ivLen \in Nat

protoTagPos == skipLen + prekeyLen + ivLen
dcIdxPos == protoTagPos + 1
handshakeLen == dcIdxPos + 1

Tags == {"abridged", "intermediate", "secure"}

Byte(v) == [val |-> v, layers |-> {}]
Plain(b) == b.layers = {}

NewCTR(key, iv) == [key |-> key, iv |-> iv, pos |-> 0]
Advance(stream, n) == [stream EXCEPT !.pos = @ + n]

\* XORKeyStream: the bytes that come out; the stream then stands Len(bytes) further.
XOR(stream, bytes) ==
    [i \in DOMAIN bytes |->
       LET k == [stream EXCEPT !.pos = @ + i - 1]
       IN  [bytes[i] EXCEPT !.layers = (@ \ {k}) \cup ({k} \ @)]]

keyFromPrekeyAndSecret(prekey, secret) == <<prekey, secret>>

Prekey(pi) == SubSeq(pi, 1, prekeyLen)
IV(pi) == SubSeq(pi, prekeyLen + 1, Len(pi))
PrekeyAndIV(handshake) == SubSeq(handshake, skipLen + 1, protoTagPos)

\* The stream a client, and the stream Telegram, is read with.
ClientStream(pi, secret) == NewCTR(keyFromPrekeyAndSecret(Prekey(pi), secret), IV(pi))
RelayStream(pi) == NewCTR(Prekey(pi), IV(pi))

-----------------------------------------------------------------------------
(* The data centre index *)

Int16(n) == LET w == n % 65536 IN IF w >= 32768 THEN w - 65536 ELSE w
Uint16(n) == n % 65536
Abs(n) == IF n < 0 THEN -n ELSE n

signedDC(dc, media) == IF media THEN Int16(-dc) ELSE Int16(dc)

-----------------------------------------------------------------------------
(* The handshakes *)

tryHandshake(handshake, secret) ==
    LET pi == PrekeyAndIV(handshake)
        decrypted == XOR(ClientStream(pi, secret), handshake)
        tag == decrypted[protoTagPos + 1]
        dcIdx == Int16(decrypted[dcIdxPos + 1].val)
    IN  IF Plain(tag) /\ tag.val \in Tags
        THEN [ok |-> TRUE, DC |-> Abs(dcIdx), IsMedia |-> dcIdx < 0,
              ProtoTag |-> tag.val, ClientDecI |-> pi]
        ELSE [ok |-> FALSE]

\* The loop draws until the bytes begin with nothing reserved; the tail is
\* encrypted where the stream stands after what precedes it.
Acceptable(rnd) == ~\E r \in Reserved : IsPrefix(r, rnd)

generateRelayInit(rnd, protoTag, dcIdx) ==
    LET tail == [rnd EXCEPT ![protoTagPos + 1] = Byte(protoTag),
                            ![dcIdxPos + 1] = Byte(Uint16(dcIdx))]
        encrypted == XOR(RelayStream(PrekeyAndIV(rnd)), tail)
    IN  [i \in DOMAIN rnd |-> IF i > protoTagPos THEN encrypted[i] ELSE rnd[i]]

\* How far the streams are advanced for the handshake each has carried.
Skip == handshakeLen

buildCiphers(clientDecPrekeyAndIV, relayInit, secret) ==
    LET relay == PrekeyAndIV(relayInit)
    IN  [cltDec |-> Advance(ClientStream(clientDecPrekeyAndIV, secret), Skip),
         cltEnc |-> ClientStream(Reverse(clientDecPrekeyAndIV), secret),
         tgEnc |-> Advance(RelayStream(relay), Skip),
         tgDec |-> RelayStream(Reverse(relay))]
=============================================================================
