----------------------------- MODULE ClientHello ----------------------------
(***************************************************************************)
(* The TLS handshake messages of Fake TLS (fake_tls.go): verification and  *)
(* parsing of a ClientHello, choice of the ServerHello's parameters.       *)
(*                                                                         *)
(* A hello is a record: what its first 43 bytes amount to, and body, the   *)
(* bytes from the session ID's length on.  SHA-256 and the clock are the   *)
(* fields mac and skew.  The parser is a state [st, data, shares, suites,  *)
(* keyShares] that Step advances by one round of its loops; data and       *)
(* shares are the slices of the code.  Where a slice is shorter than an    *)
(* expression needs, Go panics, or reads on in the array below it: the     *)
(* parser's state is then "panic".                                         *)
(***************************************************************************)
EXTENDS Integers, Sequences, SequencesExt

CONSTANTS MaxSession,      \* 32, the length of a session ID
          MLKEMShare,      \* 1216, the length of an X25519MLKEM768 share
          Tolerance        \* tlsTimestampTolerance

KeyShareExt == 51          \* 0x0033
X25519 == 29               \* 0x001d
MLKEM == 4588              \* 0x11ec
Preferred == <<4865, 4867, 4866>>     \* 0x1301, 0x1303, 0x1302

From(s, i) == SubSeq(s, i + 1, Len(s))
U16(s) == 256 * s[1] + s[2]

-----------------------------------------------------------------------------
(* verifyFakeTLSClientHello *)

\* skew is the hello's time less the clock, in seconds.
verifyFakeTLSClientHello(h) ==
    ~h.short /\ h.clientHello /\ h.mac /\ h.skew \in -Tolerance..Tolerance

\* The session ID the answer repeats: zeros unless the hello has a full one.
SessionID(h) ==
    IF Len(h.body) > MaxSession /\ h.body[1] = MaxSession
    THEN SubSeq(h.body, 2, MaxSession + 1) ELSE [i \in 1..MaxSession |-> 0]

-----------------------------------------------------------------------------
(* parseFakeTLSClientHello *)

Empty == [st |-> "parsed", data |-> <<>>, shares |-> <<>>, suites |-> <<>>, keyShares |-> <<>>]

Start(h) == IF h.body = <<>> \/ ~h.lenOK THEN Empty
            ELSE [Empty EXCEPT !.st = "session", !.data = h.body]

\* The code reads n bytes of slice s; then the result is r.
Reading(p, n, s, r) == IF Len(s) < n THEN [p EXCEPT !.st = "panic"] ELSE r

Session(p) ==
    LET n == p.data[1]
    IN  IF n > MaxSession \/ 1 + n + 2 > Len(p.data) THEN Empty
        ELSE [p EXCEPT !.st = "suites", !.data = From(@, 1 + n)]

\* After the suites there is at least the length of the compression methods.
BadTooLong(n, data) == n > Len(data)        \* the suites may be all there is
TooLong(n, data) == n >= Len(data)

Suites(p) ==
    LET n == U16(p.data)
        data == From(p.data, 2)
    IN  IF n = 0 \/ n % 2 # 0 \/ TooLong(n, data) THEN Empty
        ELSE [p EXCEPT !.st = "compression", !.data = From(data, n),
                       !.suites = [i \in 1..(n \div 2) |-> U16(From(data, 2 * i - 2))]]

Compression(p) ==
    LET n == p.data[1]
    IN  IF n = 0 \/ 1 + n + 2 > Len(p.data) THEN Empty
        ELSE [p EXCEPT !.st = "extensions", !.data = From(@, 1 + n)]

Extensions(p) ==
    IF U16(p.data) # Len(p.data) - 2 THEN Empty
    ELSE [p EXCEPT !.st = "extension", !.data = From(@, 2)]

\* An extension, and a share, start with a type and a length n of two bytes each.
BadExceeds(n, s) == n > Len(s)              \* counts these bytes, too
TooShort(s) == Len(s) < 4
Exceeds(n, s) == n > Len(s) - 4

Extension(p) ==
    LET type == U16(p.data)
        n == U16(From(p.data, 2))
        ext == SubSeq(p.data, 5, 4 + n)
        next == From(p.data, 4 + n)
        keys == IF U16(ext) # n - 2 THEN Empty
                ELSE [p EXCEPT !.st = "share", !.data = next, !.shares = From(ext, 2)]
        found == IF type # KeyShareExt THEN [p EXCEPT !.data = next]
                 ELSE IF n < 2 THEN Empty ELSE Reading(p, 2, ext, keys)
        sized == IF Exceeds(n, p.data) THEN Empty ELSE Reading(p, 4 + n, p.data, found)
    IN  IF p.data = <<>> THEN [p EXCEPT !.st = "parsed"]
        ELSE IF TooShort(p.data) THEN Empty ELSE Reading(p, 4, p.data, sized)

\* Only the first share of a group enters the map.
BadAddShare(shares, group, n) ==              \* the last one wins
    [g \in DOMAIN shares \cup {group} |-> IF g = group THEN n ELSE shares[g]]
AddShare(shares, group, n) ==
    [g \in DOMAIN shares \cup {group} |-> IF g \in DOMAIN shares THEN shares[g] ELSE n]

Share(p) ==
    LET n == U16(From(p.shares, 2))
        noted == [p EXCEPT !.shares = From(@, 4 + n),
                           !.keyShares = AddShare(@, U16(p.shares), n)]
        sized == IF Exceeds(n, p.shares) THEN Empty ELSE Reading(p, 4 + n, p.shares, noted)
    IN  IF p.shares = <<>> THEN [p EXCEPT !.st = "extension"]
        ELSE IF TooShort(p.shares) THEN Empty ELSE Reading(p, 4, p.shares, sized)

Step(p) == CASE p.st = "session" -> Reading(p, 1, p.data, Session(p))
             [] p.st = "suites" -> Reading(p, 2, p.data, Suites(p))
             [] p.st = "compression" -> Reading(p, 1, p.data, Compression(p))
             [] p.st = "extensions" -> Reading(p, 2, p.data, Extensions(p))
             [] p.st = "extension" -> Extension(p)
             [] p.st = "share" -> Share(p)

-----------------------------------------------------------------------------
(* buildFakeTLSServerHello *)

Group(p) == IF MLKEM \in DOMAIN p.keyShares /\ p.keyShares[MLKEM] = MLKEMShare
            THEN MLKEM ELSE X25519

\* The first preferred suite that is offered.
CipherSuite(p) ==
    LET i == SelectInSeq(Preferred, LAMBDA c : Contains(p.suites, c))
    IN  IF i = 0 THEN Preferred[1] ELSE Preferred[i]
=============================================================================
