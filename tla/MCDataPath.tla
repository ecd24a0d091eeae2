----------------------------- MODULE MCDataPath -----------------------------
(***************************************************************************)
(* Instances of DataPath for TLC.  Payloads are chains of up to three      *)
(* pieces: packets (short, long, with the flag bit, as large as possible), *)
(* truncated ones, and headers with no or too long a payload.  A session   *)
(* has a long payload upwards, or short ones both ways, so that the sizes  *)
(* of the two directions add up rather than multiply.                      *)
(***************************************************************************)
EXTENDS DataPath

Abridged == {<<1, 9, 9, 9, 9>>, <<129, 9, 9, 9, 9>>, <<255, 1, 0, 0, 9, 9, 9, 9>>,
             <<127, 2, 0, 0, 9, 9, 9, 9, 9, 9, 9, 9>>, <<0>>, <<127, 0, 0, 0>>,
             <<127, 3, 0, 0, 9>>, <<1, 9>>, <<127, 1>>}

Intermediate == {<<1, 0, 0, 0, 9>>, <<2, 0, 0, 128, 9, 9>>, <<8, 0, 0, 0, 9, 9, 9, 9, 9, 9, 9, 9>>,
                 <<0, 0, 0, 128>>, <<9, 0, 0, 0, 9>>, <<1, 0>>}

\* Every way to put one or two pieces one after the other, and a third after
\* two that are alike.
Chains(P) == P \cup {p \o q : p, q \in P} \cup {p \o p \o q : p, q \in P}

Handshake == [i \in 1..protoTagPos |-> Byte(200 + i)]
Session(tls, proto, dcIdx, u, d) ==
    [tls |-> tls, secret |-> Secret, hs |-> Handshake, proto |-> proto,
     dcIdx |-> dcIdx, up |-> u, down |-> d]

\* Long payloads upwards.
Payloads == {Session(tls, "abridged", 2, u, <<>>) : tls \in BOOLEAN, u \in Chains(Abridged)}
       \cup {Session(tls, proto, 65534, u, <<>>) : tls \in BOOLEAN, u \in Chains(Intermediate),
                                                    proto \in {"intermediate", "secure"}}

\* The borders of the index, both directions, and handshakes that are refused.
Others == {Session(tls, "abridged", dc, <<1, 9, 9, 9, 9>>, <<7, 8, 9, 6, 5>>) :
             tls \in BOOLEAN, dc \in {0, 1, 203, 32767, 32768, 65535}}
     \cup {[Session(tls, "abridged", 2, <<1>>, <<>>) EXCEPT !.secret = "other"] : tls \in BOOLEAN}
     \cup {Session(tls, "bogus", 2, <<1>>, <<>>) : tls \in BOOLEAN}

AllSessions == Payloads \cup Others

\* A beginning that is refused and one that is not.
Random(first) == [i \in 1..handshakeLen |-> Byte(IF i = 1 THEN first ELSE 100 + i)]
AllRandoms == {Random(100), Random(239)}
AllReserved == {<<Byte(239)>>}
=============================================================================
