----------------------------- MODULE MCFakeTLS ------------------------------
(***************************************************************************)
(* Instances of FakeTLS for TLC: well-formed ClientHellos, with what they  *)
(* offer, and what becomes of them when they are cut anywhere or one byte  *)
(* is changed.  Session IDs and hybrid shares have lengths of 1 and 2      *)
(* instead of 32 and 1216.                                                 *)
(***************************************************************************)
EXTENDS FakeTLS

Two(n) == <<n \div 256, n % 256>>
Zeros(n) == [i \in 1..n |-> 0]
Sized(s) == Two(Len(s)) \o s

\* The bytes of a hello from the length of the session ID on.
EncodedShare(x) == Two(x.group) \o Sized(Zeros(x.len))
Encoded(o) ==
    LET shares == FlattenSeq([i \in DOMAIN o.shares |-> EncodedShare(o.shares[i])])
        exts == IF o.shares = <<>> THEN Two(10) \o Sized(<<7>>)
                ELSE Two(10) \o Sized(<<7>>) \o Two(KeyShareExt) \o Sized(Sized(shares))
    IN  <<Len(o.session)>> \o o.session
          \o Sized(FlattenSeq([i \in DOMAIN o.suites |-> Two(o.suites[i])]))
          \o <<1, 0>> \o Sized(exts)

\* The offer, and where in these bytes its extensions and shares are.
Placed(o) ==
    LET first == Len(o.session) + 2 * Len(o.suites) + 7
        at[i \in 1..(Len(o.shares) + 1)] ==
            IF i = 1 THEN first + 11 ELSE at[i - 1] + 4 + o.shares[i - 1].len
        end == at[Len(o.shares) + 1]
    IN  [session |-> o.session, suites |-> o.suites, shares |-> o.shares, at |-> at,
         key |-> IF o.shares = <<>> THEN 0 ELSE 2,
         exts |-> <<first, first + 5>> \o IF o.shares = <<>> THEN <<>> ELSE <<end>>]

Share1(g, n) == [group |-> g, len |-> n]
Offers == [session : {<<>>, <<5>>},
           suites : {<<4866>>, <<4866, 4867>>, <<4867, 4865>>, <<47>>},
           shares : {<<>>, <<Share1(X25519, 1)>>,
                     <<Share1(MLKEM, 2), Share1(X25519, 1)>>,
                     <<Share1(MLKEM, 1), Share1(MLKEM, 2)>>}]

Hello(body, offer) == [short |-> FALSE, clientHello |-> TRUE, mac |-> TRUE, skew |-> 0,
                       lenOK |-> TRUE, body |-> body, offer |-> offer]

\* The hellos of users, damaged or not.
Good == {Hello(Encoded(o), Placed(o)) : o \in Offers}
Damaged ==
    LET bases == {Encoded(o) : o \in [session : {<<5>>}, suites : {<<4866, 4867>>},
                                      shares : {<<>>, <<Share1(MLKEM, 2), Share1(X25519, 1)>>}]}
    IN  UNION {{Hello(SubSeq(b, 1, n), None) : n \in 0..(Len(b) - 1)} : b \in bases}
        \cup UNION {{Hello([b EXCEPT ![i] = v], None) : i \in DOMAIN b, v \in 0..9 \cup {20, 255}} : b \in bases}

\* Hellos that are not verified, or at the borders of the tolerance.
Others == LET h == CHOOSE g \in Good : TRUE
          IN  {[h EXCEPT !.short = TRUE], [h EXCEPT !.clientHello = FALSE], [h EXCEPT !.mac = FALSE],
               [h EXCEPT !.skew = Tolerance + 1], [h EXCEPT !.skew = -Tolerance],
               [h EXCEPT !.lenOK = FALSE, !.offer = None]}

AllHellos == Good \cup Damaged \cup Others

\* Answers of the masking host to the probe.
TLSRecord(type, len) == [type |-> type, len |-> len, version |-> TRUE, cut |-> FALSE]
AllProfiles ==
    {<<>>, <<TLSRecord("handshake", 90), TLSRecord("ccs", 1), TLSRecord("appdata", 20)>>,
     <<TLSRecord("handshake", 90), TLSRecord("appdata", MaxRecord + 256)>>,
     <<TLSRecord("appdata", MaxRecord + 257)>>, <<TLSRecord("handshake", 90), TLSRecord("alert", 2)>>,
     <<[TLSRecord("handshake", 90) EXCEPT !.cut = TRUE], TLSRecord("appdata", 3000)>>}
=============================================================================
