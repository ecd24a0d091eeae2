--------------------------- MODULE FakeTLSProofs ----------------------------
(***************************************************************************)
(* Proofs about Fake TLS: the parser of ClientHellos, for hellos of any    *)
(* length and content, and the masking relay, for answers of any length.   *)
(***************************************************************************)
EXTENDS FakeTLS, SequenceTheorems, TLAPS

-----------------------------------------------------------------------------
(* The parser *)

Octets == 0..255

\* What each state of the parser relies on: the state before has made sure
\* that the bytes it reads without a further look are there.
Fits(p) ==
    /\ p = [st |-> p.st, data |-> p.data, shares |-> p.shares,
            suites |-> p.suites, keyShares |-> p.keyShares]
    /\ p.st \in {"session", "suites", "compression", "extensions", "extension", "share", "parsed"}
    /\ p.data \in Seq(Octets) /\ p.shares \in Seq(Octets)
    /\ p.st \in {"session", "compression"} => Len(p.data) >= 1
    /\ p.st \in {"suites", "extensions"} => Len(p.data) >= 2

LEMMA FromFacts ==
    ASSUME NEW s \in Seq(Octets), NEW i \in Nat, i <= Len(s)
    PROVE  From(s, i) \in Seq(Octets) /\ Len(From(s, i)) = Len(s) - i
<1>1. Len(s) \in Nat
  OBVIOUS
<1>2. \A k \in (i + 1)..Len(s) : s[k] \in Octets
  OBVIOUS
<1> QED BY <1>1, <1>2, SubSeqProperties DEF From

LEMMA U16Facts ==
    ASSUME NEW s \in Seq(Octets), Len(s) >= 2
    PROVE  U16(s) \in Nat
<1>1. s[1] \in Octets /\ s[2] \in Octets
  OBVIOUS
<1>2. \A a, b \in Octets : 256 * a + b \in Nat
  BY DEF Octets
<1> QED BY <1>1, <1>2 DEF U16

LEMMA EmptyFits == Fits(Empty)
BY DEF Fits, Empty

\* A round that leaves the parser in state st with the rest d of the bytes,
\* whatever it has noted in the other fields.
LEMMA NextFits ==
    ASSUME NEW p, Fits(p), NEW d \in Seq(Octets), NEW e \in Seq(Octets), NEW x, NEW y, NEW r
    PROVE  /\ Len(d) >= 1 /\ r = [p EXCEPT !.st = "session", !.data = d] => Fits(r)
           /\ Len(d) >= 2 /\ r = [p EXCEPT !.st = "suites", !.data = d] => Fits(r)
           /\ Len(d) >= 1 /\ r = [p EXCEPT !.st = "compression", !.data = d, !.suites = x] => Fits(r)
           /\ Len(d) >= 2 /\ r = [p EXCEPT !.st = "extensions", !.data = d] => Fits(r)
           /\ r = [p EXCEPT !.st = "extension", !.data = d] => Fits(r)
           /\ r = [p EXCEPT !.st = "parsed"] => Fits(r)
           /\ p.st = "extension" /\ r = [p EXCEPT !.data = d] => Fits(r)
           /\ r = [p EXCEPT !.st = "share", !.data = d, !.shares = e] => Fits(r)
           /\ r = [p EXCEPT !.st = "extension"] => Fits(r)
           /\ p.st = "share" /\ r = [p EXCEPT !.shares = e, !.keyShares = y] => Fits(r)
<1> DEFINE R(a, b, c, f, g) ==
             [st |-> a, data |-> b, shares |-> c, suites |-> f, keyShares |-> g]
<1>1. p = R(p.st, p.data, p.shares, p.suites, p.keyShares)
  BY DEF Fits
<1>2. \A a, b, c, f, g :
         /\ a \in {"session", "suites", "compression", "extensions", "extension", "share", "parsed"}
         /\ b \in Seq(Octets) /\ c \in Seq(Octets)
         /\ a \in {"session", "compression"} => Len(b) >= 1
         /\ a \in {"suites", "extensions"} => Len(b) >= 2
         => Fits(R(a, b, c, f, g))
  BY DEF Fits
<1>3. p.data \in Seq(Octets) /\ p.shares \in Seq(Octets)
  BY DEF Fits
<1>4. PICK a, b, c, f, g :
           /\ p = R(a, b, c, f, g)
           /\ a = p.st /\ b \in Seq(Octets) /\ c \in Seq(Octets)
           /\ a \in {"session", "compression"} => Len(b) >= 1
           /\ a \in {"suites", "extensions"} => Len(b) >= 2
  BY <1>1 DEF Fits
<1>5. \A k, l, m, n, o, v :
         /\ [R(k, l, m, n, o) EXCEPT !.st = v] = R(v, l, m, n, o)
         /\ [R(k, l, m, n, o) EXCEPT !.data = v] = R(k, v, m, n, o)
         /\ [R(k, l, m, n, o) EXCEPT !.shares = v] = R(k, l, v, n, o)
         /\ [R(k, l, m, n, o) EXCEPT !.suites = v] = R(k, l, m, v, o)
         /\ [R(k, l, m, n, o) EXCEPT !.keyShares = v] = R(k, l, m, n, v)
  OBVIOUS
<1> HIDE DEF R
<1>6. ASSUME NEW t PROVE [p EXCEPT !.st = t, !.data = d] = R(t, d, c, f, g)
  <2>1. PICK q : q = [p EXCEPT !.st = t]
    OBVIOUS
  <2>2. q = R(t, b, c, f, g)
    BY <2>1, <1>4, <1>5
  <2>3. [q EXCEPT !.data = d] = R(t, d, c, f, g)
    BY <2>2, <1>5
  <2> QED BY <2>1, <2>3
<1>7. ASSUME NEW t
      PROVE  /\ [p EXCEPT !.st = t, !.data = d, !.suites = x] = R(t, d, c, x, g)
             /\ [p EXCEPT !.st = t, !.data = d, !.shares = e] = R(t, d, e, f, g)
  <2>1. PICK q : q = [p EXCEPT !.st = t, !.data = d]
    OBVIOUS
  <2>2. q = R(t, d, c, f, g)
    BY <2>1, <1>6
  <2>3. [q EXCEPT !.suites = x] = R(t, d, c, x, g) /\ [q EXCEPT !.shares = e] = R(t, d, e, f, g)
    BY <2>2, <1>5
  <2> QED BY <2>1, <2>3
<1>8. [p EXCEPT !.shares = e, !.keyShares = y] = R(a, b, e, f, y)
  <2>1. PICK q : q = [p EXCEPT !.shares = e]
    OBVIOUS
  <2>2. q = R(a, b, e, f, g)
    BY <2>1, <1>4, <1>5
  <2>3. [q EXCEPT !.keyShares = y] = R(a, b, e, f, y)
    BY <2>2, <1>5
  <2> QED BY <2>1, <2>3
<1>9. /\ \A t : [p EXCEPT !.st = t] = R(t, b, c, f, g)
      /\ [p EXCEPT !.data = d] = R(a, d, c, f, g)
  BY <1>4, <1>5
<1>10. /\ Len(d) >= 1 => Fits(R("session", d, c, f, g))
       /\ Len(d) >= 2 => Fits(R("suites", d, c, f, g)) /\ Fits(R("extensions", d, c, f, g))
       /\ Len(d) >= 1 => Fits(R("compression", d, c, x, g))
       /\ Fits(R("extension", d, c, f, g)) /\ Fits(R("share", d, e, f, g))
       /\ Fits(R("parsed", b, c, f, g)) /\ Fits(R("extension", b, c, f, g))
       /\ a = "extension" => Fits(R(a, d, c, f, g))
       /\ a = "share" => Fits(R(a, b, e, f, y))
  BY <1>2, <1>4
<1>11. /\ Len(d) >= 1 /\ r = [p EXCEPT !.st = "session", !.data = d] => Fits(r)
       /\ Len(d) >= 2 /\ r = [p EXCEPT !.st = "suites", !.data = d] => Fits(r)
       /\ Len(d) >= 2 /\ r = [p EXCEPT !.st = "extensions", !.data = d] => Fits(r)
       /\ r = [p EXCEPT !.st = "extension", !.data = d] => Fits(r)
  BY <1>6, <1>10
<1>12. /\ Len(d) >= 1 /\ r = [p EXCEPT !.st = "compression", !.data = d, !.suites = x] => Fits(r)
       /\ r = [p EXCEPT !.st = "share", !.data = d, !.shares = e] => Fits(r)
  BY <1>7, <1>10
<1>13. p.st = "share" /\ r = [p EXCEPT !.shares = e, !.keyShares = y] => Fits(r)
  BY <1>4, <1>8, <1>10
<1>14. /\ r = [p EXCEPT !.st = "parsed"] => Fits(r)
       /\ r = [p EXCEPT !.st = "extension"] => Fits(r)
       /\ p.st = "extension" /\ r = [p EXCEPT !.data = d] => Fits(r)
  BY <1>4, <1>9, <1>10
<1> QED BY <1>11, <1>12, <1>13, <1>14

\* One round of the parser never reads what is not there.
LEMMA StepFits ==
    ASSUME NEW p, Fits(p), p.st # "parsed"
    PROVE  Fits(Step(p))
<1> USE EmptyFits
<1>1. p.data \in Seq(Octets) /\ p.shares \in Seq(Octets)
  BY DEF Fits
<1>2. CASE p.st = "session"
  <2>1. Len(p.data) >= 1 /\ Step(p) = Session(p)
    BY <1>2 DEF Fits, Step, Reading
  <2>2. PICK n \in Nat : n = p.data[1]
    <3>1. p.data[1] \in Octets
      BY <2>1, <1>1
    <3> QED BY <3>1 DEF Octets
  <2>3. CASE n > MaxSession \/ 1 + n + 2 > Len(p.data)
    BY <2>1, <2>2, <2>3 DEF Session
  <2>4. CASE ~(n > MaxSession \/ 1 + n + 2 > Len(p.data))
    <3>1. From(p.data, 1 + n) \in Seq(Octets) /\ Len(From(p.data, 1 + n)) >= 2
      BY <2>4, <1>1, FromFacts
    <3>2. Step(p) = [p EXCEPT !.st = "suites", !.data = From(p.data, 1 + n)]
      BY <2>1, <2>2, <2>4 DEF Session
    <3> QED BY <3>1, <3>2, NextFits
  <2> QED BY <2>3, <2>4
<1>3. CASE p.st = "suites"
  <2>1. Len(p.data) >= 2 /\ Step(p) = Suites(p)
    BY <1>3 DEF Fits, Step, Reading
  <2>2. PICK n \in Nat : n = U16(p.data)
    BY <2>1, <1>1, U16Facts
  <2>3. PICK d \in Seq(Octets) : d = From(p.data, 2)
    BY <2>1, <1>1, FromFacts
  <2>4. CASE n = 0 \/ n % 2 # 0 \/ TooLong(n, d)
    BY <2>1, <2>2, <2>3, <2>4 DEF Suites
  <2>5. CASE ~(n = 0 \/ n % 2 # 0 \/ TooLong(n, d))
    <3>1. From(d, n) \in Seq(Octets) /\ Len(From(d, n)) >= 1
      BY <2>5, FromFacts DEF TooLong
    <3>2. PICK x : Step(p) = [p EXCEPT !.st = "compression", !.data = From(d, n), !.suites = x]
      BY <2>1, <2>2, <2>3, <2>5 DEF Suites
    <3> QED BY <3>1, <3>2, NextFits
  <2> QED BY <2>4, <2>5
<1>4. CASE p.st = "compression"
  <2>1. Len(p.data) >= 1 /\ Step(p) = Compression(p)
    BY <1>4 DEF Fits, Step, Reading
  <2>2. PICK n \in Nat : n = p.data[1]
    <3>1. p.data[1] \in Octets
      BY <2>1, <1>1
    <3> QED BY <3>1 DEF Octets
  <2>3. CASE n = 0 \/ 1 + n + 2 > Len(p.data)
    BY <2>1, <2>2, <2>3 DEF Compression
  <2>4. CASE ~(n = 0 \/ 1 + n + 2 > Len(p.data))
    <3>1. From(p.data, 1 + n) \in Seq(Octets) /\ Len(From(p.data, 1 + n)) >= 2
      BY <2>4, <1>1, FromFacts
    <3>2. Step(p) = [p EXCEPT !.st = "extensions", !.data = From(p.data, 1 + n)]
      BY <2>1, <2>2, <2>4 DEF Compression
    <3> QED BY <3>1, <3>2, NextFits
  <2> QED BY <2>3, <2>4
<1>5. CASE p.st = "extensions"
  <2>1. Len(p.data) >= 2 /\ Step(p) = Extensions(p)
    BY <1>5 DEF Fits, Step, Reading
  <2>2. From(p.data, 2) \in Seq(Octets)
    BY <2>1, <1>1, FromFacts
  <2>3. Step(p) \in {Empty, [p EXCEPT !.st = "extension", !.data = From(p.data, 2)]}
    BY <2>1 DEF Extensions
  <2> QED BY <2>2, <2>3, NextFits
<1>6. CASE p.st = "extension"
  <2>1. Step(p) = Extension(p)
    BY <1>6 DEF Step
  <2>2. CASE p.data = <<>>
    BY <2>1, <2>2, <1>1, NextFits DEF Extension
  <2>3. CASE p.data # <<>> /\ Len(p.data) < 4
    BY <2>1, <2>3 DEF Extension, TooShort
  <2>4. CASE p.data # <<>> /\ ~(Len(p.data) < 4)
    <3>1. PICK n \in Nat : n = U16(From(p.data, 2))
      <4>1. From(p.data, 2) \in Seq(Octets) /\ Len(From(p.data, 2)) >= 2
        BY <2>4, <1>1, FromFacts
      <4> QED BY <4>1, U16Facts
    <3>2. CASE n > Len(p.data) - 4
      BY <2>1, <2>4, <3>1, <3>2 DEF Extension, TooShort, Exceeds, Reading
    <3>3. CASE ~(n > Len(p.data) - 4)
      <4>1. From(p.data, 4 + n) \in Seq(Octets)
        BY <2>4, <3>3, <1>1, FromFacts
      <4>2. PICK ext : ext = SubSeq(p.data, 5, 4 + n)
        OBVIOUS
      <4>3. ext \in Seq(Octets) /\ (n >= 2 => Len(ext) >= 2)
        BY <2>4, <3>3, <4>2, <1>1, SubSeqProperties
      <4>4. ~(Len(p.data) < 4 + n) /\ (~(n < 2) => n >= 2 /\ ~(Len(ext) < 2))
        BY <2>4, <3>3, <4>3
      <4>5. Step(p) \in {Empty, [p EXCEPT !.data = From(p.data, 4 + n)]}
            \/ /\ n >= 2
               /\ Step(p) = [p EXCEPT !.st = "share", !.data = From(p.data, 4 + n),
                                      !.shares = From(ext, 2)]
        BY <2>1, <2>4, <3>1, <3>3, <4>2, <4>4 DEF Extension, TooShort, Exceeds, Reading
      <4>6. n >= 2 => From(ext, 2) \in Seq(Octets)
        BY <4>3, FromFacts
      <4> QED BY <4>1, <4>5, <4>6, <1>1, <1>6, NextFits
    <3> QED BY <3>2, <3>3
  <2> QED BY <2>2, <2>3, <2>4
<1>7. CASE p.st = "share"
  <2>1. Step(p) = Share(p)
    BY <1>7 DEF Step
  <2>2. CASE p.shares = <<>>
    BY <2>1, <2>2, <1>1, NextFits DEF Share
  <2>3. CASE p.shares # <<>> /\ Len(p.shares) < 4
    BY <2>1, <2>3 DEF Share, TooShort
  <2>4. CASE p.shares # <<>> /\ ~(Len(p.shares) < 4)
    <3>1. PICK n \in Nat : n = U16(From(p.shares, 2))
      <4>1. From(p.shares, 2) \in Seq(Octets) /\ Len(From(p.shares, 2)) >= 2
        BY <2>4, <1>1, FromFacts
      <4> QED BY <4>1, U16Facts
    <3>2. CASE n > Len(p.shares) - 4
      BY <2>1, <2>4, <3>1, <3>2 DEF Share, TooShort, Exceeds, Reading
    <3>3. CASE ~(n > Len(p.shares) - 4)
      <4>1. From(p.shares, 4 + n) \in Seq(Octets)
        BY <2>4, <3>3, <1>1, FromFacts
      <4>2. ~(Len(p.shares) < 4 + n)
        BY <2>4, <3>3, <1>1
      <4>3. PICK y : Step(p) = [p EXCEPT !.shares = From(p.shares, 4 + n), !.keyShares = y]
        BY <2>1, <2>4, <3>1, <3>3, <4>2 DEF Share, TooShort, Exceeds, Reading
      <4> QED BY <4>1, <4>3, <1>1, <1>7, NextFits
    <3> QED BY <3>2, <3>3
  <2> QED BY <2>2, <2>3, <2>4
<1> QED BY <1>2, <1>3, <1>4, <1>5, <1>6, <1>7 DEF Fits

\* Every step but the reading of a hello and a round of the parser leaves the
\* parser alone.
LEMMA OthersKeepParser ==
    ASSUME Next
    PROVE  ReadBody \/ Parse \/ parser' = parser
<1> USE DEF start
<1>1. CASE Main
  BY <1>1 DEF Main, ReadFirst, ReadHeader, ReadHandshake, ReadFull, WriteRedirect, WriteHello,
              WriteClient, Build, Delay, Dial, WriteInitial, WaitFirst, CloseClient,
              CloseUpstream, CloseSide, Drain, Return
<1>2. CASE Up
  BY <1>2 DEF Up, UpRead, UpWrite, CopyClose, CopyExit
<1>3. CASE Down
  BY <1>3 DEF Down, DownRead, DownWrite, CopyClose, CopyExit
<1>4. CASE \E side \in Sides : AfterClose(side) \/ HangUp(side) \/ StopReading(side)
  BY <1>4 DEF AfterClose, HangUp, StopReading
<1>5. CASE Cancel \/ DeadlinePasses \/ HostSends
  BY <1>5 DEF Cancel, DeadlinePasses, HostSends
<1> QED BY <1>1, <1>2, <1>3, <1>4, <1>5 DEF Next

\* The parser always has the bytes that its next round reads.
THEOREM ParserInvariant == Spec => []Fits(parser)
<1>1. Init => Fits(parser)
  BY EmptyFits DEF Init
<1>2. ASSUME Fits(parser), [Next]_vars PROVE Fits(parser)'
  <2>1. CASE ReadBody
    <3>1. CASE parser' = parser
      BY <3>1, <1>2
    <3>2. CASE \E h \in Hellos : parser' = Start(h)
      <4>1. PICK h \in Hellos : parser' = Start(h)
        BY <3>2
      <4>2. h.body \in Seq(Octets)
        BY FakeTLSAssumption DEF Octets
      <4>3. CASE h.body = <<>> \/ ~h.lenOK
        BY <4>1, <4>3, EmptyFits DEF Start
      <4>4. CASE ~(h.body = <<>> \/ ~h.lenOK)
        <5>1. Len(h.body) >= 1
          BY <4>2, <4>4
        <5>2. parser' = [Empty EXCEPT !.st = "session", !.data = h.body]
          BY <4>1, <4>4 DEF Start
        <5> QED BY <5>1, <5>2, <4>2, EmptyFits, NextFits
      <4> QED BY <4>3, <4>4
    <3> QED BY <2>1, <3>1, <3>2 DEF ReadBody
  <2>2. CASE Parse
    <3>1. \/ parser' = parser
          \/ parser.st # "parsed" /\ parser' = Step(parser)
      BY <2>2 DEF Parse
    <3> QED BY <3>1, <1>2, StepFits
  <2>3. CASE parser' = parser
    BY <2>3, <1>2
  <2> QED BY <2>1, <2>2, <2>3, <1>2, OthersKeepParser DEF vars, start
<1> QED BY <1>1, <1>2, PTL DEF Spec

\* parseFakeTLSClientHello does not panic, whatever the bytes of the hello.
THEOREM ParserNeverPanics == Spec => []InBounds
<1>1. Fits(parser) => InBounds
  BY DEF Fits, InBounds
<1> QED BY <1>1, ParserInvariant, PTL

-----------------------------------------------------------------------------
(* What the parser makes of an offer, of any length *)

\* Bytes i + 1 to j of b.
Slice(b, i, j) == SubSeq(b, i + 1, j)

LEMMA SliceFacts ==
    ASSUME NEW b \in Seq(Octets), NEW i \in Nat, NEW j \in Nat, i <= j, j <= Len(b)
    PROVE  /\ Slice(b, i, j) \in Seq(Octets) /\ Len(Slice(b, i, j)) = j - i
           /\ \A k \in 1..(j - i) : Slice(b, i, j)[k] = b[i + k]
<1>1. Len(b) \in Nat
  OBVIOUS
<1>2. \A k \in (i + 1)..j : b[k] \in Octets
  OBVIOUS
<1>3. Slice(b, i, j) \in Seq(Octets) /\ Len(Slice(b, i, j)) = j - i
  BY <1>1, <1>2, SubSeqProperties DEF Slice
<1>4. \A k \in 1..(j - i) : Slice(b, i, j)[k] = b[i + 1 + k - 1]
  BY <1>1, <1>2, SubSeqProperties DEF Slice
<1> QED BY <1>3, <1>4

LEMMA SliceOfSlice ==
    ASSUME NEW b \in Seq(Octets), NEW i \in Nat, NEW j \in Nat, i <= j, j <= Len(b),
           NEW k \in Nat, NEW m \in Nat, k <= m, i + m <= j
    PROVE  Slice(Slice(b, i, j), k, m) = Slice(b, i + k, i + m)
<1>1. PICK s \in Seq(Octets) : s = Slice(b, i, j)
  BY SliceFacts
<1>2. Len(s) = j - i /\ \A x \in 1..(j - i) : s[x] = b[i + x]
  BY <1>1, SliceFacts
<1>3. Len(s) \in Nat /\ m <= Len(s)
  BY <1>2
<1>4. PICK u \in Seq(Octets) : u = Slice(s, k, m)
  BY <1>3, SliceFacts
<1>5. Len(u) = m - k /\ \A x \in 1..(m - k) : u[x] = s[k + x]
  <2>1. Len(Slice(s, k, m)) = m - k /\ \A x \in 1..(m - k) : Slice(s, k, m)[x] = s[k + x]
    BY <1>3, SliceFacts
  <2> QED BY <2>1, <1>4
<1>6. PICK y \in Nat, z \in Nat : y = i + k /\ z = i + m
  OBVIOUS
<1>7. y <= z /\ z <= Len(b)
  BY <1>6
<1>8. PICK v \in Seq(Octets) : v = Slice(b, y, z)
  BY <1>7, SliceFacts
<1>9. Len(v) = z - y /\ \A x \in 1..(z - y) : v[x] = b[y + x]
  <2>1. Len(Slice(b, y, z)) = z - y /\ \A x \in 1..(z - y) : Slice(b, y, z)[x] = b[y + x]
    BY <1>7, SliceFacts
  <2> QED BY <2>1, <1>8
<1>10. /\ z - y = m - k
       /\ \A x \in 1..(m - k) : k + x \in 1..(j - i) /\ i + (k + x) = y + x
  BY <1>6
<1>11. Len(u) = Len(v) /\ \A x \in 1..Len(u) : u[x] = v[x]
  BY <1>2, <1>5, <1>9, <1>10
<1>12. u = v
  BY <1>11, SeqEqual
<1> QED BY <1>1, <1>4, <1>6, <1>8, <1>12

LEMMA FromSlice ==
    ASSUME NEW b \in Seq(Octets), NEW i \in Nat, NEW j \in Nat, i <= j, j <= Len(b)
    PROVE  /\ \A k \in Nat : i + k <= j => From(Slice(b, i, j), k) = Slice(b, i + k, j)
           /\ From(b, i) = Slice(b, i, Len(b))
           /\ i + 2 <= j => U16(Slice(b, i, j)) = U16(From(b, i))
<1>1. Len(Slice(b, i, j)) = j - i
  BY SliceFacts
<1>2. \A k \in Nat : i + k <= j => k <= j - i /\ i + (j - i) = j
  OBVIOUS
<1>3. ASSUME NEW k \in Nat, i + k <= j PROVE From(Slice(b, i, j), k) = Slice(b, i + k, j)
  <2>1. PICK m \in Nat : m = j - i
    OBVIOUS
  <2>2. i + m = j /\ k <= m
    BY <1>3, <2>1
  <2>3. k <= m /\ i + m <= j /\ i <= j /\ j <= Len(b)
    BY <2>2
  <2>4. Slice(Slice(b, i, j), k, m) = Slice(b, i + k, i + m)
    BY <2>3, SliceOfSlice
  <2> QED BY <1>1, <2>1, <2>2, <2>4 DEF From, Slice
<1>4. From(b, i) = Slice(b, i, Len(b))
  BY DEF From, Slice
<1>5. ASSUME i + 2 <= j PROVE U16(Slice(b, i, j)) = U16(From(b, i))
  <2>1. Len(b) \in Nat /\ i <= Len(b) /\ 1 \in 1..(j - i) /\ 2 \in 1..(j - i)
        /\ 1 \in 1..(Len(b) - i) /\ 2 \in 1..(Len(b) - i)
    BY <1>5
  <2>2. Slice(b, i, j)[1] = b[i + 1] /\ Slice(b, i, j)[2] = b[i + 2]
    BY <2>1, SliceFacts
  <2>3. Slice(b, i, Len(b))[1] = b[i + 1] /\ Slice(b, i, Len(b))[2] = b[i + 2]
    <3>1. PICK l \in Nat : l = Len(b)
      BY <2>1
    <3>2. i <= l /\ l <= Len(b)
      BY <2>1, <3>1
    <3>3. \A k \in 1..(l - i) : Slice(b, i, l)[k] = b[i + k]
      BY <3>2, SliceFacts
    <3> QED BY <2>1, <3>1, <3>3
  <2> QED BY <1>4, <2>2, <2>3 DEF U16
<1> QED BY <1>3, <1>4, <1>5

\* A state of the parser, by its parts.
State(st, data, shares, suites, keyShares) ==
    [st |-> st, data |-> data, shares |-> shares, suites |-> suites, keyShares |-> keyShares]

\* Share i is the first of s in the hybrid group.
First(s, i) == s[i].group = MLKEM /\ \A k \in 1..(i - 1) : s[k].group # MLKEM

\* The map of shares, as far as the answer depends on it, after the first j of
\* the shares s.
Noted(ks, s, j) ==
    \/ MLKEM \notin DOMAIN ks /\ \A i \in 1..j : s[i].group # MLKEM
    \/ MLKEM \in DOMAIN ks /\ \E i \in 1..j : First(s, i) /\ ks[MLKEM] = s[i].len

\* Where the parser is in the bytes b of a hello that encodes offer o, and
\* what it has noted of it.
Reads(p, b, o) ==
    LET n == Len(o.session)
        comp == CompressionAt(o)
    IN  /\ p.st \in {"session", "suites", "compression", "extensions"} => p.keyShares = <<>>
        /\ p.st \notin {"session", "suites"} => p.suites = o.suites
        /\ p.st = "session" => p.data = b
        /\ p.st = "suites" => p.data = From(b, n + 1)
        /\ p.st = "compression" => p.data = From(b, comp)
        /\ p.st = "extensions" => p.data = From(b, o.exts[1] - 2)
        /\ p.st = "extension" =>
             \E i \in 1..Len(o.exts) :
               /\ p.data = From(b, o.exts[i])
               /\ Noted(p.keyShares, o.shares, IF o.key # 0 /\ i > o.key THEN Len(o.shares) ELSE 0)
        /\ p.st = "share" =>
             /\ o.key # 0 /\ p.data = From(b, o.exts[o.key + 1])
             /\ \E i \in 1..(Len(o.shares) + 1) :
                  /\ p.shares = Slice(b, o.at[i], o.exts[o.key + 1])
                  /\ Noted(p.keyShares, o.shares, i - 1)
        /\ p.st = "parsed" => Noted(p.keyShares, o.shares, Len(o.shares))

\* The hello and the answer, along the steps of the session.
HInv == /\ Agreed
        /\ pc \in {"first", "header", "body", "parse", "build"} => reply = None
        /\ pc \in {"parse", "build"} =>
             hello \in Hellos /\ (hello.offer # None => Reads(parser, hello.body, hello.offer))
        /\ pc = "build" => parser.st = "parsed"

\* A further share enters the map only if it is the first of its group.
LEMMA NotedStep ==
    ASSUME NEW ks, NEW s, NEW i \in Nat \ {0}, Noted(ks, s, i - 1)
    PROVE  Noted(AddShare(ks, s[i].group, s[i].len), s, i)
<1>1. PICK r : r = AddShare(ks, s[i].group, s[i].len)
  OBVIOUS
<1>2. /\ DOMAIN r = DOMAIN ks \cup {s[i].group}
      /\ \A g \in DOMAIN r : r[g] = IF g \in DOMAIN ks THEN ks[g] ELSE s[i].len
  BY <1>1 DEF AddShare
<1>3. \A k \in 1..i : k \in 1..(i - 1) \/ k = i
  OBVIOUS
<1>4. CASE MLKEM \in DOMAIN ks
  <2>1. PICK k \in 1..(i - 1) : First(s, k) /\ ks[MLKEM] = s[k].len
    BY <1>4 DEF Noted
  <2>2. k \in 1..i /\ MLKEM \in DOMAIN r /\ r[MLKEM] = s[k].len
    BY <2>1, <1>2, <1>4
  <2> QED BY <2>1, <2>2, <1>1 DEF Noted
<1>5. CASE MLKEM \notin DOMAIN ks /\ s[i].group = MLKEM
  <2>1. \A k \in 1..(i - 1) : s[k].group # MLKEM
    BY <1>5 DEF Noted
  <2>2. MLKEM \in DOMAIN r /\ r[MLKEM] = s[i].len /\ First(s, i) /\ i \in 1..i
    BY <2>1, <1>2, <1>5 DEF First
  <2> QED BY <2>2, <1>1 DEF Noted
<1>6. CASE MLKEM \notin DOMAIN ks /\ s[i].group # MLKEM
  <2>1. \A k \in 1..(i - 1) : s[k].group # MLKEM
    BY <1>6 DEF Noted
  <2>2. MLKEM \notin DOMAIN r
    BY <1>2, <1>6
  <2> QED BY <2>1, <2>2, <1>1, <1>3, <1>6 DEF Noted
<1> QED BY <1>4, <1>5, <1>6

\* The parts of an encoded hello are where the offer says.
LEMMA Places ==
    ASSUME NEW b \in Seq(Octets), NEW o, Encodes(b, o)
    PROVE  /\ EncodesSession(b, o) /\ EncodesSuites(b, o) /\ EncodesExtensions(b, o)
           /\ Len(b) \in Nat /\ Len(o.session) \in Nat /\ Len(o.suites) \in Nat \ {0}
           /\ Len(o.exts) \in Nat \ {0} /\ o.key \in Nat /\ o.key < Len(o.exts)
           /\ \A i \in 1..Len(o.exts) : o.exts[i] \in Nat /\ o.exts[i] <= Len(b)
           /\ CompressionAt(o) \in Nat /\ Len(o.session) + 5 <= CompressionAt(o)
           /\ CompressionAt(o) + 3 < o.exts[1]
<1>1. EncodesSession(b, o) /\ EncodesSuites(b, o) /\ EncodesExtensions(b, o)
  BY DEF Encodes
<1>2. Len(b) \in Nat
  OBVIOUS
<1>3. Len(o.session) \in Nat
  BY <1>1 DEF EncodesSession
<1>4. Len(o.suites) \in Nat \ {0}
  BY <1>1 DEF EncodesSuites
<1>5. Len(o.exts) \in Nat \ {0} /\ o.exts \in Seq(0..Len(b))
  BY <1>1 DEF EncodesExtensions
<1>6. o.key \in Nat /\ o.key < Len(o.exts)
  BY <1>1, <1>5 DEF EncodesExtensions
<1>7. \A i \in 1..Len(o.exts) : o.exts[i] \in 0..Len(b)
  BY <1>5
<1>8. \A i \in 1..Len(o.exts) : o.exts[i] \in Nat /\ o.exts[i] <= Len(b)
  BY <1>2, <1>7
<1>9. CompressionAt(o) \in Nat /\ Len(o.session) + 5 <= CompressionAt(o)
  <2>1. PICK n \in Nat, k \in Nat \ {0} : n = Len(o.session) /\ k = Len(o.suites)
    BY <1>3, <1>4
  <2>2. CompressionAt(o) = n + 3 + 2 * k
    BY <2>1 DEF CompressionAt
  <2>3. n + 3 + 2 * k \in Nat /\ n + 5 <= n + 3 + 2 * k
    OBVIOUS
  <2> QED BY <2>1, <2>2, <2>3
<1>10. CompressionAt(o) + 3 < o.exts[1]
  BY <1>1 DEF EncodesExtensions
<1> QED BY <1>1, <1>2, <1>3, <1>4, <1>5, <1>6, <1>8, <1>9, <1>10

\* Each state of the parser finds what it reads, and hands the rest on.
LEMMA ReadsSession ==
    ASSUME NEW b \in Seq(Octets), NEW o, Encodes(b, o),
           NEW p, Fits(p), Reads(p, b, o), p.st = "session"
    PROVE  Reads(Step(p), b, o)
<1>1. PICK n \in Nat, l \in Nat, c \in Nat, x \in Nat :
           n = Len(o.session) /\ l = Len(b) /\ c = CompressionAt(o) /\ x = o.exts[1]
  <2>1. 1 \in 1..Len(o.exts)
    BY Places
  <2> QED BY <2>1, Places
<1>2. n + 5 <= c /\ c + 3 < x /\ x <= l
  BY <1>1, Places
<1>3. p.data = b /\ p.keyShares = <<>>
  BY DEF Reads
<1>4. b[1] = n /\ n <= MaxSession
  BY <1>1, Places DEF EncodesSession
<1>5. Step(p) = Session(p)
  BY <1>1, <1>2, <1>3 DEF Step, Reading
<1>6. ~(n > MaxSession \/ 1 + n + 2 > l) /\ 1 + n = n + 1
  BY <1>2, <1>4, FakeTLSAssumption
<1>7. Step(p) = [p EXCEPT !.st = "suites", !.data = From(b, n + 1)]
  BY <1>1, <1>3, <1>4, <1>5, <1>6 DEF Session
<1>8. /\ Step(p).st = "suites" /\ Step(p).data = From(b, n + 1)
      /\ Step(p).keyShares = p.keyShares
  BY <1>7 DEF Fits
<1> QED BY <1>1, <1>3, <1>8 DEF Reads

LEMMA ReadsSuites ==
    ASSUME NEW b \in Seq(Octets), NEW o, Encodes(b, o),
           NEW p, Fits(p), Reads(p, b, o), p.st = "suites"
    PROVE  Reads(Step(p), b, o)
<1>1. PICK n \in Nat, l \in Nat, k \in Nat \ {0} :
           n = Len(o.session) /\ l = Len(b) /\ k = Len(o.suites)
  BY Places
<1>2. n + 3 + 2 * k + 3 < l
  <2>1. PICK x \in Nat : x = o.exts[1] /\ x <= l
    BY <1>1, Places
  <2>2. CompressionAt(o) = n + 3 + 2 * k
    BY <1>1 DEF CompressionAt
  <2>3. n + 3 + 2 * k + 3 < x
    BY <2>1, <2>2, Places
  <2> QED BY <2>1, <2>3
<1>3. p.data = From(b, n + 1) /\ p.keyShares = <<>>
  BY <1>1 DEF Reads
<1>4. U16(p.data) = 2 * k
  BY <1>1, <1>3, Places DEF EncodesSuites, Number
<1>5. /\ \A i \in Nat : n + 3 + i <= l => From(From(b, n + 3), i) = From(b, n + 3 + i)
      /\ From(p.data, 2) = From(b, n + 3)
      /\ Len(From(b, n + 3)) = l - (n + 3)
      /\ Len(p.data) >= 2
  <2>1. PICK x \in Nat : x = n + 1
    OBVIOUS
  <2>2. PICK y \in Nat : y = n + 3
    OBVIOUS
  <2>3. x <= l /\ y <= l /\ x + 2 = y /\ x + 2 <= l
    BY <1>2, <2>1, <2>2
  <2> l <= Len(b)
    BY <1>1
  <2>4. From(b, x) = Slice(b, x, l) /\ From(b, y) = Slice(b, y, l)
    BY <1>1, <2>3, FromSlice
  <2>5. \A i \in Nat : y + i <= l => From(Slice(b, y, l), i) = Slice(b, y + i, l)
    BY <2>3, FromSlice
  <2>6. ASSUME NEW i \in Nat, y + i <= l PROVE From(From(b, y), i) = From(b, y + i)
    <3>1. From(b, y + i) = Slice(b, y + i, l)
      BY <1>1 DEF From, Slice
    <3> QED BY <3>1, <2>4, <2>5, <2>6
  <2>7. From(Slice(b, x, l), 2) = Slice(b, x + 2, l)
    BY <2>3, FromSlice
  <2>8. Len(Slice(b, x, l)) = l - x /\ Len(Slice(b, y, l)) = l - y
    BY <2>3, SliceFacts
  <2>9. From(p.data, 2) = From(b, y)
    BY <2>1, <2>3, <2>4, <2>7, <1>3
  <2> QED BY <2>1, <2>2, <2>3, <2>4, <2>6, <2>8, <2>9, <1>3
<1>6. Step(p) = Suites(p)
  BY <1>5 DEF Step, Reading
<1>7. ~(2 * k = 0 \/ (2 * k) % 2 # 0 \/ TooLong(2 * k, From(b, n + 3)))
  BY <1>2, <1>5 DEF TooLong
<1>8. (2 * k) \div 2 = k
  OBVIOUS
<1>9. From(From(b, n + 3), 2 * k) = From(b, n + 3 + 2 * k)
  BY <1>2, <1>5
<1>10. [i \in 1..k |-> U16(From(From(b, n + 3), 2 * i - 2))] = o.suites
  <2>1. \A i \in 1..k : /\ 2 * i - 2 \in Nat /\ n + 3 + (2 * i - 2) <= l
                        /\ n + 3 + (2 * i - 2) = n + 1 + 2 * i
    BY <1>2
  <2>2. \A i \in 1..k : From(From(b, n + 3), 2 * i - 2) = From(b, n + 1 + 2 * i)
    BY <2>1, <1>5
  <2>3. \A i \in 1..k : U16(From(b, n + 1 + 2 * i)) = o.suites[i]
    <3>1. DOMAIN o.suites = 1..k
      BY <1>1, Places DEF EncodesSuites
    <3>2. \A i \in DOMAIN o.suites : Number(b, n + 1 + 2 * i) = o.suites[i]
      BY <1>1, Places DEF EncodesSuites
    <3> QED BY <3>1, <3>2 DEF Number
  <2>4. o.suites = [i \in 1..k |-> o.suites[i]]
    BY <1>1, Places DEF EncodesSuites
  <2> QED BY <2>2, <2>3, <2>4
<1>11. Step(p) = [p EXCEPT !.st = "compression", !.data = From(b, n + 3 + 2 * k), !.suites = o.suites]
  <2> HIDE DEF From, U16
  <2>1. Suites(p) = [p EXCEPT !.st = "compression", !.data = From(From(p.data, 2), 2 * k),
                              !.suites = [i \in 1..k |-> U16(From(From(b, n + 3), 2 * i - 2))]]
    BY <1>4, <1>5, <1>7, <1>8 DEF Suites
  <2> QED BY <2>1, <1>5, <1>6, <1>9, <1>10
<1>12. /\ Step(p).st = "compression" /\ Step(p).data = From(b, n + 3 + 2 * k)
       /\ Step(p).suites = o.suites /\ Step(p).keyShares = p.keyShares
  BY <1>11 DEF Fits
<1>13. CompressionAt(o) = n + 3 + 2 * k
  BY <1>1 DEF CompressionAt
<1> QED BY <1>1, <1>3, <1>12, <1>13 DEF Reads

LEMMA ReadsCompression ==
    ASSUME NEW b \in Seq(Octets), NEW o, Encodes(b, o),
           NEW p, Fits(p), Reads(p, b, o), p.st = "compression"
    PROVE  Reads(Step(p), b, o)
<1>1. PICK l \in Nat, c \in Nat, x \in Nat : l = Len(b) /\ c = CompressionAt(o) /\ x = o.exts[1]
  <2>1. 1 \in 1..Len(o.exts)
    BY Places
  <2> QED BY <2>1, Places
<1>2. c + 3 < x /\ x <= l
  BY <1>1, Places
<1>3. p.data = From(b, c) /\ p.keyShares = <<>> /\ p.suites = o.suites
  BY <1>1 DEF Reads
<1>4. PICK m \in Nat \ {0} : m = x - c - 3
  BY <1>2
<1>5. b[c + 1] = m
  BY <1>1, <1>4, Places DEF EncodesExtensions
<1>6. Len(p.data) = l - c /\ p.data[1] = m /\ From(p.data, 1 + m) = From(b, x - 2)
  <2>1. From(b, c) = Slice(b, c, l)
    BY <1>1 DEF From, Slice
  <2>2. c <= l /\ l <= Len(b) /\ 1 \in 1..(l - c)
    BY <1>1, <1>2
  <2>3. Len(Slice(b, c, l)) = l - c /\ Slice(b, c, l)[1] = b[c + 1]
    BY <2>2, SliceFacts
  <2>4. PICK y \in Nat : y = 1 + m
    OBVIOUS
  <2>5. c + y <= l /\ c + y = x - 2
    BY <1>2, <1>4, <2>4
  <2>6. From(Slice(b, c, l), y) = Slice(b, c + y, l)
    BY <2>2, <2>5, FromSlice
  <2>7. From(b, x - 2) = Slice(b, x - 2, l)
    BY <1>1 DEF From, Slice
  <2> QED BY <2>1, <2>3, <2>4, <2>5, <2>6, <2>7, <1>3, <1>5
<1>7. Step(p) = Compression(p)
  BY <1>2, <1>6 DEF Step, Reading
<1>8. ~(m = 0 \/ 1 + m + 2 > l - c)
  BY <1>2, <1>4
<1>9. Step(p) = [p EXCEPT !.st = "extensions", !.data = From(b, x - 2)]
  BY <1>6, <1>7, <1>8 DEF Compression
<1>10. /\ Step(p).st = "extensions" /\ Step(p).data = From(b, x - 2)
       /\ Step(p).suites = o.suites /\ Step(p).keyShares = p.keyShares
  BY <1>3, <1>9 DEF Fits
<1> QED BY <1>1, <1>3, <1>10 DEF Reads

LEMMA ReadsExtensions ==
    ASSUME NEW b \in Seq(Octets), NEW o, Encodes(b, o),
           NEW p, Fits(p), Reads(p, b, o), p.st = "extensions"
    PROVE  Reads(Step(p), b, o)
<1>1. PICK l \in Nat, x \in Nat : l = Len(b) /\ x = o.exts[1]
  <2>1. 1 \in 1..Len(o.exts)
    BY Places
  <2> QED BY <2>1, Places
<1>2. 3 < x /\ x <= l
  <2>1. PICK c \in Nat : c = CompressionAt(o)
    BY Places
  <2>2. c + 3 < x
    BY <1>1, <2>1, Places
  <2>3. 1 \in 1..Len(o.exts)
    BY Places
  <2>4. x <= l
    BY <1>1, <2>3, Places
  <2> QED BY <2>2, <2>4
<1>3. p.data = From(b, x - 2) /\ p.keyShares = <<>> /\ p.suites = o.suites
  BY <1>1 DEF Reads
<1>4. U16(p.data) = l - x
  BY <1>1, <1>3, Places DEF EncodesExtensions, Number
<1>5. Len(p.data) = l - x + 2 /\ From(p.data, 2) = From(b, x)
  <2>1. PICK y \in Nat : y = x - 2
    BY <1>2
  <2>2. y <= l /\ l <= Len(b) /\ y + 2 = x /\ y + 2 <= l
    BY <1>1, <1>2, <2>1
  <2>3. From(b, y) = Slice(b, y, l) /\ From(b, x) = Slice(b, x, l)
    BY <1>1 DEF From, Slice
  <2>4. Len(Slice(b, y, l)) = l - y
    BY <2>2, SliceFacts
  <2>5. From(Slice(b, y, l), 2) = Slice(b, y + 2, l)
    BY <2>2, FromSlice
  <2> QED BY <2>1, <2>2, <2>3, <2>4, <2>5, <1>3
<1>6. Step(p) = Extensions(p)
  BY <1>2, <1>5 DEF Step, Reading
<1>7. Step(p) = [p EXCEPT !.st = "extension", !.data = From(b, x)]
  <2>1. U16(p.data) = Len(p.data) - 2
    BY <1>4, <1>5
  <2>2. Extensions(p) = [p EXCEPT !.st = "extension", !.data = From(p.data, 2)]
    BY <2>1 DEF Extensions
  <2> QED BY <2>2, <1>5, <1>6
<1>8. /\ Step(p).st = "extension" /\ Step(p).data = From(b, o.exts[1])
      /\ Step(p).suites = o.suites /\ Step(p).keyShares = <<>>
  BY <1>1, <1>3, <1>7 DEF Fits
<1>9. 1 \in 1..Len(o.exts) /\ ~(o.key # 0 /\ 1 > o.key)
  BY Places
<1>10. Noted(<<>>, o.shares, 0)
  BY DEF Noted
<1> QED BY <1>8, <1>9, <1>10 DEF Reads

\* The extension that begins at o.exts[i].
LEMMA AtExtension ==
    ASSUME NEW b \in Seq(Octets), NEW o, Encodes(b, o), NEW i \in Nat, i > 0, i < Len(o.exts)
    PROVE  \E x \in Nat, y \in Nat :
             /\ x = o.exts[i] /\ y = o.exts[i + 1] /\ x + 4 <= y /\ y <= Len(b)
             /\ Number(b, x + 2) = y - x - 4
             /\ Number(b, x) = KeyShareExt <=> i = o.key
<1>1. i \in 1..Len(o.exts) /\ i + 1 \in 1..Len(o.exts) /\ i \in 1..(Len(o.exts) - 1)
  BY Places
<1>2. PICK x \in Nat, y \in Nat : x = o.exts[i] /\ y = o.exts[i + 1] /\ y <= Len(b)
  BY <1>1, Places
<1>3. /\ o.exts[i] + 4 <= o.exts[i + 1]
      /\ Number(b, o.exts[i] + 2) = o.exts[i + 1] - o.exts[i] - 4
      /\ Number(b, o.exts[i]) = KeyShareExt <=> i = o.key
  BY <1>1, Places DEF EncodesExtensions
<1> QED BY <1>2, <1>3

\* The bytes from offset x on.
LEMMA Rest ==
    ASSUME NEW b \in Seq(Octets), NEW x \in Nat, NEW y \in Nat, x + 4 <= y, y <= Len(b)
    PROVE  /\ Len(From(b, x)) = Len(b) - x
           /\ U16(Slice(b, x, y)) = Number(b, x)
           /\ U16(From(Slice(b, x, y), 2)) = Number(b, x + 2)
           /\ From(Slice(b, x, y), 2) = Slice(b, x + 2, y)
<1>1. x <= y /\ x + 2 <= y /\ x <= Len(b)
  OBVIOUS
<1>2. Len(From(b, x)) = Len(b) - x
  BY <1>1, FromFacts
<1>3. U16(Slice(b, x, y)) = Number(b, x)
  BY <1>1, FromSlice DEF Number
<1>4. From(Slice(b, x, y), 2) = Slice(b, x + 2, y)
  BY <1>1, FromSlice
<1>5. PICK z \in Nat : z = x + 2
  OBVIOUS
<1>6. z <= y /\ z + 2 <= y
  BY <1>5
<1>7. U16(Slice(b, z, y)) = Number(b, z)
  BY <1>6, FromSlice DEF Number
<1> QED BY <1>2, <1>3, <1>4, <1>5, <1>7

LEMMA ReadsExtension ==
    ASSUME NEW b \in Seq(Octets), NEW o, Encodes(b, o),
           NEW p, Fits(p), Reads(p, b, o), p.st = "extension"
    PROVE  Reads(Step(p), b, o)
<1>1. PICK l \in Nat, k \in Nat, m \in Nat \ {0} : l = Len(b) /\ k = o.key /\ m = Len(o.exts) /\ k < m
  BY Places
<1>2. PICK i \in Nat : /\ i > 0 /\ i <= m /\ p.data = From(b, o.exts[i])
                        /\ Noted(p.keyShares, o.shares, IF k # 0 /\ i > k THEN Len(o.shares) ELSE 0)
  BY <1>1 DEF Reads
<1>3. p.suites = o.suites
  BY DEF Reads
<1>4. Step(p) = Extension(p)
  BY DEF Step
<1>5. CASE i = m
  <2>1. p.data = <<>>
    <3>1. o.exts[i] = l
      BY <1>1, <1>5, Places DEF EncodesExtensions
    <3>2. p.data \in Seq(Octets) /\ Len(p.data) = 0
      BY <1>1, <1>2, <3>1, FromFacts
    <3> QED BY <3>2
  <2>2. Step(p) = [p EXCEPT !.st = "parsed"]
    BY <2>1, <1>4 DEF Extension
  <2>3. /\ Step(p).st = "parsed" /\ Step(p).suites = o.suites
        /\ Step(p).keyShares = p.keyShares
    BY <2>2, <1>3 DEF Fits
  <2>4. Noted(p.keyShares, o.shares, Len(o.shares))
    <3>1. CASE k = 0
      <4>1. Len(o.shares) = 0
        BY <1>1, <3>1 DEF Encodes
      <4> QED BY <4>1, <3>1, <1>2
    <3>2. CASE k # 0
      BY <3>2, <1>1, <1>2, <1>5
    <3> QED BY <3>1, <3>2
  <2> QED BY <2>3, <2>4 DEF Reads
<1>6. CASE i < m
  <2>1. PICK x \in Nat, y \in Nat :
             /\ x = o.exts[i] /\ y = o.exts[i + 1] /\ x + 4 <= y /\ y <= l
             /\ Number(b, x + 2) = y - x - 4
             /\ Number(b, x) = KeyShareExt <=> i = k
    BY <1>1, <1>2, <1>6, AtExtension
  <2>2. p.data = Slice(b, x, l) /\ p.data \in Seq(Octets) /\ Len(p.data) = l - x
    <3>1. x + 4 <= y /\ y <= l
      BY <2>1
    <3>2. p.data = From(b, x) /\ x <= l
      <4>1. x <= l
        BY <3>1
      <4>2. x = o.exts[i]
        BY <2>1
      <4>3. p.data = From(b, o.exts[i])
        BY <1>2
      <4> QED BY <4>1, <4>2, <4>3
    <3>3. From(b, x) \in Seq(Octets) /\ Len(From(b, x)) = l - x
      BY <1>1, <3>2, FromFacts
    <3> QED BY <1>1, <3>2, <3>3 DEF From, Slice
  <2>3. U16(p.data) = Number(b, x) /\ U16(From(p.data, 2)) = y - x - 4
    <3>1. x + 4 <= l
      BY <2>1
    <3>2. l <= Len(b)
      BY <1>1
    <3>3. U16(Slice(b, x, l)) = Number(b, x) /\ U16(From(Slice(b, x, l), 2)) = Number(b, x + 2)
      BY <3>1, <3>2, Rest
    <3> QED BY <3>3, <2>1, <2>2
  <2> x + 4 <= y /\ y <= l
    BY <2>1
  <2>4. PICK n \in Nat : n = y - x - 4
    OBVIOUS
  <2>5. /\ p.data # <<>> /\ ~(Len(p.data) < 4)
        /\ ~(n > Len(p.data) - 4) /\ ~(Len(p.data) < 4 + n)
    <3>1. l - x >= 4 /\ ~(n > l - x - 4) /\ ~(l - x < 4 + n)
      BY <2>4
    <3>2. ~(Len(p.data) < 4) /\ ~(n > Len(p.data) - 4) /\ ~(Len(p.data) < 4 + n)
      BY <3>1, <2>2
    <3> QED BY <3>1, <2>2
  <2>6. From(p.data, 4 + n) = From(b, y)
    <3>1. PICK z \in Nat : z = 4 + n
      OBVIOUS
    <3> l <= Len(b)
      BY <1>1
    <3>2. x + z = y /\ x + z <= l /\ x <= l
      BY <2>4, <3>1
    <3>3. From(Slice(b, x, l), z) = Slice(b, x + z, l)
      BY <3>2, FromSlice
    <3> QED BY <1>1, <2>2, <3>1, <3>2, <3>3 DEF From, Slice
  <2>7. CASE i # k
    <3>1. Step(p) = [p EXCEPT !.data = From(p.data, 4 + n)]
      BY <1>4, <2>1, <2>3, <2>4, <2>5, <2>7 DEF Extension, TooShort, Exceeds, Reading
    <3>2. /\ Step(p).st = "extension" /\ Step(p).data = From(b, y)
          /\ Step(p).suites = o.suites /\ Step(p).keyShares = p.keyShares
      BY <3>1, <2>6, <1>3 DEF Fits
    <3>3. i + 1 > k <=> i > k
      BY <2>7
    <3>4. i + 1 \in 1..Len(o.exts)
      BY <1>1, <1>2, <1>6
    <3>5. Noted(p.keyShares, o.shares, IF k # 0 /\ i + 1 > k THEN Len(o.shares) ELSE 0)
      BY <3>3, <1>2
    <3>6. \E j \in 1..Len(o.exts) :
             /\ Step(p).data = From(b, o.exts[j])
             /\ Noted(p.keyShares, o.shares, IF o.key # 0 /\ j > o.key THEN Len(o.shares) ELSE 0)
      BY <3>2, <3>4, <3>5, <2>1, <1>1
    <3> QED BY <3>2, <3>6 DEF Reads
  <2>8. CASE i = k
    <3>1. EncodesShares(b, o)
      BY <1>1, <1>2, <2>8 DEF Encodes
    <3>2. PICK s \in Nat : s = x + 6 /\ s = o.at[1] /\ s <= y
      <4>1. o.at \in Seq(0..y) /\ Len(o.at) = Len(o.shares) + 1 /\ o.at[1] = x + 6
        BY <1>1, <2>1, <2>8, <3>1 DEF EncodesShares
      <4>2. Len(o.at) \in Nat /\ Len(o.shares) \in Nat
        BY <4>1 DEF Encodes
      <4>3. 1 \in 1..Len(o.at)
        BY <4>1, <4>2
      <4>4. o.at[1] \in 0..y
        BY <4>1, <4>3
      <4> QED BY <4>1, <4>4
    <3>3. Number(b, x + 4) = y - s
      BY <1>1, <2>1, <2>8, <3>1, <3>2 DEF EncodesShares
    <3>4. PICK e : e = SubSeq(p.data, 5, 4 + n)
      OBVIOUS
    <3>5. e = Slice(b, x + 4, y)
      <4>1. PICK z \in Nat : z = 4 + n
        OBVIOUS
      <4> l <= Len(b)
        BY <1>1
      <4>2. 4 <= z /\ x + z = y /\ x + z <= l /\ x <= l
        BY <2>4, <4>1
      <4>3. Slice(Slice(b, x, l), 4, z) = Slice(b, x + 4, x + z)
        BY <4>2, SliceOfSlice
      <4>4. e = Slice(p.data, 4, z)
        BY <3>4, <4>1 DEF Slice
      <4> QED BY <2>2, <4>2, <4>3, <4>4
    <3>6. U16(e) = n - 2 /\ From(e, 2) = Slice(b, s, y)
      <4>1. PICK z \in Nat : z = x + 4
        OBVIOUS
      <4> y <= Len(b)
        BY <1>1, <2>1
      <4>2. z <= y /\ z + 2 <= y /\ z + 2 = s
        BY <3>2, <4>1
      <4>3. U16(Slice(b, z, y)) = U16(From(b, z))
        BY <4>2, FromSlice
      <4>4. From(Slice(b, z, y), 2) = Slice(b, z + 2, y)
        BY <4>2, FromSlice
      <4>5. y - s = n - 2
        BY <2>4, <3>2
      <4> QED BY <3>3, <3>5, <4>1, <4>2, <4>3, <4>4, <4>5 DEF Number
    <3>7. ~(n < 2) /\ ~(Len(e) < 2)
      <4>1. PICK z \in Nat : z = x + 4
        OBVIOUS
      <4>2. ~(n < 2) /\ z <= y /\ y - z >= 2
        BY <2>4, <3>2, <4>1
      <4>3. y <= Len(b)
        <5>1. y <= l
          OBVIOUS
        <5>2. l = Len(b)
          BY <1>1
        <5> QED BY <5>1, <5>2
      <4>4. Len(Slice(b, z, y)) = y - z
        BY <4>2, <4>3, SliceFacts
      <4>5. e = Slice(b, z, y)
        BY <3>5, <4>1
      <4>6. ~(Len(e) < 2)
        BY <4>2, <4>4, <4>5
      <4> QED BY <4>2, <4>6
    <3>8. Step(p) = [p EXCEPT !.st = "share", !.data = From(p.data, 4 + n), !.shares = From(e, 2)]
      <4>1. PICK t : t = U16(p.data) /\ t = KeyShareExt
        BY <2>1, <2>3, <2>8
      <4>2. U16(From(p.data, 2)) = n
        BY <2>3, <2>4
      <4>3. U16(e) = n - 2
        BY <3>6
      <4> QED BY <1>4, <2>5, <3>4, <3>7, <4>1, <4>2, <4>3
              DEF Extension, TooShort, Exceeds, Reading
    <3>9. /\ Step(p).st = "share" /\ Step(p).data = From(b, y) /\ Step(p).shares = Slice(b, s, y)
          /\ Step(p).suites = o.suites /\ Step(p).keyShares = p.keyShares
      BY <3>6, <3>8, <2>6, <1>3 DEF Fits
    <3>10. Noted(p.keyShares, o.shares, 0)
      BY <2>8, <1>2
    <3>11. 1 \in 1..(Len(o.shares) + 1) /\ 1 - 1 = 0
      BY DEF Encodes
    <3>12. \E j \in 1..(Len(o.shares) + 1) :
              /\ Step(p).shares = Slice(b, o.at[j], y)
              /\ Noted(p.keyShares, o.shares, j - 1)
      BY <3>2, <3>9, <3>10, <3>11
    <3>13. o.key # 0 /\ o.exts[o.key + 1] = y
      BY <1>1, <1>2, <2>1, <2>8
    <3> QED BY <3>9, <3>12, <3>13 DEF Reads
  <2> QED BY <2>7, <2>8
<1> QED BY <1>2, <1>5, <1>6

LEMMA ReadsShare ==
    ASSUME NEW b \in Seq(Octets), NEW o, Encodes(b, o),
           NEW p, Fits(p), Reads(p, b, o), p.st = "share"
    PROVE  Reads(Step(p), b, o)
<1>1. PICK l \in Nat, k \in Nat, m \in Nat : l = Len(b) /\ k = o.key /\ m = Len(o.shares)
  <2>1. Len(o.shares) \in Nat
    BY DEF Encodes
  <2> QED BY <2>1, Places
<1>2. k # 0 /\ p.data = From(b, o.exts[k + 1]) /\ p.suites = o.suites
  BY <1>1 DEF Reads
<1>3. k + 1 \in 1..Len(o.exts)
  BY <1>1, <1>2, Places
<1>4. PICK y \in Nat : y = o.exts[k + 1] /\ y <= l
  BY <1>1, <1>3, Places
<1>5. EncodesShares(b, o)
  BY <1>1, <1>2 DEF Encodes
<1>6. o.at \in Seq(0..y) /\ Len(o.at) = m + 1 /\ o.at[m + 1] = y
  BY <1>1, <1>4, <1>5 DEF EncodesShares
<1>7. \A j \in 1..(m + 1) : o.at[j] \in 0..y
  BY <1>6
<1>8. PICK i \in 1..(m + 1) : p.shares = Slice(b, o.at[i], y) /\ Noted(p.keyShares, o.shares, i - 1)
  BY <1>1, <1>4 DEF Reads
<1>9. PICK s \in Nat : s = o.at[i] /\ s <= y
  BY <1>7, <1>8
<1>10. Step(p) = Share(p)
  BY DEF Step
<1>11. p.shares \in Seq(Octets) /\ Len(p.shares) = y - s
  <2>1. s <= y /\ y <= Len(b)
    BY <1>1, <1>4, <1>9
  <2>2. Slice(b, s, y) \in Seq(Octets) /\ Len(Slice(b, s, y)) = y - s
    BY <2>1, SliceFacts
  <2> QED BY <2>2, <1>8, <1>9
<1>12. CASE i = m + 1
  <2>1. p.shares = <<>>
    <3>1. Len(p.shares) = 0
      BY <1>6, <1>9, <1>11, <1>12
    <3> QED BY <3>1, <1>11
  <2>2. Step(p) = [p EXCEPT !.st = "extension"]
    BY <2>1, <1>10 DEF Share
  <2>3. /\ Step(p).st = "extension" /\ Step(p).data = From(b, o.exts[k + 1])
        /\ Step(p).suites = o.suites /\ Step(p).keyShares = p.keyShares
    BY <2>2, <1>2 DEF Fits
  <2>4. Noted(p.keyShares, o.shares, m)
    BY <1>8, <1>12
  <2>5. \E j \in 1..Len(o.exts) :
           /\ Step(p).data = From(b, o.exts[j])
           /\ Noted(p.keyShares, o.shares, IF o.key # 0 /\ j > o.key THEN Len(o.shares) ELSE 0)
    BY <2>3, <2>4, <1>1, <1>2, <1>3
  <2> QED BY <2>3, <2>5 DEF Reads
<1>13. CASE i <= m
  <2>1. i \in Nat \ {0} /\ i \in DOMAIN o.shares
    BY <1>1, <1>8, <1>13 DEF Encodes
  <2>2. PICK n \in Nat : n = o.shares[i].len
    <3>1. o.shares \in Seq([group : Nat, len : Nat])
      BY DEF Encodes
    <3>2. i \in 1..Len(o.shares)
      BY <2>1, <3>1
    <3>3. \A S : \A q \in Seq(S) : \A j \in 1..Len(q) : q[j] \in S
      OBVIOUS
    <3>4. o.shares[i] \in [group : Nat, len : Nat]
      BY <3>1, <3>2, <3>3
    <3> QED BY <3>4
  <2>3. Number(b, s) = o.shares[i].group /\ Number(b, s + 2) = n /\ o.at[i + 1] = s + 4 + n
    BY <1>5, <1>9, <2>1, <2>2 DEF EncodesShares
  <2>4. s + 4 + n <= y
    <3>1. i + 1 \in 1..(m + 1)
      BY <1>1, <2>1, <1>13
    <3>2. o.at[i + 1] \in 0..y
      BY <3>1, <1>7
    <3> QED BY <3>2, <2>3
  <2>5. U16(p.shares) = o.shares[i].group /\ U16(From(p.shares, 2)) = n
    <3>1. s + 4 <= y
      BY <2>4
    <3>2. y <= Len(b)
      BY <1>1, <1>4
    <3>3. U16(Slice(b, s, y)) = Number(b, s) /\ U16(From(Slice(b, s, y), 2)) = Number(b, s + 2)
      BY <3>1, <3>2, Rest
    <3> QED BY <3>3, <2>3, <1>8, <1>9
  <2>6. /\ p.shares # <<>> /\ ~(Len(p.shares) < 4)
        /\ ~(n > Len(p.shares) - 4) /\ ~(Len(p.shares) < 4 + n)
    BY <1>11, <2>4
  <2>7. From(p.shares, 4 + n) = Slice(b, o.at[i + 1], y)
    <3>1. PICK z \in Nat : z = 4 + n
      OBVIOUS
    <3>2. s + z = s + 4 + n /\ s + z <= y /\ s <= y /\ y <= Len(b)
      BY <1>1, <1>4, <2>4, <3>1
    <3>3. From(Slice(b, s, y), z) = Slice(b, s + z, y)
      BY <3>2, FromSlice
    <3> QED BY <1>8, <1>9, <2>3, <3>1, <3>2, <3>3
  <2>8. PICK ks : ks = AddShare(p.keyShares, o.shares[i].group, o.shares[i].len)
    OBVIOUS
  <2>9. Noted(ks, o.shares, i)
    BY <1>8, <2>1, <2>8, NotedStep
  <2>10. Step(p) = [p EXCEPT !.shares = From(p.shares, 4 + n), !.keyShares = ks]
    BY <1>10, <2>2, <2>5, <2>6, <2>8 DEF Share, TooShort, Exceeds, Reading
  <2>11. /\ Step(p).st = "share" /\ Step(p).data = From(b, o.exts[k + 1])
         /\ Step(p).shares = Slice(b, o.at[i + 1], y)
         /\ Step(p).suites = o.suites /\ Step(p).keyShares = ks
    BY <2>7, <2>10, <1>2 DEF Fits
  <2>12. i + 1 \in 1..(m + 1) /\ (i + 1) - 1 = i
    BY <2>1, <1>13
  <2>13. \E j \in 1..(Len(o.shares) + 1) :
            /\ Step(p).shares = Slice(b, o.at[j], y)
            /\ Noted(ks, o.shares, j - 1)
    BY <2>9, <2>11, <2>12, <1>1
  <2> QED BY <2>11, <2>13, <1>1, <1>2, <1>4 DEF Reads
<1> QED BY <1>8, <1>12, <1>13

\* The parser starts at the first byte, and every round keeps its place.
LEMMA StartReads ==
    ASSUME NEW h \in Hellos, h.offer # None
    PROVE  Reads(Start(h), h.body, h.offer)
<1>1. h.lenOK /\ Encodes(h.body, h.offer)
  BY OfferAssumption
<1>2. h.body \in Seq(Octets)
  BY FakeTLSAssumption DEF Octets
<1> PICK o : o = h.offer
  OBVIOUS
<1>3. PICK b \in Seq(Octets) : b = h.body /\ o = h.offer
  BY <1>2
<1>4. b # <<>>
  <2>1. PICK l \in Nat, c \in Nat, x \in Nat :
             l = Len(b) /\ c = CompressionAt(o) /\ x = o.exts[1] /\ c + 3 < x /\ x <= l
    <3>1. 1 \in 1..Len(o.exts)
      BY <1>1, <1>3, Places
    <3> QED BY <3>1, <1>1, <1>3, Places
  <2>2. Len(b) # 0
    BY <2>1
  <2> QED BY <2>2
<1>5. Start(h) = [Empty EXCEPT !.st = "session", !.data = b]
  BY <1>1, <1>3, <1>4 DEF Start
<1>6. Start(h).st = "session" /\ Start(h).data = b /\ Start(h).keyShares = <<>>
  BY <1>5 DEF Empty
<1> QED BY <1>3, <1>6 DEF Reads

LEMMA StepReads ==
    ASSUME NEW h \in Hellos, h.offer # None, NEW p, Fits(p), p.st # "parsed",
           Reads(p, h.body, h.offer)
    PROVE  Reads(Step(p), h.body, h.offer)
<1>1. Encodes(h.body, h.offer)
  BY OfferAssumption
<1>2. h.body \in Seq(Octets)
  BY FakeTLSAssumption DEF Octets
<1>3. p.st \in {"session", "suites", "compression", "extensions", "extension", "share"}
  BY DEF Fits
<1> QED BY <1>1, <1>2, <1>3, ReadsSession, ReadsSuites, ReadsCompression, ReadsExtensions,
           ReadsExtension, ReadsShare

-----------------------------------------------------------------------------
(* The answer *)

\* buildFakeTLSServerHello takes the first of the preferred suites that the
\* client offers.
LEMMA SuiteChosen ==
    ASSUME NEW p, NEW s, p.suites = s,
           NEW known, known = {i \in DOMAIN Preferred : Contains(s, Preferred[i])}, known # {}
    PROVE  /\ Contains(s, CipherSuite(p))
           /\ \A i \in known : \E j \in 1..i : CipherSuite(p) = Preferred[j]
<1>1. Len(Preferred) = 3 /\ DOMAIN Preferred = 1..3
  BY DEF Preferred
<1>2. PICK i : i = SelectInSeq(Preferred, LAMBDA c : Contains(p.suites, c))
  OBVIOUS
<1>3. i = Min(known)
  BY <1>1, <1>2 DEF SelectInSeq
<1>4. known \subseteq 1..3
  BY <1>1
<1>5. \E x \in known : \A y \in known : x <= y
  <2>1. CASE 1 \in known
    BY <2>1, <1>4
  <2>2. CASE 1 \notin known /\ 2 \in known
    BY <2>2, <1>4
  <2>3. CASE 1 \notin known /\ 2 \notin known
    BY <2>3, <1>4
  <2> QED BY <2>1, <2>2, <2>3
<1>6. i \in known /\ \A y \in known : i <= y
  BY <1>3, <1>5 DEF Min
<1>7. i \in 1..3 /\ Contains(s, Preferred[i])
  BY <1>4, <1>6
<1>8. CipherSuite(p) = Preferred[i]
  BY <1>2, <1>7 DEF CipherSuite
<1>9. \A y \in known : i \in 1..y
  BY <1>4, <1>6, <1>7
<1> QED BY <1>7, <1>8, <1>9

\* Whatever the host's records are, the size of the answer is one TLS allows.
LEMMA SizeAllowed ==
    ASSUME NEW records, NEW n \in EncSizes(probeFakeTLSConn(records))
    PROVE  n \in 64..MaxRecord
<1>1. PICK k : k = probeFakeTLSConn(records)
  OBVIOUS
<1>2. k \in 0..(MaxRecord + 256)
  <2>1. k = 0 \/ \E i : k = records[i].len /\ records[i].len \in 1..(MaxRecord + 256)
    BY <1>1 DEF probeFakeTLSConn
  <2> QED BY <2>1, FakeTLSAssumption
<1>3. CASE k <= 0
  <2>1. n \in RandomSizes
    BY <1>1, <1>3 DEF EncSizes
  <2> QED BY <2>1, FakeTLSAssumption
<1>4. CASE ~(k <= 0)
  <2>1. n = IF k < 64 THEN 64 ELSE IF k > MaxRecord THEN MaxRecord ELSE k
    BY <1>1, <1>4 DEF EncSizes
  <2> QED BY <2>1, <1>2, FakeTLSAssumption
<1> QED BY <1>3, <1>4

\* The group is the hybrid one just if the first share of it has its length.
LEMMA GroupChosen ==
    ASSUME NEW p, NEW s, NEW m \in Nat, Noted(p.keyShares, s, m)
    PROVE  Group(p) = MLKEM <=> \E i \in 1..m : /\ s[i].group = MLKEM /\ s[i].len = MLKEMShare
                                               /\ \A j \in 1..(i - 1) : s[j].group # MLKEM
<1>1. X25519 # MLKEM
  BY DEF X25519, MLKEM
<1>2. CASE MLKEM \notin DOMAIN p.keyShares
  BY <1>1, <1>2 DEF Group, Noted
<1>3. CASE MLKEM \in DOMAIN p.keyShares
  <2>1. PICK i \in 1..m : First(s, i) /\ p.keyShares[MLKEM] = s[i].len
    BY <1>3 DEF Noted
  <2>2. \A k \in 1..m : First(s, k) => k = i
    <3>1. SUFFICES ASSUME NEW k \in 1..m, First(s, k), k # i PROVE FALSE
      OBVIOUS
    <3>2. k \in 1..(i - 1) \/ i \in 1..(k - 1)
      BY <2>1, <3>1
    <3> QED BY <2>1, <3>1, <3>2 DEF First
  <2>3. Group(p) = MLKEM <=> s[i].len = MLKEMShare
    BY <1>1, <1>3, <2>1 DEF Group
  <2> QED BY <2>1, <2>2, <2>3 DEF First
<1> QED BY <1>2, <1>3

\* The session ID is repeated.
LEMMA SessionRepeated ==
    ASSUME NEW h \in Hellos, h.offer # None, Len(h.offer.session) = MaxSession
    PROVE  SessionID(h) = h.offer.session
<1> PICK o : o = h.offer
  OBVIOUS
<1>1. PICK b \in Seq(Octets) : b = h.body /\ o = h.offer
  BY FakeTLSAssumption DEF Octets
<1>2. Encodes(b, o)
  BY <1>1, OfferAssumption
<1>3. b[1] = MaxSession /\ SubSeq(b, 2, MaxSession + 1) = o.session
  BY <1>1, <1>2, Places DEF EncodesSession
<1>4. Len(b) > MaxSession
  <2>1. PICK l \in Nat, c \in Nat, x \in Nat, n \in Nat :
             /\ l = Len(b) /\ c = CompressionAt(o) /\ x = o.exts[1] /\ n = Len(o.session)
             /\ n + 5 <= c /\ c + 3 < x /\ x <= l
    <3>1. 1 \in 1..Len(o.exts)
      BY <1>2, Places
    <3> QED BY <3>1, <1>2, Places
  <2>2. n < l
    BY <2>1
  <2> QED BY <2>1, <2>2, <1>1
<1> QED BY <1>1, <1>3, <1>4 DEF SessionID

\* What is built from the offer that was parsed is agreed.
LEMMA BuildAgrees ==
    ASSUME HInv, Build
    PROVE  Agreed'
<1>1. UNCHANGED <<hello, parser>>
  BY DEF Build
<1>2. CASE UNCHANGED reply
  BY <1>1, <1>2 DEF HInv, Agreed
<1>3. CASE ~UNCHANGED reply
  <2>1. PICK profile \in Profiles : \E n \in EncSizes(probeFakeTLSConn(profile)) :
             reply' = [suite |-> CipherSuite(parser), group |-> Group(parser),
                       session |-> SessionID(hello), size |-> n]
    BY <1>3 DEF Build
  <2> PICK n \in EncSizes(probeFakeTLSConn(profile)) :
        reply' = [suite |-> CipherSuite(parser), group |-> Group(parser),
                  session |-> SessionID(hello), size |-> n]
    BY <2>1
  <2>2. reply'.size \in 64..MaxRecord
    BY SizeAllowed
  <2>3. hello \in Hellos /\ parser.st = "parsed"
    BY DEF Build, HInv
  <2>4. SUFFICES ASSUME hello.offer # None
                 PROVE  LET o == hello.offer
                            known == {i \in DOMAIN Preferred : Contains(o.suites, Preferred[i])}
                        IN  /\ known # {} =>
                                 /\ Contains(o.suites, reply'.suite)
                                 /\ \A i \in known : \E j \in 1..i : reply'.suite = Preferred[j]
                            /\ reply'.group = MLKEM <=>
                                 \E i \in DOMAIN o.shares :
                                   /\ o.shares[i].group = MLKEM /\ o.shares[i].len = MLKEMShare
                                   /\ \A j \in 1..(i - 1) : o.shares[j].group # MLKEM
                            /\ Len(o.session) = MaxSession => reply'.session = o.session
    BY <1>1, <2>2 DEF Agreed
  <2>5. Reads(parser, hello.body, hello.offer)
    BY <2>4 DEF Build, HInv
  <2>6. /\ parser.suites = hello.offer.suites
        /\ Noted(parser.keyShares, hello.offer.shares, Len(hello.offer.shares))
    BY <2>3, <2>5 DEF Reads
  <2>7. hello.offer.shares \in Seq([group : Nat, len : Nat])
    BY <2>3, <2>4, OfferAssumption DEF Encodes
  <2>8. PICK m \in Nat : m = Len(hello.offer.shares) /\ DOMAIN hello.offer.shares = 1..m
    BY <2>7
  <2>9. /\ reply'.suite = CipherSuite(parser) /\ reply'.group = Group(parser)
        /\ reply'.session = SessionID(hello)
    OBVIOUS
  <2>10. PICK known : known = {i \in DOMAIN Preferred : Contains(hello.offer.suites, Preferred[i])}
    OBVIOUS
  <2>11. known # {} => /\ Contains(hello.offer.suites, CipherSuite(parser))
                       /\ \A i \in known : \E j \in 1..i : CipherSuite(parser) = Preferred[j]
    BY <2>6, <2>10, SuiteChosen
  <2>12. Group(parser) = MLKEM <=>
           \E i \in 1..m : /\ hello.offer.shares[i].group = MLKEM
                           /\ hello.offer.shares[i].len = MLKEMShare
                           /\ \A j \in 1..(i - 1) : hello.offer.shares[j].group # MLKEM
    <3>1. PICK s : s = hello.offer.shares /\ Noted(parser.keyShares, s, m)
      BY <2>6, <2>8
    <3>2. Group(parser) = MLKEM <=> \E i \in 1..m : /\ s[i].group = MLKEM /\ s[i].len = MLKEMShare
                                                    /\ \A j \in 1..(i - 1) : s[j].group # MLKEM
      BY <3>1, GroupChosen
    <3> QED BY <3>1, <3>2
  <2>13. Len(hello.offer.session) = MaxSession => SessionID(hello) = hello.offer.session
    BY <2>3, <2>4, SessionRepeated
  <2> QED BY <2>8, <2>9, <2>10, <2>11, <2>12, <2>13
<1> QED BY <1>2, <1>3

\* The other steps leave the hello and the answer alone, and do not go back.
LEMMA OthersKeepAnswer ==
    ASSUME Next
    PROVE  \/ ReadBody \/ Parse \/ Build
           \/ /\ UNCHANGED <<hello, reply>>
              /\ pc' = pc \/ pc' \notin {"parse", "build"}
              /\ pc' \in {"first", "header", "body"} => pc \in {"first", "header", "body"}
<1> USE DEF start, Goto
<1>1. CASE Main
  <2>1. CASE \/ ReadFirst \/ ReadHeader \/ ReadHandshake \/ WriteRedirect \/ WriteHello
    BY <2>1 DEF ReadFirst, ReadHeader, ReadHandshake, ReadFull, WriteRedirect, WriteHello, WriteClient
  <2>2. CASE \/ Delay \/ Dial \/ WriteInitial \/ WaitFirst \/ CloseClient \/ CloseUpstream
             \/ Drain \/ Return
    BY <2>2 DEF Delay, Dial, WriteInitial, WaitFirst, CloseClient, CloseUpstream, CloseSide,
                Drain, Return
  <2> QED BY <1>1, <2>1, <2>2 DEF Main
<1>2. CASE Up
  BY <1>2 DEF Up, UpRead, UpWrite, CopyClose, CopyExit
<1>3. CASE Down
  BY <1>3 DEF Down, DownRead, DownWrite, CopyClose, CopyExit
<1>4. CASE \E side \in Sides : AfterClose(side) \/ HangUp(side) \/ StopReading(side)
  BY <1>4 DEF AfterClose, HangUp, StopReading
<1>5. CASE Cancel \/ DeadlinePasses \/ HostSends
  BY <1>5 DEF Cancel, DeadlinePasses, HostSends
<1> QED BY <1>1, <1>2, <1>3, <1>4, <1>5 DEF Next

\* What the session knows of the hello and what it answers is right at every
\* step.
THEOREM HandshakeInvariant == Spec => []HInv
<1>1. Init => HInv
  BY DEF Init, HInv, Agreed
<1>2. ASSUME HInv, Fits(parser), [Next]_vars PROVE HInv'
  <2>1. CASE ReadBody
    <3>1. reply = None /\ reply' = None
      BY <2>1, <1>2 DEF ReadBody, HInv
    <3>2. CASE pc' \in {"return", "dial"}
      BY <3>1, <3>2 DEF HInv, Agreed
    <3>3. CASE pc' = "parse"
      <4>1. hello' \in Hellos /\ parser' = Start(hello')
        BY <2>1, <3>3 DEF ReadBody, Goto
      <4>2. hello'.offer # None => Reads(parser', hello'.body, hello'.offer)
        BY <4>1, StartReads
      <4> QED BY <3>1, <3>3, <4>1, <4>2 DEF HInv, Agreed
    <3> QED BY <2>1, <3>2, <3>3 DEF ReadBody, Goto
  <2>2. CASE Parse
    <3>1. pc = "parse" /\ reply = None /\ UNCHANGED <<hello, reply>> /\ hello \in Hellos
      BY <2>2, <1>2 DEF Parse, HInv
    <3>2. CASE parser.st = "parsed"
      BY <2>2, <3>1, <3>2, <1>2 DEF Parse, Goto, HInv, Agreed
    <3>3. CASE parser.st # "parsed"
      <4>1. pc' = "parse" /\ parser' = Step(parser)
        BY <2>2, <3>3 DEF Parse, Goto
      <4>2. hello.offer # None => Reads(parser', hello.body, hello.offer)
        BY <4>1, <3>1, <3>3, <1>2, StepReads DEF HInv
      <4> QED BY <3>1, <4>1, <4>2 DEF HInv, Agreed
    <3> QED BY <3>2, <3>3
  <2>3. CASE Build
    <3>1. Agreed'
      BY <2>3, <1>2, BuildAgrees
    <3>2. pc' \in {"return", "delay"}
      BY <2>3 DEF Build, Goto
    <3> QED BY <3>1, <3>2 DEF HInv
  <2>4. CASE /\ UNCHANGED <<hello, reply, parser>>
             /\ pc' = pc \/ pc' \notin {"parse", "build"}
             /\ pc' \in {"first", "header", "body"} => pc \in {"first", "header", "body"}
    <3>1. Agreed'
      BY <2>4, <1>2 DEF HInv, Agreed
    <3> QED BY <2>4, <3>1, <1>2 DEF HInv
  <2>5. CASE UNCHANGED vars
    BY <2>4, <2>5 DEF vars, start
  <2> QED BY <2>1, <2>2, <2>3, <2>4, <2>5, <1>2, OthersKeepParser, OthersKeepAnswer
<1> QED BY <1>1, <1>2, ParserInvariant, PTL DEF Spec

\* The ServerHello fits the ClientHello that was sent: the suite, the group and
\* the session ID of every offer, however long, and a size TLS allows, whatever
\* the masking host answered to the probe.
THEOREM AnswerIsAgreed == Spec => []Agreed
<1>1. HInv => Agreed
  BY DEF HInv
<1> QED BY <1>1, HandshakeInvariant, PTL

-----------------------------------------------------------------------------
(* The masking relay *)

\* The steps before the relay, and those after it or without one.
Before == {"first", "header", "body", "redirect", "handshake", "accepted", "parse",
           "build", "delay", "write", "dial", "initial"}
Late == {"closeClient", "closeUpstream", "drain", "return", "done"}
Over == {"close", "exit", "gone"}

RelayType == /\ pc \in Before \cup {"relay"} \cup Late
             /\ copy \in [Copies -> {"none", "read", "write"} \cup Over]
             /\ sent \in Nat /\ got \in Nat /\ held \in Nat /\ tokens \in Nat

\* The copies start together, at the relay; a side is closed before only by
\* the shutdown, which is also what starts an AfterFunc; a message in the done
\* channel comes from a copy that is gone; a chunk in hand has not arrived.
Starting == /\ copy["up"] = "none" <=> copy["down"] = "none"
            /\ pc \in Before => copy["down"] = "none" /\ ("client" \in open \/ cancelled)
            /\ closing # {} => cancelled
            /\ tokens > 0 => copy["up"] = "gone" \/ copy["down"] = "gone"
            /\ got <= sent
            /\ copy["down"] = "write" => held = 1 /\ got < sent

\* Nothing but the host ends the relay, so far.
Undisturbed == ~cancelled /\ deadline # "passed" /\ "client" \notin hung /\ ~refused

\* The relay has begun to end: a copy, the session or a side.
Ended == \/ copy["up"] \in Over \/ copy["down"] \in Over
         \/ "client" \notin open \/ "upstream" \notin open
         \/ pc \in Late

\* The host has closed, and the client has all of its answer.
Complete == "upstream" \in hung /\ got = sent

\* Whatever end comes first, the host's answer is complete.
Endings == copy["down"] # "none" /\ Undisturbed /\ Ended => Complete

RInv == RelayType /\ Starting /\ Endings

\* The copies after a step of one of them.
LEMMA CopyFacts ==
    ASSUME RelayType, NEW c \in Copies, NEW v, copy' = [copy EXCEPT ![c] = v]
    PROVE  /\ copy'["up"] = IF c = "up" THEN v ELSE copy["up"]
           /\ copy'["down"] = IF c = "down" THEN v ELSE copy["down"]
           /\ v \in {"none", "read", "write"} \cup Over
                => copy' \in [Copies -> {"none", "read", "write"} \cup Over]
BY DEF RelayType, Copies

\* The steps of the handshake: a side may be opened, the relay is not begun.
LEMMA HandshakeInv ==
    ASSUME RInv, pc \in Before, pc' \in Before \cup {"return"},
           open \subseteq open', closing' # {} => cancelled,
           UNCHANGED <<cancelled, copy, held, got, tokens, sent>>
    PROVE  RInv'
BY DEF RInv, RelayType, Starting, Endings, Before, Late

\* The other steps of the session: an undisturbed relay goes on to close the
\* sides only after a copy has ended.
LEMMA SessionInv ==
    ASSUME RInv, pc \in {"relay"} \cup Late, pc' \in Late,
           pc = "relay" => tokens > 0,
           tokens' \in Nat, tokens' <= tokens,
           UNCHANGED <<cancelled, deadline, closing, hung, copy, sent, held, got, refused>>
    PROVE  RInv'
<1> USE DEF RInv
<1>1. RelayType' /\ Starting'
  BY DEF RelayType, Starting, Before, Late
<1>2. Ended
  BY DEF Starting, Ended, Over
<1>3. Endings'
  BY <1>2 DEF Endings, Undisturbed, Complete
<1> QED BY <1>1, <1>3

LEMMA MainInv ==
    ASSUME RInv, Main
    PROVE  RInv'
<1> USE DEF start, ends, peers, relay, Goto
<1>1. RInv /\ (closing # {} => cancelled)
  BY DEF RInv, Starting
<1>2. CASE \/ ReadFirst \/ ReadHeader \/ ReadHandshake \/ WriteRedirect \/ WriteHello
  BY <1>1, <1>2, HandshakeInv DEF ReadFirst, ReadHeader, ReadHandshake, ReadFull,
                                  WriteRedirect, WriteHello, WriteClient, Before
<1>3. CASE ReadBody \/ Parse \/ Build \/ Delay
  BY <1>1, <1>3, HandshakeInv DEF ReadBody, Parse, Build, Delay, Before
<1>4. CASE Dial
  BY <1>1, <1>4, HandshakeInv DEF Dial, Before
<1>5. CASE WriteInitial
  <2>1. CASE pc' = "return" /\ UNCHANGED copy
    BY <1>1, <1>5, <2>1, HandshakeInv DEF WriteInitial, Before
  <2>2. CASE "upstream" \in open /\ pc' = "relay" /\ copy' = [c \in Copies |-> "read"]
    <3> USE <1>5, <2>2 DEF WriteInitial, RInv
    <3>1. copy'["up"] = "read" /\ copy'["down"] = "read"
      BY DEF Copies
    <3>2. RelayType'
      BY DEF RelayType
    <3>3. Starting'
      BY <3>1 DEF Starting, Before
    <3>4. Endings'
      BY <3>1 DEF Endings, Ended, Undisturbed, Over, Late, Starting, Before
    <3> QED BY <3>2, <3>3, <3>4
  <2> QED BY <1>5, <2>1, <2>2 DEF WriteInitial
<1>6. CASE WaitFirst
  BY <1>6, SessionInv DEF RInv, RelayType, WaitFirst, FirstDone, Late
<1>7. CASE CloseClient \/ CloseUpstream \/ Return
  BY <1>7, SessionInv DEF RInv, RelayType, CloseClient, CloseUpstream, CloseSide, Return, Late
<1>8. CASE Drain
  BY <1>8, SessionInv DEF RInv, RelayType, Drain, Late
<1> QED BY <1>2, <1>3, <1>4, <1>5, <1>6, <1>7, <1>8 DEF Main

\* The up copy ends by itself only with what disturbs the relay.
LEMMA UpInv ==
    ASSUME RInv, UpRead \/ UpWrite
    PROVE  RInv'
<1> USE DEF RInv, start, ends, peers, CopyGoto
<1>1. PICK v \in {"read", "write", "close"} : copy' = [copy EXCEPT !["up"] = v]
  BY DEF UpRead, UpWrite
<1>2. copy'["up"] = v /\ copy'["down"] = copy["down"] /\ copy["up"] \in {"read", "write"}
      /\ copy' \in [Copies -> {"none", "read", "write"} \cup Over]
  BY <1>1, CopyFacts DEF Copies, Over, UpRead, UpWrite
<1>3. UNCHANGED <<pc, cancelled, deadline, open, closing, hung, sent, held, got, tokens>>
  BY DEF UpRead, UpWrite
<1>4. RelayType' /\ Starting'
  BY <1>2, <1>3 DEF RelayType, Starting
<1>5. v = "close" /\ Undisturbed' => Undisturbed /\ "client" \notin open
  BY <1>1, <1>2 DEF UpRead, UpWrite, Undisturbed, RelayType, Copies
<1>6. Undisturbed' => Undisturbed
  BY DEF UpRead, UpWrite, Undisturbed
<1>7. Endings'
  BY <1>2, <1>3, <1>5, <1>6 DEF Endings, Ended, Complete, Over
<1> QED BY <1>4, <1>7

\* The down copy ends by itself when it has delivered all there is.
LEMMA DownInv ==
    ASSUME RInv, DownRead \/ DownWrite
    PROVE  RInv'
<1> USE DEF RInv, start, ends, peers, CopyGoto
<1>1. PICK v \in {"read", "write", "close"} : copy' = [copy EXCEPT !["down"] = v]
  BY DEF DownRead, DownWrite
<1>2. copy'["down"] = v /\ copy'["up"] = copy["up"] /\ copy["down"] \in {"read", "write"}
      /\ copy' \in [Copies -> {"none", "read", "write"} \cup Over]
  BY <1>1, CopyFacts DEF Copies, Over, DownRead, DownWrite
<1>3. UNCHANGED <<pc, cancelled, deadline, open, closing, hung, sent, refused, tokens>>
  BY DEF DownRead, DownWrite
<1>4. CASE DownRead
  <2>1. \/ v = "write" /\ sent > got /\ held' = 1 /\ got' = got
        \/ /\ v = "close" /\ held' = held /\ got' = got
           /\ "upstream" \notin open \/ ("upstream" \in hung /\ sent = got)
    BY <1>1, <1>4 DEF DownRead, RelayType, Copies
  <2>2. RelayType' /\ Starting'
    BY <1>2, <1>3, <2>1 DEF RelayType, Starting
  <2>3. Endings'
    BY <1>2, <1>3, <2>1 DEF Endings, Ended, Complete, Over, Undisturbed
  <2> QED BY <2>2, <2>3
<1>5. CASE DownWrite
  <2>1. /\ held' = 0 /\ held = 1 /\ got < sent
        /\ \/ v = "read" /\ got' = got + 1
           \/ /\ v = "close" /\ got' = got
              /\ "client" \in hung \/ "client" \notin open
    BY <1>1, <1>5 DEF DownWrite, RelayType, Starting, Copies
  <2>2. RelayType' /\ Starting'
    BY <1>2, <1>3, <2>1 DEF RelayType, Starting
  <2>3. ~Complete
    BY <2>1 DEF Complete, RelayType
  <2>4. Endings'
    BY <1>2, <1>3, <2>1, <2>3 DEF Endings, Ended, Over, Undisturbed
  <2> QED BY <2>2, <2>4
<1> QED BY <1>4, <1>5

\* A copy that ends closes the side it writes to and reports.
LEMMA CopyEndInv ==
    ASSUME RInv, NEW c \in Copies, CopyClose(c) \/ CopyExit(c)
    PROVE  RInv'
<1> USE DEF RInv, start, ends, peers, CopyGoto
<1>1. PICK v \in {"exit", "gone"} : copy' = [copy EXCEPT ![c] = v] /\ (tokens' # tokens => v = "gone")
  BY DEF CopyClose, CopyExit
<1>2. /\ copy'["up"] = IF c = "up" THEN v ELSE copy["up"]
      /\ copy'["down"] = IF c = "down" THEN v ELSE copy["down"]
      /\ copy' \in [Copies -> {"none", "read", "write"} \cup Over]
      /\ copy[c] \in {"close", "exit"} /\ (c = "up" \/ c = "down")
  BY <1>1, CopyFacts DEF Copies, Over, CopyClose, CopyExit
<1>3. UNCHANGED <<pc, cancelled, deadline, closing, hung, sent, held, got, refused>>
  BY DEF CopyClose, CopyExit
<1>4. tokens' \in {tokens, tokens + 1}
  BY DEF CopyClose, CopyExit
<1>5. pc \notin Before /\ Ended
  BY <1>2 DEF Starting, Ended, Over
<1>6. RelayType'
  BY <1>2, <1>3, <1>4 DEF RelayType
<1>7. Starting'
  BY <1>1, <1>2, <1>3, <1>4, <1>5 DEF Starting, RelayType
<1>8. Endings'
  BY <1>2, <1>3, <1>5 DEF Endings, Complete, Undisturbed
<1> QED BY <1>6, <1>7, <1>8

\* The AfterFuncs run after the shutdown only; a host that has closed sends
\* nothing more.
LEMMA EnvironmentInv ==
    ASSUME RInv,
           \/ \E side \in Sides : AfterClose(side) \/ HangUp(side) \/ StopReading(side)
           \/ Cancel \/ DeadlinePasses \/ HostSends
    PROVE  RInv'
<1> USE DEF RInv, start, ends, peers, relay
<1>1. CASE \E side \in Sides : AfterClose(side)
  BY <1>1 DEF AfterClose, RelayType, Starting, Endings, Undisturbed
<1>2. CASE \E side \in Sides : HangUp(side)
  <2>1. RelayType' /\ Starting'
    BY <1>2 DEF HangUp, RelayType, Starting
  <2>2. Endings'
    BY <1>2 DEF HangUp, Endings, Undisturbed, Ended, Complete
  <2> QED BY <2>1, <2>2
<1>3. CASE \E side \in Sides : StopReading(side)
  BY <1>3 DEF StopReading, RelayType, Starting, Endings, Undisturbed, Ended, Complete
<1>4. CASE Cancel
  BY <1>4 DEF Cancel, RelayType, Starting, Endings, Undisturbed
<1>5. CASE DeadlinePasses
  BY <1>5 DEF DeadlinePasses, RelayType, Starting, Endings, Undisturbed
<1>6. CASE HostSends
  <2>1. RelayType' /\ Starting'
    BY <1>6 DEF HostSends, RelayType, Starting
  <2>2. ~Complete
    BY <1>6 DEF HostSends, Complete
  <2>3. Endings'
    BY <1>6, <2>2 DEF HostSends, Endings, Undisturbed, Ended
  <2> QED BY <2>1, <2>3
<1> QED BY <1>1, <1>2, <1>3, <1>4, <1>5, <1>6

\* The relay's invariant is inductive.
THEOREM RelayInvariant == Spec => []RInv
<1>1. Init => RInv
  <2> SUFFICES ASSUME Init PROVE RInv
    OBVIOUS
  <2>1. copy["up"] = "none" /\ copy["down"] = "none"
    BY DEF Init, Copies
  <2>2. RelayType
    BY DEF Init, RelayType, Before
  <2> QED BY <2>1, <2>2 DEF Init, RInv, Starting, Endings
<1>2. ASSUME RInv, [Next]_vars PROVE RInv'
  <2>1. CASE Main
    BY <1>2, <2>1, MainInv
  <2>2. CASE Up \/ Down
    BY <1>2, <2>2, UpInv, DownInv, CopyEndInv DEF Up, Down, Copies
  <2>3. CASE \/ \E side \in Sides : AfterClose(side) \/ HangUp(side) \/ StopReading(side)
             \/ Cancel \/ DeadlinePasses \/ HostSends
    BY <1>2, <2>3, EnvironmentInv
  <2>4. CASE UNCHANGED vars
    BY <1>2, <2>4 DEF vars, ends, peers, relay, RInv, RelayType, Starting, Endings,
                      Undisturbed, Ended, Complete
  <2> QED BY <1>2, <2>1, <2>2, <2>3, <2>4 DEF Next
<1> QED BY <1>1, <1>2, PTL DEF Spec

\* A visitor who is no user of the proxy sees the masking host's connection:
\* its own is closed only after the host's, with all that the host sent, in
\* whatever order the copies, the session and the peers move.
THEOREM RelayIsTransparent == Spec => []Transparent
<1>1. RInv => Transparent
  BY DEF RInv, Endings, Undisturbed, Ended, Complete, Transparent
<1> QED BY <1>1, RelayInvariant, PTL
=============================================================================
