----------------------------- MODULE TLSRecords -----------------------------
(***************************************************************************)
(* fakeTLSConn (fake_tls.go): the record layer a Fake TLS session speaks   *)
(* with its client.  Read undoes the client's records and keeps in readBuf *)
(* what the caller had no room for; Write cuts into records of at most     *)
(* MaxRecord bytes.                                                        *)
(*                                                                         *)
(* The connection below delivers records: io.ReadFull hides how TCP cut    *)
(* them.  A record has a type, a body and whether the connection ended     *)
(* before it was complete.  The length of a record is that of its body.    *)
(***************************************************************************)
EXTENDS Naturals, Sequences, SequencesExt

CONSTANT MaxRecord     \* tlsRecordMaxLen

ASSUME RecordAssumption == MaxRecord \in Nat \ {0}

CCS == "ccs"           \* tlsRecordCCS
AppData == "appdata"   \* tlsRecordAppData
Alert == "alert"       \* any other type

Record(type, body) == [type |-> type, body |-> body, cut |-> FALSE]

Take(s, n) == SubSeq(s, 1, n)
Drop(s, n) == SubSeq(s, n + 1, Len(s))

\* The loop skips this record, unless it is cut short.
Skipped(r) == r.type = CCS \/ (r.type = AppData /\ r.body = <<>>)

\* The loop over the records that arrive: the payload it returns, or an error.
\* What arrived of a record that is cut short is lost.
readTLSPayload(records) ==
    LET i == SelectInSeq(records, LAMBDA r : r.cut \/ ~Skipped(r))
    IN  IF i = 0 \/ records[i].cut \/ records[i].type # AppData
        THEN [payload |-> <<>>, err |-> TRUE]
        ELSE [payload |-> records[i].body, err |-> FALSE]

\* What Read keeps of a payload that is longer than the caller's buffer.
BadLeftover(payload, n) == <<>>                  \* the rest of the record is dropped
Leftover(payload, n) == Drop(payload, n)

\* Read into a buffer of size > 0: the data, the new readBuf, the error.
Read(readBuf, records, size) ==
    LET r == readTLSPayload(records)
        from == IF readBuf # <<>> THEN readBuf ELSE r.payload
    IN  [data |-> Take(from, IF Len(from) < size THEN Len(from) ELSE size),
         buf |-> Leftover(from, size),
         err |-> readBuf = <<>> /\ r.err]

\* The record Write cuts off next.
NextChunk(data) == Take(data, IF Len(data) > MaxRecord THEN MaxRecord ELSE Len(data))

wrapFakeTLSRecords(data) ==
    LET from[i \in 0..Len(data)] ==
          LET chunk == NextChunk(Drop(data, i))
          IN  IF i = Len(data) THEN <<>>
              ELSE <<Record(AppData, chunk)>> \o from[i + Len(chunk)]
    IN  from[0]
=============================================================================
