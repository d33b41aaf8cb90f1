-------------------------------- MODULE Wire --------------------------------
(***************************************************************************)
(* The binary formats: Encode and Decode of the internal message           *)
(* (src/pkg/protocol/message.go) and MarshalBinary and UnmarshalBinary of  *)
(* the RPC request and response (src/pkg/rpc/protocol.go).                 *)
(*                                                                         *)
(* Encoded data is a sequence of cells.  A cell is a byte of a variable    *)
(* field, or a whole length or sequence number; big-endian conversion of a *)
(* number to bytes and back is the identity on it up to its width, and a   *)
(* number cut in the middle is a missing cell.                             *)
(*                                                                         *)
(* The one place where two numbers share bytes is modelled as such.  The   *)
(* header is taken to be 20 bytes long, and its fields are 22: PutUint32   *)
(* writes PayloadLength to bytes 18 to 21, and the length of SourceService *)
(* is then written to bytes 20 and 21.  What is left of PayloadLength is   *)
(* its upper half.                                                         *)
(***************************************************************************)
EXTENDS Naturals, Sequences

CONSTANTS HalfWord,        \* 2^16: the values of a uint16
          Word,            \* 2^32
          ProtocolVersion,
          MaxName,         \* MaxServiceNameSize
          MaxPayload,      \* MaxPayloadSize
          Error            \* the result of a failed conversion

ASSUME WidthAssumption ==
  /\ HalfWord \in Nat /\ Word \in Nat
  /\ MaxName \in Nat /\ MaxName < HalfWord
  /\ MaxPayload \in Nat
  /\ HalfWord <= Word

Bytes == Seq(Nat)

\* A field with its length before it, cut to the width w.
Prefixed(s, w) == <<Len(s) % w>> \o s

\* The bytes of a name of a message: as many as its 16-bit length says, in a
\* buffer made for that length.
Fitted(s) == SubSeq(s, 1, Len(s) % HalfWord)

\* Reading one back from the front of the data.
HasField(d)   == d # <<>> /\ Head(d) + 1 <= Len(d)
FieldOf(d)    == SubSeq(d, 2, Head(d) + 1)
AfterField(d) == SubSeq(d, Head(d) + 2, Len(d))

(***************************************************************************)
(* The internal message.  Its fixed fields (flags, types, sequence number, *)
(* time) are kept together.                                                *)
(***************************************************************************)
Message == [version : Nat, fixed : Nat, payloadLength : Nat,
            source : Bytes, dest : Bytes, correlation : Bytes, session : Bytes,
            payload : Bytes]

\* high: bytes 18 and 19; low: bytes 20 and 21; body: all that follows.  Data
\* that is too short for these has no such record, and is not modelled.
Encode(m) ==
  IF \/ Len(m.payload) > MaxPayload
     \/ Len(m.source) > MaxName
     \/ Len(m.dest) > MaxName
    THEN Error
    ELSE [version |-> m.version, fixed |-> m.fixed,
          high |-> m.payloadLength \div HalfWord,
          low  |-> Len(m.source),
          body |-> m.source \o (Prefixed(Fitted(m.dest), HalfWord)
                     \o (Prefixed(Fitted(m.correlation), HalfWord)
                     \o (Prefixed(Fitted(m.session), HalfWord) \o m.payload)))]

Decode(f) ==
  LET d == SubSeq(f.body, f.low + 1, Len(f.body))
      c == AfterField(d)
      s == AfterField(c)
      p == AfterField(s)
      n == f.high * HalfWord + f.low
  IN IF \/ f.version # ProtocolVersion
        \/ Len(f.body) < f.low
        \/ ~HasField(d) \/ ~HasField(c) \/ ~HasField(s)
        \/ Len(p) < n
       THEN Error
       ELSE [version |-> f.version, fixed |-> f.fixed, payloadLength |-> n,
             source |-> SubSeq(f.body, 1, f.low), dest |-> FieldOf(d),
             correlation |-> FieldOf(c), session |-> FieldOf(s),
             payload |-> SubSeq(p, 1, n)]

\* The messages Encode accepts whose identifiers fit their 16-bit lengths.
Encodable(m) ==
  /\ Len(m.payload) <= MaxPayload
  /\ Len(m.source) <= MaxName /\ Len(m.dest) <= MaxName
  /\ Len(m.correlation) < HalfWord /\ Len(m.session) < HalfWord

\* What Decode makes of the payload length.
ReadLength(m) == (m.payloadLength \div HalfWord) * HalfWord + Len(m.source)

\* Decode after Encode: every field but the payload and its length comes back;
\* the payload comes back up to ReadLength, and the message is refused when
\* the payload is shorter than that.
Expected(m) ==
  IF Len(m.payload) < ReadLength(m)
    THEN Error
    ELSE [version |-> m.version, fixed |-> m.fixed,
          payloadLength |-> ReadLength(m),
          source |-> m.source, dest |-> m.dest,
          correlation |-> m.correlation, session |-> m.session,
          payload |-> SubSeq(m.payload, 1, ReadLength(m))]

(***************************************************************************)
(* RPC requests and responses.                                             *)
(***************************************************************************)
Request  == [sequence : Nat, method : Bytes, args : Bytes]
Response == [sequence : Nat, method : Bytes, error : Bytes, reply : Bytes]

MarshalRequest(r) ==
  <<r.sequence>> \o (Prefixed(r.method, Word) \o Prefixed(r.args, Word))

UnmarshalRequest(data) ==
  LET d == SubSeq(data, 2, Len(data))
      a == AfterField(d)
  IN IF Len(data) < 3 \/ ~HasField(d) \/ ~HasField(a)
       THEN Error
       ELSE [sequence |-> data[1], method |-> FieldOf(d), args |-> FieldOf(a)]

MarshalResponse(r) ==
  <<r.sequence>> \o (Prefixed(r.method, Word)
                 \o (Prefixed(r.error, Word) \o Prefixed(r.reply, Word)))

UnmarshalResponse(data) ==
  LET d == SubSeq(data, 2, Len(data))
      e == AfterField(d)
      a == AfterField(e)
  IN IF Len(data) < 4 \/ ~HasField(d) \/ ~HasField(e) \/ ~HasField(a)
       THEN Error
       ELSE [sequence |-> data[1], method |-> FieldOf(d), error |-> FieldOf(e),
             reply |-> FieldOf(a)]
=============================================================================
