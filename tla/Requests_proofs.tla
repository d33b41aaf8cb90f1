--------------------------- MODULE Requests_proofs ---------------------------
(***************************************************************************)
(* What becomes of a request: what the binary formats keep of it, for      *)
(* messages and calls of any size; the session a QUIC message is handled   *)
(* in, for any number of connections, streams and ids; and the answer to   *)
(* GetMulti, for any number of identifiers: the loop that shrinks          *)
(* missingIDs while it ranges over it loses none and asks for none twice,  *)
(* and a row the database has is found.                                    *)
(***************************************************************************)
EXTENDS Wire, QuicSessions, MultiGet, FiniteSetTheorems, SequenceTheorems,
        TLAPS

-----------------------------------------------------------------------------
(* The binary formats.                                                      *)

\* A number below the width of its cell is stored as it is.
LEMMA FitsWidth ==
  ASSUME NEW n \in Nat, NEW w \in Nat, n < w
  PROVE  n % w = n
BY Z3

\* A name below the width of its length is kept whole.
LEMMA FittedWhole ==
  ASSUME NEW s \in Bytes, Len(s) < HalfWord
  PROVE  Fitted(s) = s
<1>1. Len(s) \in Nat /\ HalfWord \in Nat
  BY WidthAssumption DEF Bytes
<1>2. Len(s) % HalfWord = Len(s)
  BY Zenon, <1>1, FitsWidth
<1>. QED  BY <1>2 DEF Fitted, Bytes

\* The elements of a concatenation.
LEMMA Concat ==
  ASSUME NEW a \in Bytes, NEW b \in Bytes
  PROVE  /\ a \o b \in Bytes
         /\ Len(a) \in Nat /\ Len(b) \in Nat
         /\ Len(a \o b) = Len(a) + Len(b)
         /\ \A i \in 1..Len(a) : (a \o b)[i] = a[i]
         /\ \A i \in 1..Len(b) : (a \o b)[Len(a) + i] = b[i]
BY DEF Bytes

\* A stretch of d whose elements are those of s is s.
LEMMA Stretch ==
  ASSUME NEW d \in Bytes, NEW s \in Bytes, NEW k \in Nat,
         k + Len(s) <= Len(d),
         \A i \in 1..Len(s) : d[k + i] = s[i]
  PROVE  SubSeq(d, k + 1, k + Len(s)) = s
BY DEF Bytes

\* The length and the elements of a stretch of d.
LEMMA Part ==
  ASSUME NEW d \in Bytes, NEW i \in Nat \ {0}, NEW k \in Nat,
         k <= Len(d), i <= k + 1
  PROVE  /\ SubSeq(d, i, k) \in Bytes
         /\ Len(SubSeq(d, i, k)) = k + 1 - i
         /\ \A j \in 1..(k + 1 - i) : SubSeq(d, i, k)[j] = d[i + j - 1]
BY DEF Bytes

\* The front and the rest of a concatenation can be cut out again.
LEMMA TakeDrop ==
  ASSUME NEW a \in Bytes, NEW b \in Bytes
  PROVE  /\ SubSeq(a \o b, 1, Len(a)) = a
         /\ SubSeq(a \o b, Len(a) + 1, Len(a \o b)) = b
<1>. DEFINE d == a \o b
<1>1. /\ d \in Bytes
      /\ Len(a) \in Nat /\ Len(b) \in Nat
      /\ Len(d) = Len(a) + Len(b)
      /\ \A i \in 1..Len(a) : d[i] = a[i]
      /\ \A i \in 1..Len(b) : d[Len(a) + i] = b[i]
  BY Zenon, Concat
<1>. HIDE DEF d
<1>2. SubSeq(d, 1, Len(a)) = a
  <2>1. 0 \in Nat /\ 0 + Len(a) <= Len(d) /\ \A i \in 1..Len(a) : d[0 + i] = a[i]
    BY <1>1
  <2>2. SubSeq(d, 0 + 1, 0 + Len(a)) = a
    BY Zenon, <1>1, <2>1, Stretch
  <2>. QED  BY <2>2, <1>1
<1>3. SubSeq(d, Len(a) + 1, Len(d)) = b
  <2>1. Len(a) + Len(b) <= Len(d)
    BY <1>1
  <2>2. SubSeq(d, Len(a) + 1, Len(a) + Len(b)) = b
    BY Zenon, <1>1, <2>1, Stretch
  <2>. QED  BY Zenon, <2>2, <1>1
<1>. QED  BY Zenon, <1>2, <1>3 DEF d

\* A field written in front of more data is read back, and the data after it,
\* when its length fits the width of the length cell.
LEMMA FieldRead ==
  ASSUME NEW s \in Bytes, NEW b \in Bytes, NEW w \in Nat, Len(s) < w
  PROVE  /\ Prefixed(s, w) \in Bytes
         /\ Prefixed(s, w) \o b \in Bytes
         /\ Len(Prefixed(s, w) \o b) = Len(s) + 1 + Len(b)
         /\ (Prefixed(s, w) \o b)[1] = Len(s)
         /\ HasField(Prefixed(s, w) \o b)
         /\ FieldOf(Prefixed(s, w) \o b) = s
         /\ AfterField(Prefixed(s, w) \o b) = b
<1>. DEFINE n == Len(s)
            q == <<n>> \o s
            d == q \o b
<1>1. n \in Nat /\ Len(b) \in Nat
  BY DEF Bytes
<1>2. n % w = n
  BY Zenon, <1>1, FitsWidth
<1>4. Prefixed(s, w) = q
  BY Zenon, <1>2 DEF Prefixed
<1>5. <<n>> \in Bytes /\ Len(<<n>>) = 1 /\ <<n>>[1] = n
  BY <1>1 DEF Bytes
<1>6. /\ q \in Bytes
      /\ Len(q) = n + 1
      /\ q[1] = n
      /\ \A i \in 1..n : q[1 + i] = s[i]
  <2>. HIDE DEF q
  <2>1. /\ q \in Bytes
        /\ Len(q) = Len(<<n>>) + n
        /\ \A i \in 1..Len(<<n>>) : q[i] = <<n>>[i]
        /\ \A i \in 1..n : q[Len(<<n>>) + i] = s[i]
    BY Zenon, <1>5, Concat DEF q
  <2>. QED  BY <2>1, <1>1, <1>5
<1>. HIDE DEF q
<1>7. /\ d \in Bytes
      /\ Len(d) = n + 1 + Len(b)
      /\ \A i \in 1..(n + 1) : d[i] = q[i]
      /\ \A i \in 1..Len(b) : d[n + 1 + i] = b[i]
  <2>. HIDE DEF d
  <2>1. /\ d \in Bytes
        /\ Len(d) = Len(q) + Len(b)
        /\ \A i \in 1..Len(q) : d[i] = q[i]
        /\ \A i \in 1..Len(b) : d[Len(q) + i] = b[i]
    BY Zenon, <1>6, Concat DEF d
  <2>. QED  BY Zenon, <2>1, <1>1, <1>6
<1>. HIDE DEF d
<1>8. d[1] = n /\ \A i \in 1..n : d[1 + i] = s[i]
  BY <1>1, <1>6, <1>7
<1>9. d # <<>> /\ Head(d) = n
  BY <1>1, <1>7, <1>8 DEF Bytes
<1>10. HasField(d)
  BY <1>1, <1>7, <1>9 DEF HasField
<1>11. FieldOf(d) = s
  <2>1. SubSeq(d, 1 + 1, 1 + n) = s
    <3>1. 1 \in Nat /\ 1 + n <= Len(d)
      BY <1>1, <1>7
    <3>. QED  BY Zenon, <3>1, <1>7, <1>8, Stretch
  <2>2. 1 + 1 = 2 /\ 1 + n = n + 1
    BY <1>1
  <2>. QED  BY Zenon, <2>1, <2>2, <1>9 DEF FieldOf
<1>12. AfterField(d) = b
  <2>1. SubSeq(d, n + 1 + 1, n + 1 + Len(b)) = b
    <3>1. n + 1 \in Nat /\ n + 1 + Len(b) <= Len(d)
      BY <1>1, <1>7
    <3>. QED  BY Zenon, <3>1, <1>7, Stretch
  <2>2. n + 1 + 1 = n + 2
    BY <1>1
  <2>. QED  BY Zenon, <2>1, <2>2, <1>7, <1>9 DEF AfterField
<1>. QED  BY Zenon, <1>4, <1>6, <1>7, <1>8, <1>10, <1>11, <1>12 DEF d

\* The same of a field with nothing after it.
LEMMA LastFieldRead ==
  ASSUME NEW s \in Bytes, NEW w \in Nat, Len(s) < w
  PROVE  /\ Prefixed(s, w) \in Bytes
         /\ Len(Prefixed(s, w)) = Len(s) + 1
         /\ HasField(Prefixed(s, w))
         /\ FieldOf(Prefixed(s, w)) = s
<1>. DEFINE q == Prefixed(s, w)
            e == <<>>
<1>1. e \in Bytes /\ Len(e) = 0
  BY DEF Bytes
<1>2. /\ q \in Bytes
      /\ Len(q \o e) = Len(s) + 1 + Len(e)
      /\ HasField(q \o e)
      /\ FieldOf(q \o e) = s
  <2>. HIDE DEF e
  <2>. QED  BY <1>1, FieldRead, ZenonT(60)
<1>. HIDE DEF q
<1>3. q \o e = q
  BY <1>2 DEF Bytes
<1>4. Len(s) \in Nat
  BY DEF Bytes
<1>5. Len(q) = Len(s) + 1
  BY <1>1, <1>2, <1>3, <1>4
<1>. QED  BY Zenon, <1>2, <1>3, <1>5 DEF q

\* The number in front of the fields of a request or a response.
LEMMA FirstCell ==
  ASSUME NEW x \in Nat, NEW d \in Bytes
  PROVE  /\ Len(<<x>> \o d) = 1 + Len(d)
         /\ (<<x>> \o d)[1] = x
         /\ <<x>> \o d \in Bytes
         /\ SubSeq(<<x>> \o d, 2, Len(<<x>> \o d)) = d
<1>1. <<x>> \in Bytes /\ Len(<<x>>) = 1 /\ <<x>>[1] = x
  BY DEF Bytes
<1>. DEFINE c == <<x>>
<1>. HIDE DEF c
<1>2. /\ c \o d \in Bytes
      /\ Len(c \o d) = Len(c) + Len(d)
      /\ \A i \in 1..Len(c) : (c \o d)[i] = c[i]
      /\ SubSeq(c \o d, Len(c) + 1, Len(c \o d)) = d
  BY Zenon, <1>1, Concat, TakeDrop DEF c
<1>3. Len(c) = 1 /\ c[1] = x /\ 1 \in 1..1 /\ 1 + 1 = 2
  BY <1>1 DEF c
<1>4. (c \o d)[1] = x
  BY Zenon, <1>2, <1>3
<1>. QED  BY Zenon, <1>2, <1>3, <1>4 DEF c

\* UnmarshalRequest after MarshalRequest gives the request back
\* (MarshalBinary and UnmarshalBinary of src/pkg/rpc/protocol.go), as long as
\* the lengths of its fields fit the 32 bits they are stored in.
THEOREM RequestRoundTrip ==
  ASSUME NEW r \in Request, Len(r.method) < Word, Len(r.args) < Word
  PROVE  UnmarshalRequest(MarshalRequest(r)) = r
<1>. DEFINE a == Prefixed(r.args, Word)
            d == Prefixed(r.method, Word) \o a
            data == <<r.sequence>> \o d
<1>1. /\ r.sequence \in Nat /\ r.method \in Bytes /\ r.args \in Bytes
      /\ r = [sequence |-> r.sequence, method |-> r.method, args |-> r.args]
  BY Zenon DEF Request
<1>2. Word \in Nat
  BY Zenon, WidthAssumption
<1>3. /\ a \in Bytes /\ Len(a) = Len(r.args) + 1
      /\ HasField(a) /\ FieldOf(a) = r.args
  BY Zenon, <1>1, <1>2, LastFieldRead
<1>. HIDE DEF a
<1>4. /\ d \in Bytes /\ Len(d) = Len(r.method) + 1 + Len(a)
      /\ HasField(d) /\ FieldOf(d) = r.method /\ AfterField(d) = a
  BY <1>1, <1>2, <1>3, FieldRead, ZenonT(60)
<1>. HIDE DEF d
<1>5. /\ Len(data) = 1 + Len(d)
      /\ data[1] = r.sequence
      /\ SubSeq(data, 2, Len(data)) = d
  BY <1>1, <1>4, FirstCell, Zenon
<1>. HIDE DEF data
<1>6. Len(r.method) \in Nat /\ Len(r.args) \in Nat
  BY <1>1 DEF Bytes
<1>7. ~(Len(data) < 3)
  <2>1. /\ Len(a) = Len(r.args) + 1
        /\ Len(d) = Len(r.method) + 1 + Len(a)
        /\ Len(data) = 1 + Len(d)
    BY Zenon, <1>3, <1>4, <1>5
  <2>2. Len(data) = 1 + (Len(r.method) + 1 + (Len(r.args) + 1))
    BY Zenon, <2>1
  <2>3. \A x, y \in Nat : ~(1 + (x + 1 + (y + 1)) < 3)
    OBVIOUS
  <2>. QED  BY Zenon, <2>2, <2>3, <1>6
<1>8. UnmarshalRequest(data) =
        [sequence |-> r.sequence, method |-> r.method, args |-> r.args]
  BY Zenon, <1>3, <1>4, <1>5, <1>7 DEF UnmarshalRequest
<1>. QED  BY Zenon, <1>1, <1>8 DEF MarshalRequest, data, d, a

\* The same of a response, error text included.
THEOREM ResponseRoundTrip ==
  ASSUME NEW r \in Response, Len(r.method) < Word, Len(r.error) < Word,
         Len(r.reply) < Word
  PROVE  UnmarshalResponse(MarshalResponse(r)) = r
<1>. DEFINE a == Prefixed(r.reply, Word)
            e == Prefixed(r.error, Word) \o a
            d == Prefixed(r.method, Word) \o e
            data == <<r.sequence>> \o d
<1>1. /\ r.sequence \in Nat /\ r.method \in Bytes
      /\ r.error \in Bytes /\ r.reply \in Bytes
      /\ r = [sequence |-> r.sequence, method |-> r.method,
              error |-> r.error, reply |-> r.reply]
  BY Zenon DEF Response
<1>2. Word \in Nat
  BY Zenon, WidthAssumption
<1>3. /\ a \in Bytes /\ Len(a) = Len(r.reply) + 1
      /\ HasField(a) /\ FieldOf(a) = r.reply
  BY Zenon, <1>1, <1>2, LastFieldRead
<1>. HIDE DEF a
<1>4. /\ e \in Bytes /\ Len(e) = Len(r.error) + 1 + Len(a)
      /\ HasField(e) /\ FieldOf(e) = r.error /\ AfterField(e) = a
  BY <1>1, <1>2, <1>3, FieldRead, ZenonT(60)
<1>. HIDE DEF e
<1>5. /\ d \in Bytes /\ Len(d) = Len(r.method) + 1 + Len(e)
      /\ HasField(d) /\ FieldOf(d) = r.method /\ AfterField(d) = e
  BY <1>1, <1>2, <1>4, FieldRead, ZenonT(60)
<1>. HIDE DEF d
<1>6. /\ Len(data) = 1 + Len(d)
      /\ data[1] = r.sequence
      /\ SubSeq(data, 2, Len(data)) = d
  BY <1>1, <1>5, FirstCell, Zenon
<1>. HIDE DEF data
<1>7. Len(r.method) \in Nat /\ Len(r.error) \in Nat /\ Len(r.reply) \in Nat
  BY <1>1 DEF Bytes
<1>8. ~(Len(data) < 4)
  <2>1. /\ Len(a) = Len(r.reply) + 1
        /\ Len(e) = Len(r.error) + 1 + Len(a)
        /\ Len(d) = Len(r.method) + 1 + Len(e)
        /\ Len(data) = 1 + Len(d)
    BY Zenon, <1>3, <1>4, <1>5, <1>6
  <2>2. Len(data) = 1 + (Len(r.method) + 1 + (Len(r.error) + 1
                                                + (Len(r.reply) + 1)))
    BY Zenon, <2>1
  <2>3. \A x, y, z \in Nat : ~(1 + (x + 1 + (y + 1 + (z + 1))) < 4)
    OBVIOUS
  <2>. QED  BY Zenon, <2>2, <2>3, <1>7
<1>9. UnmarshalResponse(data) =
        [sequence |-> r.sequence, method |-> r.method,
         error |-> r.error, reply |-> r.reply]
  BY Zenon, <1>3, <1>4, <1>5, <1>6, <1>8 DEF UnmarshalResponse
<1>. QED  BY Zenon, <1>1, <1>9 DEF MarshalResponse, data, d, e, a

\* Decode after Encode (src/pkg/protocol/message.go): every field of the
\* message comes back but the payload and its length.  The length comes back
\* as ReadLength, whose low half is the length of the source service's name;
\* the payload is cut to it, and a shorter payload is refused.
THEOREM MessageRoundTrip ==
  ASSUME NEW m \in Message, Encodable(m), m.version = ProtocolVersion
  PROVE  Decode(Encode(m)) = Expected(m)
<1>. DEFINE p == m.payload
            s == Prefixed(m.session, HalfWord) \o p
            c == Prefixed(m.correlation, HalfWord) \o s
            d == Prefixed(m.dest, HalfWord) \o c
            body == m.source \o d
            n == ReadLength(m)
<1>1. /\ m.source \in Bytes /\ m.dest \in Bytes /\ m.correlation \in Bytes
      /\ m.session \in Bytes /\ p \in Bytes
      /\ m = [version |-> m.version, fixed |-> m.fixed,
              payloadLength |-> m.payloadLength,
              source |-> m.source, dest |-> m.dest,
              correlation |-> m.correlation, session |-> m.session,
              payload |-> m.payload]
  BY Zenon DEF Message
<1>2. /\ HalfWord \in Nat
      /\ Len(m.source) \in Nat
      /\ Len(m.dest) < HalfWord
      /\ Len(m.correlation) < HalfWord /\ Len(m.session) < HalfWord
      /\ ~(Len(m.payload) > MaxPayload)
      /\ ~(Len(m.source) > MaxName) /\ ~(Len(m.dest) > MaxName)
  BY <1>1, WidthAssumption DEF Encodable, Bytes
<1>. HIDE DEF p
<1>3. /\ s \in Bytes
      /\ HasField(s) /\ FieldOf(s) = m.session /\ AfterField(s) = p
  BY <1>1, <1>2, FieldRead, ZenonT(60)
<1>. HIDE DEF s
<1>4. /\ c \in Bytes
      /\ HasField(c) /\ FieldOf(c) = m.correlation /\ AfterField(c) = s
  BY <1>1, <1>2, <1>3, FieldRead, ZenonT(60)
<1>. HIDE DEF c
<1>5. /\ d \in Bytes
      /\ HasField(d) /\ FieldOf(d) = m.dest /\ AfterField(d) = c
  BY <1>1, <1>2, <1>4, FieldRead, ZenonT(60)
<1>. HIDE DEF d
<1>6. /\ SubSeq(body, 1, Len(m.source)) = m.source
      /\ SubSeq(body, Len(m.source) + 1, Len(body)) = d
      /\ ~(Len(body) < Len(m.source))
  <2>1. /\ Len(body) = Len(m.source) + Len(d)
        /\ Len(d) \in Nat
    BY <1>1, <1>5, Concat, Zenon
  <2>2. ~(Len(body) < Len(m.source))
    <3>. HIDE DEF body
    <3>. QED  BY <2>1, <1>2
  <2>. QED  BY <1>1, <1>5, <2>2, TakeDrop, Zenon
<1>. HIDE DEF body
<1>. DEFINE f == [version |-> m.version, fixed |-> m.fixed,
                  high |-> m.payloadLength \div HalfWord,
                  low |-> Len(m.source), body |-> body]
<1>7. Encode(m) = f
  <2>1. /\ Fitted(m.dest) = m.dest
        /\ Fitted(m.correlation) = m.correlation
        /\ Fitted(m.session) = m.session
    BY Zenon, <1>1, <1>2, FittedWhole
  <2>. QED  BY Zenon, <1>2, <2>1 DEF Encode, body, d, c, s, p
<1>8. /\ f.version = m.version /\ f.fixed = m.fixed /\ f.low = Len(m.source)
      /\ f.body = body /\ f.high * HalfWord + f.low = n
  BY Zenon DEF ReadLength
<1>. HIDE DEF f, n
<1>9. Decode(f) =
        IF Len(p) < n
          THEN Error
          ELSE [version |-> m.version, fixed |-> m.fixed, payloadLength |-> n,
                source |-> m.source, dest |-> m.dest,
                correlation |-> m.correlation, session |-> m.session,
                payload |-> SubSeq(p, 1, n)]
  BY Zenon, <1>3, <1>4, <1>5, <1>6, <1>8 DEF Decode
<1>. QED  BY Zenon, <1>7, <1>9 DEF Expected, n, p

\* What that leaves of a message whose payload has the length that is read
\* back: all of it.
COROLLARY MessageKept ==
  ASSUME NEW m \in Message, Encodable(m), m.version = ProtocolVersion,
         m.payloadLength = Len(m.payload), ReadLength(m) = Len(m.payload)
  PROVE  Decode(Encode(m)) = m
<1>1. m.payload \in Bytes
  BY Zenon DEF Message
<1>2. Len(m.payload) \in Nat /\ SubSeq(m.payload, 1, Len(m.payload)) = m.payload
  BY <1>1 DEF Bytes
<1>3. ~(Len(m.payload) < ReadLength(m))
  BY <1>2
<1>4. m = [version |-> m.version, fixed |-> m.fixed,
           payloadLength |-> m.payloadLength,
           source |-> m.source, dest |-> m.dest,
           correlation |-> m.correlation, session |-> m.session,
           payload |-> m.payload]
  BY Zenon DEF Message
<1>5. Expected(m) = m
  BY Zenon, <1>2, <1>3, <1>4 DEF Expected
<1>. QED  BY Zenon, <1>5, MessageRoundTrip

\* What is left of k cells that start with a field of length n, when the next
\* cell holds h.
CutAfterField(x, n, k, h) ==
  HasField(x) => /\ AfterField(x) \in Bytes
                 /\ Len(AfterField(x)) = k - (n + 1)
                 /\ AfterField(x) # <<>> => Head(AfterField(x)) = h

\* Data that stops early: a field that is cut is not read, and one that is
\* not leaves what there is of the data after it.
LEMMA FieldCut ==
  ASSUME NEW s \in Bytes, NEW b \in Bytes, NEW w \in Nat, Len(s) < w,
         NEW k \in Nat, k <= Len(s) + 1 + Len(b)
  PROVE  CutAfterField(SubSeq(Prefixed(s, w) \o b, 1, k), Len(s), k, b[1])
<1>. DEFINE n == Len(s)
            q == Prefixed(s, w) \o b
            d == SubSeq(q, 1, k)
            a == AfterField(d)
<1>1. n \in Nat /\ Len(b) \in Nat
  BY DEF Bytes
<1>2. q \in Bytes /\ Len(q) = n + 1 + Len(b) /\ HasField(q) /\ AfterField(q) = b
  BY FieldRead, ZenonT(60)
<1>4. q[1] = n
  BY FieldRead, ZenonT(60)
<1>. HIDE DEF q
<1>5. /\ d \in Bytes /\ Len(d) = k
      /\ \A i \in 1..k : d[i] = q[i]
  <2>1. k <= Len(q) /\ 1 \in Nat \ {0} /\ 1 <= k + 1
    BY <1>1, <1>2
  <2>2. /\ d \in Bytes /\ Len(d) = k + 1 - 1
        /\ \A i \in 1..(k + 1 - 1) : d[i] = q[1 + i - 1]
    BY Zenon, <1>2, <2>1, Part
  <2>. HIDE DEF d
  <2>. QED  BY <2>2
<1>. HIDE DEF d
<1>6. ASSUME HasField(d)
      PROVE  /\ n + 1 <= k
             /\ a \in Bytes
             /\ Len(a) = k - (n + 1)
             /\ a # <<>> => Head(a) = b[1]
  <2>1. d # <<>> /\ Head(d) + 1 <= k
    BY Zenon, <1>5, <1>6 DEF HasField
  <2>2. k >= 1 /\ Head(d) = n
    BY <2>1, <1>4, <1>5 DEF Bytes
  <2>3. n + 1 <= k
    BY Zenon, <2>1, <2>2
  <2>4. a = SubSeq(d, n + 2, k)
    BY Zenon, <2>2, <1>5 DEF AfterField
  <2>5. /\ a \in Bytes /\ Len(a) = k - (n + 1)
        /\ a # <<>> => n + 2 <= k /\ Head(a) = d[n + 2]
    <3>1. k <= Len(d) /\ n + 2 \in Nat \ {0} /\ n + 2 <= k + 1
      BY <2>3, <1>1, <1>5
    <3>. DEFINE g == SubSeq(d, n + 2, k)
    <3>. HIDE DEF a, n
    <3>2. /\ g \in Bytes /\ Len(g) = k + 1 - (n + 2)
          /\ \A i \in 1..(k + 1 - (n + 2)) : g[i] = d[n + 2 + i - 1]
      BY ZenonT(40), <1>5, <3>1, Part
    <3>. HIDE DEF g
    <3>3. Len(g) = k - (n + 1)
      BY <3>2, <1>1
    <3>4. ASSUME g # <<>>  PROVE  n + 2 <= k /\ Head(g) = d[n + 2]
      <4>1. Len(g) >= 1 /\ Head(g) = g[1]
        BY <3>2, <3>4 DEF Bytes
      <4>. QED  BY <3>2, <3>3, <4>1, <1>1
    <3>. QED  BY Zenon, <2>4, <3>2, <3>3, <3>4 DEF g
  <2>6. ASSUME n + 2 <= k  PROVE  q[n + 2] = b[1]
    <3>1. Head(q) = n
      BY <1>1, <1>2, <1>4 DEF Bytes
    <3>2. b = SubSeq(q, n + 2, n + 1 + Len(b))
      BY Zenon, <3>1, <1>2 DEF AfterField
    <3>3. SubSeq(q, n + 2, n + 1 + Len(b))[1] = q[n + 2]
      BY <2>6, <1>1, <1>2 DEF Bytes
    <3>. QED  BY Zenon, <3>2, <3>3
  <2>7. n + 2 <= k => n + 2 \in 1..k
    BY <1>1
  <2>. QED  BY Zenon, <2>3, <2>5, <2>6, <2>7, <1>5
<1>. QED  BY Zenon, <1>6 DEF d, q, CutAfterField

\* A request that arrives cut short is refused, wherever it is cut: it is never
\* taken for another request (the length checks of UnmarshalBinary).
THEOREM CutRequestRefused ==
  ASSUME NEW r \in Request, Len(r.method) < Word, Len(r.args) < Word,
         NEW k \in Nat, k < Len(MarshalRequest(r))
  PROVE  UnmarshalRequest(SubSeq(MarshalRequest(r), 1, k)) = Error
<1>. DEFINE b == Prefixed(r.args, Word)
            d == Prefixed(r.method, Word) \o b
            data == MarshalRequest(r)
            x == SubSeq(data, 1, k)
            y == SubSeq(x, 2, Len(x))
            n == Len(r.method)
<1>1. r.sequence \in Nat /\ r.method \in Bytes /\ r.args \in Bytes
  BY Zenon DEF Request
<1>2. n \in Nat /\ Len(r.args) \in Nat /\ Word \in Nat
  BY <1>1, WidthAssumption DEF Bytes
<1>3. b \in Bytes /\ Len(b) = Len(r.args) + 1
  BY Zenon, <1>1, <1>2, LastFieldRead
<1>4. b[1] = Len(r.args)
  <2>. DEFINE e == <<>>
  <2>1. e \in Bytes
    BY DEF Bytes
  <2>. HIDE DEF e
  <2>2. (b \o e)[1] = Len(r.args)
    BY <1>1, <1>2, <2>1, FieldRead, ZenonT(60)
  <2>. HIDE DEF b
  <2>. QED  BY <2>2, <1>2, <1>3 DEF Bytes, e
<1>5. d \in Bytes /\ Len(d) = n + 1 + Len(b)
  <2>. HIDE DEF b
  <2>. QED  BY <1>1, <1>2, <1>3, FieldRead, ZenonT(60)
<1>6. /\ data \in Bytes /\ Len(data) = 1 + Len(d)
      /\ SubSeq(data, 2, Len(data)) = d
  <2>1. data = <<r.sequence>> \o d
    BY Zenon DEF MarshalRequest
  <2>. HIDE DEF d, data
  <2>. QED  BY Zenon, <1>1, <1>5, <2>1, FirstCell
<1>7. k < Len(data)
  BY Zenon
<1>. HIDE DEF data
<1>8. Len(data) = 1 + (n + 1 + (Len(r.args) + 1))
  BY Zenon, <1>3, <1>5, <1>6
<1>. HIDE DEF b, d, n
<1>9. x \in Bytes /\ Len(x) = k
  <2>1. \A u, v \in Nat : k < 1 + (u + 1 + (v + 1)) => k <= 1 + (u + 1 + (v + 1))
    OBVIOUS
  <2>2. k <= Len(data)
    BY Zenon, <2>1, <1>2, <1>7, <1>8
  <2>. QED  BY <2>2, <1>6 DEF Bytes
<1>10. CASE k < 3
  <2>1. Len(x) < 3
    BY Zenon, <1>9, <1>10
  <2>. HIDE DEF x
  <2>. QED  BY Zenon, <2>1 DEF UnmarshalRequest, x, data
<1>11. CASE ~(k < 3)
  <2>1. /\ k - 1 \in Nat /\ k <= Len(data)
        /\ k - 1 < n + 1 + (Len(r.args) + 1)
        /\ k - 1 <= n + 1 + (Len(r.args) + 1)
    <3>1. \A u, v \in Nat : k < 1 + (u + 1 + (v + 1)) =>
            /\ k - 1 \in Nat /\ k <= 1 + (u + 1 + (v + 1))
            /\ k - 1 < u + 1 + (v + 1) /\ k - 1 <= u + 1 + (v + 1)
      BY <1>11
    <3>. QED  BY Zenon, <3>1, <1>2, <1>7, <1>8
  <2>2. y = SubSeq(d, 1, k - 1)
    <3>. DEFINE t == SubSeq(data, 2, Len(data))
    <3>1. y = SubSeq(t, 1, k - 1)
      BY <1>6, <1>11, <2>1 DEF Bytes
    <3>. QED  BY Zenon, <3>1, <1>6
  <2>. HIDE DEF y, x
  <2>3. HasField(y) => /\ AfterField(y) \in Bytes
                       /\ Len(AfterField(y)) = (k - 1) - (n + 1)
                       /\ AfterField(y) # <<>> => Head(AfterField(y)) = b[1]
    <3>1. k - 1 <= n + 1 + Len(b)
      BY Zenon, <1>3, <2>1
    <3>. DEFINE j == k - 1
    <3>. HIDE DEF j
    <3>2. j \in Nat /\ j <= n + 1 + Len(b) /\ y = SubSeq(d, 1, j)
      BY Zenon, <2>1, <2>2, <3>1 DEF j
    <3>3. CutAfterField(SubSeq(d, 1, j), n, j, b[1])
      BY ZenonT(60), <1>1, <1>2, <1>3, <3>2, FieldCut DEF d, n
    <3>. QED  BY Zenon, <3>2, <3>3 DEF j, CutAfterField
  <2>4. ASSUME HasField(y), HasField(AfterField(y))  PROVE FALSE
    <3>1. /\ AfterField(y) # <<>>
          /\ Head(AfterField(y)) + 1 <= Len(AfterField(y))
      BY Zenon, <2>4 DEF HasField
    <3>2. Len(r.args) + 1 <= (k - 1) - (n + 1)
      BY Zenon, <3>1, <2>3, <2>4, <1>4
    <3>3. \A u, v \in Nat :
            k - 1 < u + 1 + (v + 1) => ~(v + 1 <= (k - 1) - (u + 1))
      OBVIOUS
    <3>. QED  BY Zenon, <3>2, <3>3, <2>1, <1>2
  <2>5. UnmarshalRequest(x) = Error
    BY Zenon, <2>4 DEF UnmarshalRequest, y
  <2>. QED  BY Zenon, <2>5 DEF x, data
<1>. QED  BY Zenon, <1>10, <1>11

-----------------------------------------------------------------------------
(* GetMulti.                                                                *)

\* before the lookup, and after a failed one, missingIDs is empty
NothingMissed ==
  /\ phase = "mget" \/ mgetFailed => missing = <<>> /\ len = 0
  /\ phase = "mget" => ~mgetFailed

MultiInv == MultiTypeOK /\ NothingMissed /\ AskedAsRequested /\ AnsweredOrAsked /\ StoredIsFound

\* The request is a finite sequence, so its misses can be counted.
LEMMA MissesFinite == ASSUME MultiTypeOK PROVE Cardinality(MissPlaces) \in Nat
<1>1. Len(request) \in Int /\ 1 \in Int /\ DOMAIN request = 1..Len(request)
  BY DEF MultiTypeOK
<1>2. IsFiniteSet(DOMAIN request)
  BY Zenon, <1>1, FS_Interval
<1>3. IsFiniteSet(MissPlaces)
  BY Zenon, <1>2, FS_Subset DEF MissPlaces
<1> QED
  BY Zenon, <1>3, FS_CardinalityType

\* The invariant holds initially (the start of GetMulti).
LEMMA MultiInitInv == MultiInit => MultiInv
<1> SUFFICES ASSUME MultiInit PROVE MultiInv
  BY Zenon
<1>1. MultiTypeOK
  <2>1. missing \in Seq(Id) /\ len \in 0..Len(missing) /\ idx \in Nat \ {0}
    BY DEF MultiInit
  <2>2. /\ result \in [Id -> {"none", "cache", "dirty", "db"}]
        /\ mgetFailed \in BOOLEAN
        /\ phase \in {"mget", "scan", "query", "done", "failed"}
    BY Zenon DEF MultiInit
  <2>3. cached \in SUBSET Id /\ dirty \in SUBSET Id /\ stored \in SUBSET Id
    BY Zenon DEF MultiInit
  <2>4. request \in Seq(Id)
    <3>1. PICK n \in 1..MaxIds : request \in [1..n -> Id]
      BY Zenon DEF MultiInit, Requests
    <3>2. n \in Nat
      BY <3>1, MultiGetAssumption
    <3> QED
      BY <3>1, <3>2
  <2> QED
    BY Zenon, <2>1, <2>2, <2>3, <2>4 DEF MultiTypeOK
<1>2. AskedAsRequested
  <2> DEFINE at == [i \in 1..len |-> i]
  <2>1. len = 0
    BY Zenon DEF MultiInit
  <2>2. at \in [1..len -> DOMAIN request] /\ DOMAIN at = 1..len /\ \A i \in 1..len : FALSE
    BY <2>1
  <2>3. Increasing(at)
    BY Zenon, <2>2 DEF Increasing
  <2> QED
    BY Zenon, <2>2, <2>3 DEF AskedAsRequested
<1> QED
  BY <1>1, <1>2 DEF MultiInit, MultiInv, NothingMissed, AnsweredOrAsked, StoredIsFound

\* The cache answered: the array holds the misses in the order of the request
\* (cache_sync.go:304-327).
LEMMA MGetOkInv == MultiInv /\ MGetOk => MultiInv'
<1> SUFFICES ASSUME MultiInv, MGetOk PROVE MultiInv'
  BY Zenon
<1> USE DEF MultiInv
<1>1. PICK at \in [1..Cardinality(MissPlaces) -> MissPlaces] :
        InOrder(at) /\ missing' = [i \in DOMAIN at |-> request[at[i]]]
  BY Zenon DEF MGetOk
<1>2. PICK n \in Nat : n = Cardinality(MissPlaces)
  BY Zenon, MissesFinite
<1>3. at \in [1..n -> DOMAIN request] /\ DOMAIN at = 1..n
  BY Zenon, <1>1, <1>2 DEF MissPlaces
<1>4. \A i \in 1..n : request[at[i]] \in Id
  <2>1. request \in [DOMAIN request -> Id]
    BY DEF MultiTypeOK
  <2> QED
    BY Zenon, <2>1, <1>3
<1>5. missing' = [i \in 1..n |-> request[at[i]]] /\ missing' \in [1..n -> Id]
  BY Zenon, <1>1, <1>3, <1>4
<1>6. missing' \in Seq(Id) /\ Len(missing') = n
  BY <1>5, <1>2
<1>7. len' = n
  BY Zenon, <1>6 DEF MGetOk, SliceLength
<1>8. MultiTypeOK'
  <2>1. len' \in 0..Len(missing')
    BY <1>2, <1>6, <1>7
  <2> QED
    BY Zenon, <2>1, <1>6 DEF MGetOk, MultiTypeOK
<1>9. AskedAsRequested'
  <2>1. Increasing(at) /\ \A i \in 1..n : missing'[i] = request[at[i]]
    BY Zenon, <1>1, <1>5 DEF InOrder
  <2> QED
    BY Zenon, <1>3, <1>7, <2>1 DEF AskedAsRequested, MGetOk
<1>10. Remaining' = Requested \ cached
  <2>1. Remaining' = {missing'[i] : i \in 1..n}
    BY Zenon, <1>7 DEF Remaining
  <2>2. ASSUME NEW i \in 1..n PROVE missing'[i] \in Requested \ cached
    BY Zenon, <1>1, <1>2, <1>5 DEF MissPlaces, Requested
  <2>3. ASSUME NEW x \in Requested \ cached PROVE \E i \in 1..n : x = missing'[i]
    <3>1. PICK p \in MissPlaces : x = request[p]
      BY Zenon, <2>3 DEF Requested, MissPlaces
    <3>2. PICK i \in 1..n : at[i] = p
      BY Zenon, <1>1, <1>3, <3>1 DEF InOrder
    <3> QED
      BY Zenon, <1>5, <3>1, <3>2
  <2> QED
    BY Zenon, <2>1, <2>2, <2>3
<1>11. Requested' = Requested
  BY Zenon DEF MGetOk, Requested
<1>12. Requested \subseteq Id
  BY DEF MultiTypeOK, Requested
<1>13. AnsweredOrAsked'
  BY Zenon, <1>10, <1>11, <1>12 DEF MGetOk, AnsweredOrAsked
<1> QED
  BY Zenon, <1>8, <1>9, <1>13 DEF MGetOk, NothingMissed, StoredIsFound

\* Removing one place of the slice keeps the others in their order, and the
\* identifier removed remains only if the request repeats it
\* (cache_sync.go:341-346).
LEMMA RemovedFacts ==
  ASSUME MultiTypeOK, AskedAsRequested, NEW p \in 1..len, missing' = Removed(p), len' = len - 1,
         request' = request
  PROVE  /\ missing' \in Seq(Id) /\ Len(missing') = Len(missing) /\ len' \in 0..Len(missing)
         /\ AskedAsRequested'
         /\ Remaining' \subseteq Remaining
         /\ Remaining \ {missing[p]} \subseteq Remaining'
         /\ missing[p] \in Remaining' => Repeated(missing[p])
<1>1. missing \in Seq(Id) /\ len \in 0..Len(missing) /\ Len(missing) \in Nat
  BY DEF MultiTypeOK
<1>2. /\ missing' = [i \in 1..Len(missing) |-> IF p <= i /\ i < len THEN missing[i + 1] ELSE missing[i]]
      /\ missing' \in [1..Len(missing) -> Id]
  BY <1>1 DEF Removed
<1>3. missing' \in Seq(Id) /\ Len(missing') = Len(missing) /\ len' \in 0..Len(missing)
  BY <1>1, <1>2
<1> DEFINE to(i) == IF p <= i THEN i + 1 ELSE i
<1>4. \A i \in 1..(len - 1) : to(i) \in 1..len /\ to(i) # p /\ missing'[i] = missing[to(i)]
  BY <1>1, <1>2
<1>5. \A i, j \in 1..(len - 1) : i < j => to(i) < to(j)
  BY <1>1
<1>6. \A i \in 1..len : i # p => \E j \in 1..(len - 1) : to(j) = i
  <2> SUFFICES ASSUME NEW i \in 1..len, i # p PROVE \E j \in 1..(len - 1) : to(j) = i
    BY Zenon
  <2> DEFINE j == IF p < i THEN i - 1 ELSE i
  <2>1. j \in 1..(len - 1) /\ to(j) = i
    BY <1>1
  <2> QED
    BY Zenon, <2>1
<1> HIDE DEF to
<1>7. PICK at \in [1..len -> DOMAIN request] :
        Increasing(at) /\ \A i \in 1..len : missing[i] = request[at[i]]
  BY Zenon DEF AskedAsRequested
<1>8. AskedAsRequested'
  <2> DEFINE now == [i \in 1..(len - 1) |-> at[to(i)]]
  <2>1. now \in [1..(len - 1) -> DOMAIN request] /\ DOMAIN now = 1..(len - 1)
    BY Zenon, <1>4, <1>7
  <2>2. \A i \in 1..(len - 1) : missing'[i] = request[now[i]]
    BY Zenon, <1>4, <1>7
  <2>3. Increasing(now)
    <3> SUFFICES ASSUME NEW i \in 1..(len - 1), NEW j \in 1..(len - 1), i < j
                 PROVE  at[to(i)] < at[to(j)]
      BY Zenon, <2>1 DEF Increasing
    <3>1. to(i) < to(j) /\ to(i) \in DOMAIN at /\ to(j) \in DOMAIN at
      BY Zenon, <1>4, <1>5, <1>7
    <3> QED
      BY Zenon, <3>1, <1>7 DEF Increasing
  <2> HIDE DEF now
  <2>4. now \in [1..len' -> DOMAIN request'] /\ \A i \in 1..len' : missing'[i] = request'[now[i]]
    BY Zenon, <2>1, <2>2
  <2> QED
    BY Zenon, <2>3, <2>4 DEF AskedAsRequested
<1>9. Remaining' \subseteq Remaining
  BY Zenon, <1>4 DEF Remaining
<1>10. Remaining \ {missing[p]} \subseteq Remaining'
  <2> SUFFICES ASSUME NEW x \in Remaining, x # missing[p] PROVE x \in Remaining'
    BY Zenon
  <2>1. PICK i \in 1..len : x = missing[i] /\ i # p
    BY Zenon DEF Remaining
  <2>2. PICK j \in 1..(len - 1) : to(j) = i
    BY Zenon, <2>1, <1>6
  <2> QED
    BY Zenon, <2>1, <2>2, <1>4 DEF Remaining
<1>11. ASSUME missing[p] \in Remaining' PROVE Repeated(missing[p])
  <2>1. PICK i \in 1..(len - 1) : missing[p] = missing'[i]
    BY Zenon, <1>11 DEF Remaining
  <2> DEFINE q == to(i)
  <2>2. q \in 1..len /\ q # p /\ missing[q] = missing[p]
    BY Zenon, <2>1, <1>4
  <2> HIDE DEF q
  <2>3. at[p] < at[q] \/ at[q] < at[p]
    <3>1. p < q \/ q < p
      BY <2>2, <1>1
    <3>2. p \in DOMAIN at /\ q \in DOMAIN at
      BY Zenon, <1>7, <2>2
    <3> QED
      BY Zenon, <3>1, <3>2, <1>7 DEF Increasing
  <2>4. at[p] \in DOMAIN request /\ at[q] \in DOMAIN request /\ at[p] \in Nat /\ at[q] \in Nat
    <3>1. at[p] \in DOMAIN request /\ at[q] \in DOMAIN request
      BY Zenon, <1>7, <2>2
    <3> QED
      BY <3>1 DEF MultiTypeOK
  <2>5. at[p] # at[q]
    BY <2>3, <2>4
  <2> QED
    BY Zenon, <2>2, <2>4, <2>5, <1>7 DEF Repeated
<1> QED
  BY Zenon, <1>3, <1>8, <1>9, <1>10, <1>11

\* One turn of the loop (cache_sync.go:333-352).
LEMMA ScanInv == MultiInv /\ Scan => MultiInv'
<1> SUFFICES ASSUME MultiInv, Scan PROVE MultiInv'
  BY Zenon
<1>1. missing[idx] \in Id /\ idx + 1 \in Nat \ {0} /\ phase = "scan" /\ phase' = "scan"
  BY DEF MultiInv, Scan, MultiTypeOK
<1>2. /\ StoredIsFound'
      /\ request' = request /\ dirty' = dirty /\ stored' = stored /\ mgetFailed' = mgetFailed
      /\ idx' = idx + 1
      /\ Requested' = Requested
  <2>1. /\ request' = request /\ dirty' = dirty /\ stored' = stored /\ mgetFailed' = mgetFailed
        /\ idx' = idx + 1
    BY DEF Scan
  <2> QED
    BY Zenon, <1>1, <2>1 DEF StoredIsFound, Requested
<1>3. Requested \subseteq Id
  BY DEF MultiInv, MultiTypeOK, Requested
<1>4. ~mgetFailed
  BY DEF MultiInv, Scan, NothingMissed, MultiTypeOK
<1>5. \A i : Repeated(i)' <=> Repeated(i)
  BY Zenon, <1>2 DEF Repeated
<1>6. CASE missing[idx] \notin dirty
  <2>1. /\ cached' = cached /\ missing' = missing /\ len' = len /\ result' = result
        /\ Remaining' = Remaining
    BY Zenon, <1>6 DEF Scan, Remaining
  <2>2. AnsweredOrAsked'
    BY Zenon, <1>1, <1>2, <1>5, <2>1 DEF MultiInv, AnsweredOrAsked
  <2>3. AskedAsRequested'
    BY Zenon, <1>2, <2>1 DEF MultiInv, AskedAsRequested
  <2> QED
    BY Zenon, <1>1, <1>2, <2>1, <2>2, <2>3 DEF MultiInv, MultiTypeOK, NothingMissed
<1>7. CASE missing[idx] \in dirty
  <2>1. /\ result' = [result EXCEPT ![missing[idx]] = "dirty"]
        /\ cached' \in SUBSET Id
        /\ result' \in [Id -> {"none", "cache", "dirty", "db"}]
    BY Zenon, <1>1, <1>7 DEF MultiInv, Scan, MultiTypeOK
  <2>2. result'[missing[idx]] = "dirty" /\ \A i \in Id : i # missing[idx] => result'[i] = result[i]
    BY Zenon, <1>1, <2>1 DEF MultiInv, MultiTypeOK
  <2>3. CASE FoundAt(missing[idx]) = {} /\ UNCHANGED <<missing, len>>
    <3>1. missing' = missing /\ len' = len /\ Remaining' = Remaining /\ missing[idx] \notin Remaining
      <4>1. missing' = missing /\ len' = len
        BY <2>3
      <4>2. missing[idx] \notin Remaining
        BY <2>3 DEF FoundAt, Remaining
      <4> QED
        BY Zenon, <4>1, <4>2 DEF Remaining
    <3>2. AnsweredOrAsked'
      BY Zenon, <1>1, <1>2, <1>3, <1>4, <1>5, <2>2, <3>1 DEF MultiInv, AnsweredOrAsked
    <3>3. AskedAsRequested'
      BY Zenon, <1>2, <3>1 DEF MultiInv, AskedAsRequested
    <3> QED
      BY Zenon, <1>1, <1>2, <2>1, <3>1, <3>2, <3>3 DEF MultiInv, MultiTypeOK, NothingMissed
  <2>4. CASE \E p \in FoundAt(missing[idx]) : missing' = Removed(p) /\ len' = len - 1
    <3>1. PICK p \in 1..len : missing[p] = missing[idx] /\ missing' = Removed(p) /\ len' = len - 1
      BY Zenon, <2>4 DEF FoundAt
    <3>2. /\ missing' \in Seq(Id) /\ Len(missing') = Len(missing) /\ len' \in 0..Len(missing)
          /\ AskedAsRequested'
          /\ Remaining' \subseteq Remaining
          /\ Remaining \ {missing[idx]} \subseteq Remaining'
          /\ missing[idx] \in Remaining' => Repeated(missing[idx])
      BY Zenon, <3>1, <1>2, RemovedFacts DEF MultiInv
    <3>3. AnsweredOrAsked'
      BY Zenon, <1>1, <1>2, <1>3, <1>4, <1>5, <2>2, <3>2 DEF MultiInv, AnsweredOrAsked
    <3>4. MultiTypeOK'
      BY Zenon, <1>1, <2>1, <3>2 DEF MultiInv, Scan, MultiTypeOK
    <3> QED
      BY Zenon, <1>1, <1>2, <1>4, <3>2, <3>3, <3>4 DEF MultiInv, NothingMissed
  <2> QED
    BY Zenon, <1>7, <2>3, <2>4 DEF Scan
<1> QED
  BY Zenon, <1>6, <1>7

\* Every step of GetMulti preserves the invariant.
LEMMA MultiNextInv == MultiInv /\ [MultiNext]_multiVars => MultiInv'
<1> SUFFICES ASSUME MultiInv, [MultiNext]_multiVars PROVE MultiInv'
  BY Zenon
<1> USE DEF MultiInv
<1>1. CASE MGetOk
  BY Zenon, <1>1, MGetOkInv
<1>2. CASE MGetError
  BY Zenon, <1>2 DEF MGetError, MultiTypeOK, NothingMissed, AskedAsRequested, AnsweredOrAsked, StoredIsFound
<1>3. CASE Scan
  BY Zenon, <1>3, ScanInv
<1>4. CASE ScanDone
  <2>1. StoredIsFound'
    <3>1. ASSUME len = 0 PROVE Remaining = {}
      BY <3>1 DEF Remaining
    <3> QED
      BY Zenon, <1>4, <3>1 DEF ScanDone, AnsweredOrAsked, StoredIsFound, Requested
  <2>2. AnsweredOrAsked'
    <3>1. /\ request' = request /\ missing' = missing /\ len' = len /\ result' = result
          /\ mgetFailed' = mgetFailed /\ phase = "scan"
      BY <1>4 DEF ScanDone
    <3>2. Remaining' = Remaining /\ Requested' = Requested /\ \A i : Repeated(i)' <=> Repeated(i)
      BY Zenon, <3>1 DEF Remaining, Requested, Repeated
    <3> QED
      BY Zenon, <3>1, <3>2 DEF AnsweredOrAsked
  <2> QED
    BY Zenon, <1>4, <2>1, <2>2 DEF ScanDone, MultiTypeOK, NothingMissed, AskedAsRequested
<1>5. CASE Query
  <2>1. MultiTypeOK'
    BY Zenon, <1>5 DEF Query, MultiTypeOK
  <2>2. StoredIsFound'
    <3>1. Requested \subseteq Id
      BY DEF MultiTypeOK, Requested
    <3> QED
      BY Zenon, <3>1, <1>5 DEF Query, MultiTypeOK, AnsweredOrAsked, StoredIsFound, Requested
  <2> QED
    BY Zenon, <1>5, <2>1, <2>2 DEF Query, NothingMissed, AskedAsRequested, AnsweredOrAsked
<1>6. CASE QueryError
  BY Zenon, <1>6 DEF QueryError, MultiTypeOK, NothingMissed, AskedAsRequested, AnsweredOrAsked, StoredIsFound
<1>7. CASE UNCHANGED multiVars
  <2>1. /\ request' = request /\ cached' = cached /\ dirty' = dirty /\ stored' = stored
        /\ phase' = phase /\ missing' = missing /\ len' = len /\ idx' = idx
        /\ result' = result /\ mgetFailed' = mgetFailed
    BY <1>7 DEF multiVars
  <2> QED
    <3>1. MultiTypeOK' /\ NothingMissed'
      BY <2>1 DEF MultiTypeOK, NothingMissed
    <3>2. AskedAsRequested'
      BY Zenon, <2>1 DEF AskedAsRequested
    <3>3. AnsweredOrAsked' /\ StoredIsFound'
      <4>1. Remaining' = Remaining /\ Requested' = Requested /\ \A i : Repeated(i)' <=> Repeated(i)
        BY Zenon, <2>1 DEF Remaining, Requested, Repeated
      <4> QED
        BY Zenon, <2>1, <4>1 DEF AnsweredOrAsked, StoredIsFound
    <3> QED
      BY Zenon, <3>1, <3>2, <3>3
<1> QED
  BY Zenon, <1>1, <1>2, <1>3, <1>4, <1>5, <1>6, <1>7 DEF MultiNext

\* The inductive invariant holds throughout GetMulti.
THEOREM MultiInvariance == MultiSpec => []MultiInv
BY MultiInitInv, MultiNextInv, PTL DEF MultiSpec

\* For every request, repeated identifiers included, each identifier is
\* answered or still to be asked for while missingIDs is shrunk under the
\* loop, and both only if the request repeats it (GetMulti).
THEOREM NoIdentifierLost == MultiSpec => []AnsweredOrAsked
BY MultiInvariance, PTL DEF MultiInv

\* For every request, what the SELECT asks for is a part of the request in the
\* request's order (GetMulti).
THEOREM NoIdentifierAdded == MultiSpec => []AskedAsRequested
BY MultiInvariance, PTL DEF MultiInv

\* For every request, a row the database has is in the answer when neither
\* the cache nor the database failed (GetMulti).
THEOREM StoredFound == MultiSpec => []StoredIsFound
BY MultiInvariance, PTL DEF MultiInv

-----------------------------------------------------------------------------
(* QUIC sessions.                                                           *)

Types ==
  /\ conn \in [Conns -> {"none", "open", "broken", "done"}]
  /\ pc \in [S -> {"none", "check", "present", "generate", "create",
                   "reply", "read", "handle", "ended"}]
  /\ DOMAIN presented = S
  /\ DOMAIN sessionID = Conns
  /\ authenticated \in [Conns -> BOOLEAN]

\* The states of a stream that has presented an id, or found its connection
\* authenticated, and has not ended.
Past == {"generate", "create", "reply", "read", "handle"}

\* A stream works past its authentication, or another has finished its own.
Claimed(c) == authenticated[c] \/ \E k \in Streams : pc[<<c, k>>] \in Past

Presented(c) == \E k \in Streams : sessionID[c] = presented[<<c, k>>]

\* Authentication is what makes the handler's id one of the presented ones; it
\* stays one when a stream ends, since the flag is never taken back.
ClaimedIsPresented == \A c \in Conns : Claimed(c) => Presented(c)

\* Accept writes the id the handler generated while nothing is claimed yet.
QuietBefore == \A c \in Conns : conn[c] = "none" =>
  ~authenticated[c] /\ \A k \in Streams : pc[<<c, k>>] = "none"

Counted == {c \in Conns : conn[c] \in {"open", "broken"}}

CountIsExact == IsFiniteSet(Counted) /\ connCount = Cardinality(Counted)

IInv == Types /\ ClaimedIsPresented /\ QuietBefore /\ CountIsExact

\* The invariant is enough: a stream that handles a message is past its
\* authentication.
LEMMA InvIsEnough == ASSUME IInv PROVE HandledAsPresented
<1>1. ASSUME NEW x \in S, pc[x] = "handle"
      PROVE  sessionID[x[1]] \in {presented[<<x[1], k>>] : k \in Streams}
  <2>1. x[1] \in Conns /\ x[2] \in Streams /\ x = <<x[1], x[2]>>
    BY DEF S
  <2>2. Claimed(x[1])
    BY Zenon, <1>1, <2>1 DEF Claimed, Past
  <2>. QED  BY Zenon, <2>1, <2>2 DEF IInv, ClaimedIsPresented, Presented
<1>. QED
  BY Zenon, <1>1 DEF IInv, CountIsExact, Counted, HandledAsPresented

\* No connection, no stream and no id.
LEMMA InitIInv == Init => IInv
<1>. SUFFICES ASSUME Init PROVE IInv
  BY Zenon
<1>1. Types /\ ClaimedIsPresented /\ QuietBefore
  BY Zenon DEF Init, Types, ClaimedIsPresented, Claimed, Past, QuietBefore, S
<1>2. Counted = {}
  BY DEF Init, Counted
<1>. QED  BY Zenon, <1>1, <1>2, FS_EmptySet DEF IInv, CountIsExact, Init

-----------------------------------------------------------------------------
(* A step of a connection or the server.                                    *)

\* What changes no stream, flag or id.
LEMMA ClaimsKept ==
  ASSUME IInv, UNCHANGED <<pc, presented, sessionID, authenticated>>
  PROVE  ClaimedIsPresented'
BY Zenon DEF IInv, ClaimedIsPresented, Claimed, Presented

LEMMA AcceptConnectionIInv ==
  ASSUME IInv, NEW c \in Conns, AcceptConnection(c)
  PROVE  IInv'
<1>. USE DEF IInv, AcceptConnection
<1>1. Types' /\ QuietBefore'
  BY DEF Types, QuietBefore
<1>2. ClaimedIsPresented'
  <2>. SUFFICES ASSUME NEW d \in Conns, Claimed(d)' PROVE Presented(d)'
    BY Zenon DEF ClaimedIsPresented
  <2>1. Claimed(d)
    BY Zenon DEF Claimed
  <2>2. d # c
    BY Zenon, <2>1 DEF QuietBefore, Claimed, Past
  <2>3. sessionID'[d] = sessionID[d]
    BY Zenon, <2>2 DEF Types
  <2>. QED  BY Zenon, <2>1, <2>3 DEF ClaimedIsPresented, Presented
<1>3. CountIsExact'
  <2>1. Counted' = Counted \cup {c} /\ c \notin Counted
    BY DEF Counted, Types
  <2>. QED  BY Zenon, <2>1, FS_AddElement DEF CountIsExact
<1>. QED  BY Zenon, <1>1, <1>2, <1>3

LEMMA BreakIInv ==
  ASSUME IInv, NEW c \in Conns, Break(c)
  PROVE  IInv'
<1>. USE DEF IInv, Break
<1>1. Types' /\ QuietBefore'
  BY DEF Types, QuietBefore
<1>2. Counted' = Counted
  BY DEF Counted, Types
<1>. QED  BY Zenon, <1>1, <1>2, ClaimsKept DEF CountIsExact

LEMMA HandleReturnsIInv ==
  ASSUME IInv, NEW c \in Conns, HandleReturns(c)
  PROVE  IInv'
<1>. USE DEF IInv, HandleReturns
<1>1. Types' /\ QuietBefore'
  BY DEF Types, QuietBefore
<1>2. Counted' = Counted \ {c} /\ c \in Counted
  BY DEF Counted, Types
<1>3. IsFiniteSet(Counted') /\ Cardinality(Counted') = Cardinality(Counted) - 1
  BY Zenon, <1>2, FS_RemoveElement DEF CountIsExact
<1>. QED  BY Zenon, <1>1, <1>3, ClaimsKept DEF CountIsExact

-----------------------------------------------------------------------------
(* A step of a stream's goroutine.                                          *)

\* One stream takes a step: it may authenticate its connection when it is past
\* its authentication, and gets there with an id it presents, or because the
\* connection is authenticated.
LEMMA StreamKept ==
  ASSUME IInv, NEW x \in S, NEW to,
         pc' = [pc EXCEPT ![x] = to],
         to \in {"check", "present", "generate", "create", "reply", "read",
                 "handle", "ended"},
         conn[x[1]] # "none", UNCHANGED <<conn, connCount>>,
         \/ UNCHANGED authenticated
         \/ /\ authenticated' = [authenticated EXCEPT ![x[1]] = TRUE]
            /\ pc[x] \in Past,
         to \in Past => \/ pc[x] \in Past \/ authenticated[x[1]]
                        \/ sessionID'[x[1]] = presented'[x],
         \/ UNCHANGED <<presented, sessionID>>
         \/ \E id : /\ presented' = [presented EXCEPT ![x] = id]
                    /\ sessionID' = [sessionID EXCEPT ![x[1]] = id]
  PROVE  IInv'
<1>1. x[1] \in Conns /\ x[2] \in Streams /\ x = <<x[1], x[2]>>
  BY DEF S
<1>2. Types'
  BY Zenon DEF IInv, Types
<1>3. CountIsExact'
  BY Zenon DEF IInv, CountIsExact, Counted
<1>4. QuietBefore'
  <2>. SUFFICES ASSUME NEW c \in Conns, conn[c] = "none"
                PROVE  ~authenticated'[c] /\ \A k \in Streams : pc'[<<c, k>>] = "none"
    BY Zenon DEF QuietBefore
  <2>1. c # x[1]
    BY Zenon
  <2>2. authenticated'[c] = authenticated[c]
    BY Zenon, <1>1, <2>1 DEF IInv, Types
  <2>3. ASSUME NEW k \in Streams PROVE pc'[<<c, k>>] = pc[<<c, k>>]
    BY <2>1 DEF IInv, Types, S
  <2>. QED  BY Zenon, <2>2, <2>3 DEF IInv, QuietBefore
<1>5. ASSUME NEW c \in Conns, c # x[1], Claimed(c)'
      PROVE  Presented(c)'
  <2>1. authenticated'[c] = authenticated[c] /\ sessionID'[c] = sessionID[c]
    BY Zenon, <1>1, <1>5 DEF IInv, Types
  <2>2. ASSUME NEW k \in Streams
        PROVE  /\ pc'[<<c, k>>] = pc[<<c, k>>]
               /\ presented'[<<c, k>>] = presented[<<c, k>>]
    BY <1>5 DEF IInv, Types, S
  <2>3. Claimed(c)
    BY Zenon, <1>5, <2>1, <2>2 DEF Claimed
  <2>. QED  BY Zenon, <2>1, <2>2, <2>3 DEF IInv, ClaimedIsPresented, Presented
<1>6. ASSUME Claimed(x[1])'  PROVE Presented(x[1])'
  <2>1. CASE sessionID'[x[1]] = presented'[x]
    BY Zenon, <1>1, <2>1 DEF Presented
  <2>2. CASE UNCHANGED <<presented, sessionID>> /\ Claimed(x[1])
    BY Zenon, <1>1, <2>2 DEF IInv, ClaimedIsPresented, Presented
  <2>3. CASE UNCHANGED <<presented, sessionID>> /\ sessionID'[x[1]] # presented'[x]
    <3>1. CASE authenticated'[x[1]] /\ ~authenticated[x[1]]
      <4>1. pc[x] \in Past
        BY Zenon, <3>1
      <4>. QED  BY Zenon, <1>1, <2>2, <2>3, <4>1 DEF Claimed
    <3>2. CASE ~authenticated[x[1]] /\ \E k \in Streams : pc'[<<x[1], k>>] \in Past
      <4>1. PICK k \in Streams : pc'[<<x[1], k>>] \in Past
        BY Zenon, <3>2
      <4>2. CASE <<x[1], k>> = x
        BY Zenon, <1>1, <2>2, <2>3, <3>2, <4>1, <4>2 DEF IInv, Types, Claimed
      <4>3. CASE <<x[1], k>> # x
        BY Zenon, <1>1, <2>2, <2>3, <4>1, <4>3 DEF IInv, Types, Claimed, S
      <4>. QED  BY Zenon, <4>2, <4>3
    <3>3. CASE authenticated[x[1]]
      BY Zenon, <2>2, <2>3, <3>3 DEF Claimed
    <3>. QED  BY Zenon, <1>6, <3>1, <3>2, <3>3 DEF Claimed
  <2>4. ASSUME NEW id, presented' = [presented EXCEPT ![x] = id],
               sessionID' = [sessionID EXCEPT ![x[1]] = id]
        PROVE  sessionID'[x[1]] = presented'[x]
    BY Zenon, <1>1, <2>4 DEF IInv, Types
  <2>. QED  BY Zenon, <2>1, <2>3, <2>4
<1>. QED  BY Zenon, <1>2, <1>3, <1>4, <1>5, <1>6 DEF IInv, ClaimedIsPresented

\* A stream exists only on a connection that was accepted.
LEMMA StreamHasConnection ==
  ASSUME IInv, NEW x \in S, pc[x] # "none"
  PROVE  conn[x[1]] # "none"
<1>1. x[1] \in Conns /\ x[2] \in Streams /\ x = <<x[1], x[2]>>
  BY DEF S
<1>. QED  BY Zenon, <1>1 DEF IInv, QuietBefore

\* A goroutine's steps: only Present and Generate write ids, and only Reply
\* the flag.
LEMMA StreamIInv ==
  ASSUME IInv, NEW x \in S, AcceptStream(x) \/ StreamStep(x)
  PROVE  IInv'
<1>0. /\ "check" \notin Past /\ "present" \notin Past /\ "ended" \notin Past
      /\ "open" # "none"
  BY DEF Past
<1>1. CASE AcceptStream(x)
  BY Zenon, <1>0, <1>1, StreamKept DEF AcceptStream
<1>2. CASE CheckAuthenticated(x)
  <2>1. conn[x[1]] # "none"
    BY Zenon, <1>2, StreamHasConnection DEF CheckAuthenticated
  <2>2. CASE authenticated[x[1]]
    <3>1. pc' = [pc EXCEPT ![x] = "read"]
      BY Zenon, <1>2, <2>2 DEF CheckAuthenticated, IsAuthenticated
    <3>. QED  BY Zenon, <1>2, <2>1, <2>2, <3>1, StreamKept DEF CheckAuthenticated
  <2>3. CASE ~authenticated[x[1]]
    <3>1. pc' = [pc EXCEPT ![x] = "present"]
      BY Zenon, <1>2, <2>3 DEF CheckAuthenticated, IsAuthenticated
    <3>. QED  BY Zenon, <1>0, <1>2, <2>1, <3>1, StreamKept DEF CheckAuthenticated
  <2>. QED  BY Zenon, <2>2, <2>3
<1>3. CASE Present(x)
  <2>1. conn[x[1]] # "none"
    BY Zenon, <1>3, StreamHasConnection DEF Present
  <2>2. CASE pc' = [pc EXCEPT ![x] = "ended"] /\ UNCHANGED <<presented, sessionID>>
    BY Zenon, <1>0, <1>3, <2>1, <2>2, StreamKept DEF Present
  <2>3. ASSUME NEW id, presented' = [presented EXCEPT ![x] = id],
               sessionID' = [sessionID EXCEPT ![x[1]] = id],
               pc' = [pc EXCEPT ![x] = "generate"]
        PROVE  IInv'
    <3>1. sessionID'[x[1]] = presented'[x]
      BY <2>3 DEF IInv, Types, S
    <3>. QED  BY Zenon, <1>3, <2>1, <2>3, <3>1, StreamKept DEF Present
  <2>. QED  BY Zenon, <1>3, <2>2, <2>3 DEF Present
<1>4. CASE Generate(x)
  <2>1. conn[x[1]] # "none"
    BY Zenon, <1>4, StreamHasConnection DEF Generate
  <2>. QED  BY Zenon, <1>4, <2>1, StreamKept DEF Generate, Past
<1>5. CASE GetOrCreate(x)
  <2>1. conn[x[1]] # "none"
    BY Zenon, <1>5, StreamHasConnection DEF GetOrCreate
  <2>. QED  BY Zenon, <1>5, <2>1, StreamKept DEF GetOrCreate, Past
<1>6. CASE Reply(x)
  <2>1. conn[x[1]] # "none"
    BY Zenon, <1>6, StreamHasConnection DEF Reply
  <2>. QED  BY Zenon, <1>0, <1>6, <2>1, StreamKept DEF Reply, Past
<1>7. CASE LookUp(x)
  BY Zenon, <1>0, <1>7, StreamKept DEF LookUp, Past
<1>8. CASE HandleMessage(x)
  <2>1. conn[x[1]] # "none"
    BY Zenon, <1>8, StreamHasConnection DEF HandleMessage
  <2>. QED  BY Zenon, <1>8, <2>1, StreamKept DEF HandleMessage, Past
<1>9. CASE StreamEnds(x)
  <2>1. conn[x[1]] # "none"
    BY Zenon, <1>9, StreamHasConnection DEF StreamEnds
  <2>. QED  BY Zenon, <1>0, <1>9, <2>1, StreamKept DEF StreamEnds
<1>. QED
  BY Zenon, <1>1, <1>2, <1>3, <1>4, <1>5, <1>6, <1>7, <1>8, <1>9 DEF StreamStep

\* What touches no connection and no stream: Stop and the heartbeat checker.
LEMMA OtherIInv ==
  ASSUME IInv, UNCHANGED <<conn, connCount, pc, presented, sessionID, authenticated>>
  PROVE  IInv'
BY Zenon, ClaimsKept DEF IInv, Types, QuietBefore, CountIsExact, Counted

LEMMA NextIInv == IInv /\ [Next]_vars => IInv'
<1>. SUFFICES ASSUME IInv, [Next]_vars PROVE IInv'
  BY Zenon
<1>1. CASE UNCHANGED vars
  BY Zenon, <1>1, OtherIInv DEF vars
<1>2. CASE Stop \/ CheckHeartbeats
  BY Zenon, <1>2, OtherIInv DEF Stop, CheckHeartbeats
<1>3. ASSUME NEW id \in AllIds, GrowOld(id) \/ RemoveSession(id) PROVE IInv'
  BY Zenon, <1>3, OtherIInv DEF GrowOld, RemoveSession
<1>. QED
  BY Zenon, <1>1, <1>2, <1>3, AcceptConnectionIInv, BreakIInv, HandleReturnsIInv,
     StreamIInv DEF Next

\* However the streams of a connection interleave, a message is handled under
\* an id one of them presented, and the connections are counted exactly
\* (quic_stream_handler.go, performAuthentication and handleStream;
\* quic_server.go, handleConnection).
THEOREM AlwaysAsPresented == Spec => []HandledAsPresented
<1>1. IInv => HandledAsPresented
  BY Zenon, InvIsEnough
<1>. QED  BY <1>1, InitIInv, NextIInv, PTL DEF Spec
=============================================================================
