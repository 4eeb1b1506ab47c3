----------------------------- MODULE WireProofs -----------------------------
(***************************************************************************)
(* Theorems about Wire, for every base, capacity, set of requests and set  *)
(* of answers: what is sent arrives, and a connection is the exchange of   *)
(* single requests and answers that Exchange describes.                    *)
(*                                                                         *)
(* First the encodings, which are undone where they are read; then the     *)
(* invariant, that what has been read, what is in the socket and what is   *)
(* still to be written make up one message; then the exchange.  Equations  *)
(* between sequences are kept under a name (Glued, MakeUp, ...): as plain  *)
(* facts the provers use them to rewrite one another for ever.             *)
(***************************************************************************)
EXTENDS Wire, SequenceTheorems, WellFoundedInduction, TLAPS

----------------------------------------------------------------------------
(* An int.                                                                 *)

\* Digits and carries.
LEMMA Division ==
    ASSUME NEW v \in Int
    PROVE  /\ v \div Base \in Int /\ v % Base \in Bytes
           /\ v = (v % Base) + Base * (v \div Base)
<1>1. Base \in Nat /\ Base > 0
  BY BaseAssumption
<1>. DEFINE B == Base
<1>. HIDE DEF B
<1>2. B \in Nat /\ B > 0
  BY <1>1 DEF B
<1>3. v \div B \in Int /\ v % B \in 0 .. B - 1 /\ v = (v % B) + B * (v \div B)
  BY <1>2
<1>. QED BY <1>3 DEF B, Bytes

\* The four bytes of an int.
LEMMA IntBytes ==
    ASSUME NEW v \in Int
    PROVE  serializeInt(v) \in Seq(Bytes) /\ Len(serializeInt(v)) = IntLen
<1>1. /\ v \div Base \in Int /\ (v \div Base) \div Base \in Int
      /\ ((v \div Base) \div Base) \div Base \in Int
  BY Division
<1>2. PICK d0 \in Bytes, d1 \in Bytes, d2 \in Bytes, d3 \in Bytes :
        /\ d0 = v % Base /\ d1 = (v \div Base) % Base /\ d2 = ((v \div Base) \div Base) % Base
        /\ d3 = (((v \div Base) \div Base) \div Base) % Base
  BY <1>1, Division
<1>3. serializeInt(v) = <<d0, d1, d2, d3>>
  BY <1>2, Zenon DEF serializeInt
<1>4. <<d0, d1, d2, d3>> \in Seq(Bytes) /\ Len(<<d0, d1, d2, d3>>) = 4
  OBVIOUS
<1>. QED BY <1>3, <1>4 DEF IntLen

\* A factor is multiplied into a sum.
LEMMA TakenIn ==
    ASSUME NEW b \in Int, NEW x \in Int, NEW y \in Int
    PROVE  b * (x + y) = b * x + b * y /\ b * (x - y) = b * x - b * y
OBVIOUS

\* An int of four bytes, written and read again, whether it is negative or not.
LEMMA IntRoundTrip ==
    ASSUME NEW v \in Ints
    PROVE  deserializeInt(serializeInt(v)) = v
<1>. DEFINE second == v \div Base
            third == second \div Base
            fourth == third \div Base
            rest == fourth \div Base
<1>0. Base \in Nat /\ Base > 1 /\ v \in Int
  BY BaseAssumption DEF Ints
<1>1. /\ second \in Int /\ third \in Int /\ fourth \in Int /\ rest \in Int
      /\ v % Base \in Bytes /\ second % Base \in Bytes
      /\ third % Base \in Bytes /\ fourth % Base \in Bytes
      /\ v = (v % Base) + Base * second /\ second = (second % Base) + Base * third
      /\ third = (third % Base) + Base * fourth /\ fourth = (fourth % Base) + Base * rest
  BY <1>0, Division
<1>2. PICK B \in Nat, q1 \in Int, q2 \in Int, q3 \in Int, q4 \in Int,
           d0 \in Bytes, d1 \in Bytes, d2 \in Bytes, d3 \in Bytes :
         /\ B = Base /\ q1 = second /\ q2 = third /\ q3 = fourth /\ q4 = rest
         /\ d0 = v % Base /\ d1 = second % Base /\ d2 = third % Base /\ d3 = fourth % Base
  BY <1>0, <1>1, Zenon
<1>3. serializeInt(v) = <<d0, d1, d2, d3>>
  BY <1>2, Zenon DEF serializeInt
<1>4. /\ v = d0 + B * q1 /\ q1 = d1 + B * q2 /\ q2 = d2 + B * q3 /\ q3 = d3 + B * q4
      /\ B > 1 /\ v \in Int
      /\ d0 \in 0 .. B - 1 /\ d1 \in 0 .. B - 1 /\ d2 \in 0 .. B - 1 /\ d3 \in 0 .. B - 1
  <2>1. /\ v = d0 + B * q1 /\ q1 = d1 + B * q2 /\ q2 = d2 + B * q3 /\ q3 = d3 + B * q4
    BY <1>1, <1>2, Zenon
  <2>2. B > 1 /\ v \in Int
    BY <1>0, <1>2
  <2>3. Bytes = 0 .. B - 1
    BY <1>2 DEF Bytes
  <2>. QED BY <2>1, <2>2, <2>3
<1>. DEFINE value == d0 + B * (d1 + B * (d2 + B * d3))
            range == B * B * B * B
<1>5. range \in Int /\ value \in Int
  BY <1>4
<1>6. v = value + range * q4
  <2>1. q2 = (d2 + B * d3) + B * (B * q4)
    BY <1>4
  <2>2. q1 = (d1 + B * (d2 + B * d3)) + B * (B * (B * q4))
    <3>. DEFINE x == d2 + B * d3
                y == B * (B * q4)
    <3>1. x \in Int /\ y \in Int
      BY <1>4
    <3>. HIDE DEF x, y
    <3>2. B * (x + y) = B * x + B * y
      BY <3>1, TakenIn
    <3>. QED BY <1>4, <2>1, <3>1, <3>2 DEF x, y
  <2>3. v = value + B * (B * (B * (B * q4)))
    <3>. DEFINE x == d1 + B * (d2 + B * d3)
                y == B * (B * (B * q4))
    <3>1. x \in Int /\ y \in Int
      BY <1>4
    <3>. HIDE DEF x, y
    <3>2. B * (x + y) = B * x + B * y
      BY <3>1, TakenIn
    <3>. QED BY <1>4, <2>2, <3>1, <3>2 DEF x, y
  <2>4. B * (B * (B * (B * q4))) = range * q4
    OBVIOUS
  <2>. QED BY <2>3, <2>4
<1>7. 0 <= value /\ value < range
  <2>1. d2 + B * d3 >= 0 /\ d2 + B * d3 <= B * B - 1
    <3>1. B * d3 >= 0 /\ B * d3 <= B * (B - 1)
      BY <1>4
    <3>. QED BY <1>4, <3>1
  <2>2. d1 + B * (d2 + B * d3) >= 0 /\ d1 + B * (d2 + B * d3) <= B * B * B - 1
    <3>. DEFINE x == d2 + B * d3
                y == B * B
    <3>1. x \in Int /\ x >= 0 /\ x <= y - 1 /\ y \in Int
      BY <1>4, <2>1
    <3>. HIDE DEF x, y
    <3>2. B * x >= 0 /\ B * x <= B * (y - 1)
      BY <1>4, <3>1
    <3>3. B * (y - 1) = B * y - B
      BY <1>4, <3>1
    <3>4. B * y = B * B * B
      BY DEF y
    <3>. QED BY <1>4, <3>1, <3>2, <3>3, <3>4 DEF x
  <2>3. value >= 0 /\ value <= range - 1
    <3>. DEFINE x == d1 + B * (d2 + B * d3)
                y == B * B * B
    <3>1. x \in Int /\ x >= 0 /\ x <= y - 1 /\ y \in Int
      BY <1>4, <2>2
    <3>. HIDE DEF x, y
    <3>2. B * x >= 0 /\ B * x <= B * (y - 1)
      BY <1>4, <3>1
    <3>3. B * (y - 1) = B * y - B
      BY <1>4, <3>1
    <3>4. B * y = range
      BY DEF y
    <3>. QED BY <1>4, <3>1, <3>2, <3>3, <3>4 DEF x
  <2>. QED BY <1>5, <2>3
<1>8. -range <= 2 * v /\ 2 * v < range
  BY <1>2 DEF Ints, IntRange
<1>9. q4 = 0 \/ q4 = -1
  <2>. HIDE DEF range, value
  <2>1. range > 0
    BY <1>5, <1>7
  <2>2. q4 >= 1 => range * q4 >= range
    BY <1>5, <2>1
  <2>3. q4 <= -2 => range * q4 <= -2 * range
    BY <1>5, <2>1
  <2>. QED BY <1>4, <1>5, <1>6, <1>7, <1>8, <2>1, <2>2, <2>3
<1>10. deserializeInt(<<d0, d1, d2, d3>>) = IF 2 * value < range THEN value ELSE value - range
  BY <1>2 DEF deserializeInt, IntRange
<1>11. (IF 2 * value < range THEN value ELSE value - range) = v
  <2>. HIDE DEF range, value
  <2>1. CASE q4 = 0
    BY <1>4, <1>5, <1>6, <1>8, <2>1
  <2>2. CASE q4 = -1
    <3>1. v = value - range
      BY <1>5, <1>6, <2>2
    <3>. QED BY <1>5, <1>8, <3>1
  <2>. QED BY <1>9, <2>1, <2>2
<1>. QED BY <1>3, <1>10, <1>11

----------------------------------------------------------------------------
(* Bytes in a row.                                                         *)

\* The lengths of pieces of a message, and what is in them.
LEMMA Pieces ==
    ASSUME NEW a \in Seq(Bytes), NEW b \in Seq(Bytes)
    PROVE  /\ a \o b \in Seq(Bytes) /\ Len(a \o b) = Len(a) + Len(b)
           /\ Len(a) \in Nat /\ Len(b) \in Nat
BY ConcatProperties, LenProperties

Joined(c, a, b) == c = a \o b /\ Len(c) = Len(a) + Len(b)

\* Two pieces give a third one, as long as both.
LEMMA PiecesAreJoined ==
    ASSUME NEW a \in Seq(Bytes), NEW b \in Seq(Bytes)
    PROVE  \E c \in Seq(Bytes) : Joined(c, a, b)
<1>1. a \o b \in Seq(Bytes) /\ Joined(a \o b, a, b)
  BY Pieces DEF Joined
<1>. QED BY <1>1

\* The order in which three pieces are put together does not matter.
Glued(a, b, c) == (a \o b) \o c = a \o (b \o c)

\* Putting pieces together in either order gives the same bytes.
LEMMA PiecesAreGlued ==
    ASSUME NEW a \in Seq(Bytes), NEW b \in Seq(Bytes), NEW c \in Seq(Bytes)
    PROVE  Glued(a, b, c)
BY ConcatAssociative DEF Glued

\* The part of a message that follows its first part.
LEMMA MiddlePart ==
    ASSUME NEW x \in Seq(Bytes), NEW m \in Seq(Bytes), NEW y \in Seq(Bytes)
    PROVE  SubSeq(x \o (m \o y), Len(x) + 1, Len(x) + Len(m)) = m
<1>. DEFINE msg == x \o (m \o y)
            part == SubSeq(msg, Len(x) + 1, Len(x) + Len(m))
<1>1. /\ m \o y \in Seq(Bytes) /\ Len(m \o y) = Len(m) + Len(y)
      /\ msg \in Seq(Bytes) /\ Len(msg) = Len(x) + (Len(m) + Len(y))
      /\ Len(x) \in Nat /\ Len(m) \in Nat /\ Len(y) \in Nat
  BY Pieces
<1>2. \A i \in 1 .. Len(m) : msg[Len(x) + i] = m[i]
  <2>1. \A i \in 1 .. Len(x) + Len(m \o y) : msg[i] = IF i <= Len(x) THEN x[i] ELSE (m \o y)[i - Len(x)]
    BY <1>1, ConcatProperties
  <2>2. \A i \in 1 .. Len(m) + Len(y) : (m \o y)[i] = IF i <= Len(m) THEN m[i] ELSE y[i - Len(m)]
    BY ConcatProperties
  <2>. HIDE DEF msg
  <2>3. ASSUME NEW i \in 1 .. Len(m)
        PROVE  msg[Len(x) + i] = m[i]
    <3>1. PICK j \in Int : j = Len(x) + i
      BY <1>1
    <3>2. j \in 1 .. Len(x) + Len(m \o y) /\ ~ (j <= Len(x)) /\ j - Len(x) = i
      BY <1>1, <3>1
    <3>4. msg[j] = (m \o y)[j - Len(x)]
      BY <2>1, <3>2, Zenon
    <3>3. (m \o y)[i] = m[i]
      BY <1>1, <2>2
    <3>. QED BY <3>1, <3>2, <3>3, <3>4
  <2>. QED BY <2>3
<1>. HIDE DEF msg
<1>3. \A i \in Len(x) + 1 .. Len(x) + Len(m) : msg[i] \in Bytes
  BY <1>1, ElementOfSeq
<1>4. /\ part \in Seq(Bytes) /\ Len(part) = Len(m)
      /\ \A i \in 1 .. Len(m) : part[i] = msg[Len(x) + i]
  <2>1. PICK from \in Int, to \in Int : from = Len(x) + 1 /\ to = Len(x) + Len(m)
    BY <1>1
  <2>2. /\ SubSeq(msg, from, to) \in Seq(Bytes)
        /\ Len(SubSeq(msg, from, to)) = IF from <= to THEN to - from + 1 ELSE 0
        /\ \A i \in 1 .. to - from + 1 : SubSeq(msg, from, to)[i] = msg[from + i - 1]
    BY <1>3, <2>1, SubSeqProperties
  <2>3. \A i \in 1 .. Len(m) : from + i - 1 = Len(x) + i
    BY <1>1, <2>1
  <2>4. to - from + 1 = Len(m)
    BY <1>1, <2>1
  <2>. QED BY <1>1, <2>1, <2>2, <2>3, <2>4, SMTT(30)
<1>. HIDE DEF part
<1>5. part = m
  BY <1>2, <1>4, SeqEqual
<1>. QED BY <1>5 DEF part, msg

\* One read or write moves bytes and loses none.
Moved(a, b, c, k) == (a \o First(k, b)) \o (After(k, b) \o c) = a \o (b \o c)

\* A piece moved from the second part to the first leaves the whole as it was.
LEMMA BytesMove ==
    ASSUME NEW a \in Seq(Bytes), NEW b \in Seq(Bytes), NEW c \in Seq(Bytes), NEW k \in 1 .. Len(b)
    PROVE  /\ First(k, b) \in Seq(Bytes) /\ Len(First(k, b)) = k
           /\ After(k, b) \in Seq(Bytes) /\ Len(After(k, b)) = Len(b) - k
           /\ a \o First(k, b) \in Seq(Bytes) /\ Len(a \o First(k, b)) = Len(a) + k
           /\ Moved(a, b, c, k)
           /\ First(k, b) \o After(k, b) = b
<1>1. Len(b) \in Nat /\ \A i \in 1 .. Len(b) : b[i] \in Bytes
  BY ElementOfSeq, LenProperties
<1>2. /\ First(k, b) \in Seq(Bytes) /\ Len(First(k, b)) = k
  BY <1>1, SubSeqProperties DEF First
<1>3. After(k, b) \in Seq(Bytes) /\ Len(After(k, b)) = Len(b) - k
  <2>1. PICK from \in Int : from = k + 1
    BY <1>1
  <2>2. \A i \in from .. Len(b) : b[i] \in Bytes
    BY <1>1, <2>1
  <2>3. /\ SubSeq(b, from, Len(b)) \in Seq(Bytes)
        /\ Len(SubSeq(b, from, Len(b))) = IF from <= Len(b) THEN Len(b) - from + 1 ELSE 0
    BY <1>1, <2>2, SubSeqProperties
  <2>. QED BY <1>1, <2>1, <2>3 DEF After
<1>4. First(k, b) \o After(k, b) = b
  <2>1. SubSeq(b, 1, k) \o SubSeq(b, k + 1, Len(b)) = SubSeq(b, 1, Len(b))
    BY <1>1, ConcatAdjacentSubSeq
  <2>2. SubSeq(b, 1, Len(b)) = b
    BY SubSeqFull
  <2>. QED BY <2>1, <2>2, Zenon DEF First, After
<1>5. PICK f \in Seq(Bytes), e \in Seq(Bytes) : f = First(k, b) /\ e = After(k, b)
  BY <1>2, <1>3
<1>6. (a \o f) \o (e \o c) = a \o ((f \o e) \o c)
  <2>1. f \in Seq(Bytes) /\ e \in Seq(Bytes) /\ e \o c \in Seq(Bytes)
    BY <1>5, Pieces
  <2>2. Glued(a, f, e \o c) /\ Glued(f, e, c)
    BY <2>1, PiecesAreGlued
  <2>. QED BY <2>2, Zenon DEF Glued
<1>7. Moved(a, b, c, k)
  BY <1>4, <1>5, <1>6, Zenon DEF Moved
<1>8. a \o f \in Seq(Bytes) /\ Len(a \o f) = Len(a) + k
  <2>1. Len(f) = k
    BY <1>2, <1>5, Zenon
  <2>2. a \o f \in Seq(Bytes) /\ Len(a \o f) = Len(a) + Len(f)
    BY <1>5, Pieces
  <2>. QED BY <2>1, <2>2
<1>. QED BY <1>2, <1>3, <1>4, <1>5, <1>7, <1>8

\* Two ways to cut the same bytes at the same place.
LEMMA SameCut ==
    ASSUME NEW a \in Seq(Bytes), NEW b \in Seq(Bytes), NEW c \in Seq(Bytes), NEW d \in Seq(Bytes),
           a \o b = c \o d, Len(a) = Len(c)
    PROVE  a = c /\ b = d
<1>1. Len(a) \in Nat
  BY LenProperties
<1>2. ASSUME NEW i \in 1 .. Len(a)
      PROVE  a[i] = c[i]
  <2>1. (a \o b)[i] = a[i] /\ (c \o d)[i] = c[i]
    BY <1>1, ConcatProperties, LenProperties
  <2>. QED BY <2>1
<1>3. a = c
  BY <1>2, SeqEqual
<1>4. a \o b = a \o d
  BY <1>3
<1>5. b = d
  BY <1>4, ConcatSimplifications
<1>. QED BY <1>3, <1>5

----------------------------------------------------------------------------
(* A message, parsed where its parts were put.                             *)

\* A length fits an int, and is one.
Fits(s) == 2 * Len(s) < IntRange

\* The length of a string that fits can be sent as an int.
LEMMA LengthsAreInts ==
    ASSUME NEW s \in Seq(Bytes), Fits(s)
    PROVE  Len(s) \in Ints
<1>1. Len(s) \in Nat /\ 2 * Len(s) < IntRange
  BY LenProperties DEF Fits
<1>2. IntRange \in Int
  BY BaseAssumption DEF IntRange
<1>. QED BY <1>1, <1>2 DEF Ints

\* A length, then as many bytes.
LEMMA CountedBytes ==
    ASSUME NEW s \in Seq(Bytes)
    PROVE  Counted(s) \in Seq(Bytes) /\ Len(Counted(s)) = IntLen + Len(s)
<1>1. Len(s) \in Int
  BY LenProperties
<1>2. PICK i \in Seq(Bytes) : i = serializeInt(Len(s)) /\ Len(i) = IntLen
  BY <1>1, IntBytes
<1>3. i \o s \in Seq(Bytes) /\ Len(i \o s) = Len(i) + Len(s)
  BY <1>2, Pieces
<1>. QED BY <1>2, <1>3 DEF Counted

\* An int is read at the place where it was written.
LEMMA IntAt ==
    ASSUME NEW x \in Seq(Bytes), NEW v \in Ints, NEW y \in Seq(Bytes)
    PROVE  IntAfter(x \o (serializeInt(v) \o y), Len(x)) = v
<1>1. PICK i \in Seq(Bytes) : i = serializeInt(v) /\ Len(i) = IntLen /\ deserializeInt(i) = v
  BY IntBytes, IntRoundTrip DEF Ints
<1>2. SubSeq(x \o (i \o y), Len(x) + 1, Len(x) + Len(i)) = i
  BY <1>1, MiddlePart
<1>. QED BY <1>1, <1>2 DEF IntAfter

\* So is the part whose length it is.
Written(msg, i, s) == IntAfter(msg, i) = Len(s) /\ PartAfter(msg, i) = s

\* A counted part put anywhere in a message is what is read at its place.
LEMMA PartAt ==
    ASSUME NEW x \in Seq(Bytes), NEW s \in Seq(Bytes), NEW y \in Seq(Bytes), Fits(s)
    PROVE  Written(x \o (Counted(s) \o y), Len(x), s)
<1>1. PICK i \in Seq(Bytes) :
        /\ i = serializeInt(Len(s)) /\ Len(i) = IntLen /\ deserializeInt(i) = Len(s)
        /\ Counted(s) = i \o s
  BY LengthsAreInts, IntBytes, IntRoundTrip DEF Counted, Ints
<1>2. PICK msg : msg = x \o (Counted(s) \o y)
  OBVIOUS
<1>3. i \in Seq(Bytes) /\ s \o y \in Seq(Bytes) /\ x \o i \in Seq(Bytes) /\ Len(x \o i) = Len(x) + IntLen
  BY <1>1, Pieces
<1>4. Glued(i, s, y) /\ Glued(x, i, s \o y)
  BY <1>3, PiecesAreGlued
<1>5. msg = x \o (i \o (s \o y)) /\ msg = (x \o i) \o (s \o y)
  BY <1>1, <1>2, <1>4, Zenon DEF Glued
<1>6. SubSeq(msg, Len(x) + 1, Len(x) + IntLen) = i
  <2>1. SubSeq(x \o (i \o (s \o y)), Len(x) + 1, Len(x) + Len(i)) = i
    BY <1>3, MiddlePart, Zenon
  <2>. QED BY <1>1, <1>5, <2>1, Zenon
<1>7. SubSeq(msg, Len(x) + IntLen + 1, Len(x) + IntLen + Len(s)) = s
  <2>1. SubSeq((x \o i) \o (s \o y), Len(x \o i) + 1, Len(x \o i) + Len(s)) = s
    BY <1>3, MiddlePart, Zenon
  <2>. QED BY <1>3, <1>5, <2>1, Zenon
<1>8. IntAfter(msg, Len(x)) = Len(s)
  BY <1>1, <1>6, Zenon DEF IntAfter
<1>9. PartAfter(msg, Len(x)) = s
  BY <1>7, <1>8, Zenon DEF PartAfter
<1>. QED BY <1>2, <1>8, <1>9 DEF Written

\* What is known of a request.
LEMMA RequestParts ==
    ASSUME NEW r \in Requests
    PROVE  /\ r.kind \in Bytes /\ r.path \in Seq(Bytes) /\ r.content \in Seq(Bytes) /\ r.flags \in Ints
           /\ r = [kind |-> r.kind, path |-> r.path, content |-> r.content, flags |-> r.flags]
           /\ Fits(requestPayload(r))
BY PartsAssumption, LengthsFitAssumption DEF Fits

\* new_request undoes what writeMessage of the library does.
LEMMA RequestRoundTrip ==
    ASSUME NEW r \in Requests
    PROVE  /\ requestPayload(r) \in Seq(Bytes) /\ Len(requestPayload(r)) > 0
           /\ new_request(requestPayload(r)) = r
<1>1. /\ r.kind \in Bytes /\ r.path \in Seq(Bytes) /\ r.content \in Seq(Bytes) /\ r.flags \in Ints
      /\ Fits(requestPayload(r))
  BY RequestParts
<1>2. PICK path \in Seq(Bytes), content \in Seq(Bytes), K \in Seq(Bytes), S \in Seq(Bytes),
           P \in Seq(Bytes), C \in Seq(Bytes), E \in Seq(Bytes) :
        /\ path = r.path /\ content = r.content /\ K = <<r.kind>> /\ S = <<Separator>>
        /\ P = Counted(path) /\ C = Counted(content) /\ E = serializeInt(r.flags)
        /\ Len(P) = IntLen + Len(path) /\ Len(C) = IntLen + Len(content) /\ Len(E) = IntLen
        /\ Len(K) = 1 /\ Len(S) = 1 /\ K[1] = r.kind
  <2>1. <<r.kind>> \in Seq(Bytes) /\ <<Separator>> \in Seq(Bytes)
    BY <1>1, BaseAssumption DEF Separator, Bytes
  <2>2. Len(<<r.kind>>) = 1 /\ Len(<<Separator>>) = 1 /\ <<r.kind>>[1] = r.kind
    OBVIOUS
  <2>3. r.flags \in Int
    BY <1>1 DEF Ints
  <2>4. /\ Counted(r.path) \in Seq(Bytes) /\ Len(Counted(r.path)) = IntLen + Len(r.path)
        /\ Counted(r.content) \in Seq(Bytes) /\ Len(Counted(r.content)) = IntLen + Len(r.content)
        /\ serializeInt(r.flags) \in Seq(Bytes) /\ Len(serializeInt(r.flags)) = IntLen
    BY <1>1, <2>3, CountedBytes, IntBytes
  <2>. QED BY <1>1, <2>1, <2>2, <2>4, Zenon
<1>3. /\ path \in Seq(Bytes) /\ content \in Seq(Bytes) /\ K \in Seq(Bytes) /\ S \in Seq(Bytes)
      /\ P \in Seq(Bytes) /\ C \in Seq(Bytes) /\ E \in Seq(Bytes)
  BY <1>2, Zenon
<1>4. PICK KP \in Seq(Bytes) : Joined(KP, K, P)
  BY <1>3, PiecesAreJoined
<1>5. PICK KPS \in Seq(Bytes) : Joined(KPS, KP, S)
  BY <1>3, PiecesAreJoined
<1>6. PICK KPSC \in Seq(Bytes) : Joined(KPSC, KPS, C)
  BY <1>3, PiecesAreJoined
<1>7. PICK msg \in Seq(Bytes) : Joined(msg, KPSC, E)
  BY <1>3, PiecesAreJoined
<1>8. msg = requestPayload(r)
  BY <1>2, <1>4, <1>5, <1>6, <1>7, Zenon DEF requestPayload, Joined
<1>9. /\ Len(path) \in Nat /\ Len(content) \in Nat
      /\ Len(msg) = 1 + (4 + Len(path)) + 1 + (4 + Len(content)) + 4
      /\ Len(KPS) = 1 + (4 + Len(path)) + 1
      /\ Len(KPSC) = 1 + (4 + Len(path)) + 1 + (4 + Len(content))
  BY <1>2, <1>4, <1>5, <1>6, <1>7, LenProperties, ZenonT(30) DEF IntLen, Joined
<1>10. Fits(path) /\ Fits(content)
  <2>1. 2 * Len(msg) < IntRange
    BY <1>1, <1>8, Zenon DEF Fits
  <2>2. IntRange \in Int
    BY BaseAssumption DEF IntRange
  <2>. QED BY <1>9, <2>1, <2>2 DEF Fits
<1>11. /\ C \o E \in Seq(Bytes) /\ S \o (C \o E) \in Seq(Bytes) /\ P \o (S \o (C \o E)) \in Seq(Bytes)
      /\ E \o << >> = E /\ << >> \in Seq(Bytes)
  BY <1>2, Pieces, ConcatEmptySeq, EmptySeq
<1>12. /\ Glued(KPS, C, E) /\ Glued(KP, S, C \o E) /\ Glued(K, P, S \o (C \o E))
  BY <1>2, <1>4, <1>5, <1>11, PiecesAreGlued
<1>13. /\ msg = KPSC \o (E \o << >>) /\ msg = KPS \o (C \o E)
      /\ msg = K \o (P \o (S \o (C \o E)))
  BY <1>4, <1>5, <1>6, <1>7, <1>11, <1>12, Zenon DEF Glued, Joined
<1>14. Written(msg, 1, path)
  <2>1. K \in Seq(Bytes) /\ path \in Seq(Bytes) /\ S \o (C \o E) \in Seq(Bytes)
    BY <1>2, <1>11, Zenon
  <2>2. Written(K \o (Counted(path) \o (S \o (C \o E))), Len(K), path)
    BY <1>10, <2>1, PartAt
  <2>. QED BY <1>2, <1>13, <2>2, Zenon
<1>15. Written(msg, Len(KPS), content)
  <2>1. KPS \in Seq(Bytes) /\ content \in Seq(Bytes) /\ E \in Seq(Bytes)
    BY <1>2, <1>5, Zenon
  <2>2. Written(KPS \o (Counted(content) \o E), Len(KPS), content)
    BY <1>10, <2>1, PartAt
  <2>. QED BY <1>2, <1>13, <2>2, Zenon
<1>16. IntAfter(msg, Len(KPSC)) = r.flags
  <2>1. KPSC \in Seq(Bytes) /\ << >> \in Seq(Bytes)
    BY <1>6, <1>11, Zenon
  <2>2. IntAfter(KPSC \o (serializeInt(r.flags) \o << >>), Len(KPSC)) = r.flags
    BY <1>1, <2>1, IntAt
  <2>. QED BY <1>2, <1>13, <2>2, Zenon
<1>17. msg[1] = r.kind
  <2>1. msg[1] = K[1]
    <3>1. (K \o (P \o (S \o (C \o E))))[1] = K[1]
      BY <1>2, <1>11, ConcatProperties, LenProperties
    <3>. QED BY <1>13, <3>1, Zenon
  <2>. QED BY <1>2, <2>1, Zenon
<1>18. new_request(msg) = [kind |-> r.kind, path |-> path, content |-> content, flags |-> r.flags]
  <2>. DEFINE afterPath == 1 + IntLen + IntAfter(msg, 1) + 1
              afterContent == afterPath + IntLen + IntAfter(msg, afterPath)
  <2>1. afterPath = Len(KPS)
    BY <1>9, <1>14, SMTT(30) DEF IntLen, Written
  <2>2. afterContent = Len(KPSC)
    <3>1. IntAfter(msg, afterPath) = Len(content)
      BY <1>15, <2>1, Zenon DEF Written
    <3>2. PICK from, at : from = afterPath /\ at = IntAfter(msg, afterPath)
      OBVIOUS
    <3>3. from = Len(KPS) /\ at = Len(content) /\ afterContent = from + IntLen + at
      BY <2>1, <3>1, <3>2, Zenon
    <3>. QED BY <1>9, <3>3 DEF IntLen
  <2>3. new_request(msg) = [kind |-> msg[1], path |-> PartAfter(msg, 1),
                            content |-> PartAfter(msg, afterPath), flags |-> IntAfter(msg, afterContent)]
    BY Zenon DEF new_request
  <2>. HIDE DEF afterPath, afterContent
  <2>. QED BY <1>14, <1>15, <1>16, <1>17, <2>1, <2>2, <2>3, Zenon DEF Written
<1>19. new_request(msg) = r
  BY <1>2, <1>18, RequestParts, Zenon
<1>. QED BY <1>8, <1>9, <1>19

----------------------------------------------------------------------------
(* The strings of an answer.                                               *)

\* A set of natural numbers that is not empty has a least element.
LEMMA LeastOf ==
    ASSUME NEW S \in SUBSET Nat, S # {}
    PROVE  \E m \in S : \A n \in Nat : n < m => n \notin S
<1>. DEFINE R == {ss \in Nat \X Nat : ss[1] < ss[2]}
<1>1. IsWellFoundedOn(R, Nat)
  BY NatLessThanWellFounded DEF OpToRel
<1>. HIDE DEF R
<1>2. PICK m \in S : \A x \in S : ~ (<<x, m>> \in R)
  BY <1>1, WFMin
<1>3. ASSUME NEW n \in Nat, n < m, n \in S
      PROVE  FALSE
  <2>1. <<n, m>> \in R
    BY <1>3 DEF R
  <2>. QED BY <1>2, <1>3, <2>1
<1>. QED BY <1>3

\* p[i] is what the first i of the pieces q give.
Gathers(p, q, n) == p = [i \in 1 .. n |-> IF i = 1 THEN q[i] ELSE p[i - 1] \o q[i]]

\* Such a function exists, for any number of pieces.
LEMMA GatheredExists ==
    ASSUME NEW q, NEW n \in Nat
    PROVE  \E p : Gathers(p, q, n)
<1>1. ASSUME ~ \E p : Gathers(p, q, n)
      PROVE  FALSE
  <2>. DEFINE S == {k \in Nat : ~ \E p : Gathers(p, q, k)}
  <2>1. n \in S /\ S \in SUBSET Nat
    BY <1>1
  <2>2. PICK m \in S : \A k \in Nat : k < m => k \notin S
    BY <2>1, LeastOf
  <2>3. CASE m = 0
    <3>. DEFINE p == [i \in 1 .. m |-> q]
    <3>1. Gathers(p, q, m)
      BY <2>3 DEF Gathers
    <3>. QED BY <2>2, <3>1
  <2>4. CASE m # 0
    <3>1. PICK j \in Nat : m = j + 1
      BY <2>2, <2>4
    <3>2. PICK p : Gathers(p, q, j)
      BY <2>2, <3>1
    <3>3. p = [i \in 1 .. j |-> IF i = 1 THEN q[i] ELSE p[i - 1] \o q[i]]
      BY <3>2 DEF Gathers
    <3>4. PICK g : g = [i \in 1 .. m |-> IF i \in 1 .. j THEN p[i]
                                         ELSE IF i = 1 THEN q[i] ELSE p[i - 1] \o q[i]]
      OBVIOUS
    <3>5. ASSUME NEW i \in 1 .. m
          PROVE  g[i] = IF i = 1 THEN q[i] ELSE g[i - 1] \o q[i]
      <4>1. i # 1 => i - 1 \in 1 .. j /\ i - 1 \in 1 .. m
        BY <3>1
      <4>2. i # 1 => g[i - 1] = p[i - 1]
        BY <3>4, <4>1, Zenon
      <4>3. CASE i \in 1 .. j
        <5>1. g[i] = p[i]
          BY <3>4, <4>3
        <5>2. p[i] = IF i = 1 THEN q[i] ELSE p[i - 1] \o q[i]
          BY <3>3, <4>3, Zenon
        <5>. QED BY <4>2, <5>1, <5>2, Zenon
      <4>4. CASE i \notin 1 .. j
        <5>1. g[i] = IF i = 1 THEN q[i] ELSE p[i - 1] \o q[i]
          BY <3>4, <4>4, Zenon
        <5>. QED BY <4>2, <5>1, Zenon
      <4>. QED BY <4>3, <4>4
    <3>6. Gathers(g, q, m)
      BY <3>4, <3>5, ZenonT(30) DEF Gathers
    <3>. QED BY <2>2, <3>6
  <2>. QED BY <2>3, <2>4
<1>. QED BY <1>1

\* One piece more.
LEMMA GatheredSteps ==
    ASSUME NEW n \in Nat, n > 0, NEW q \in [1 .. n -> Seq(Bytes)], NEW p, Gathers(p, q, n)
    PROVE  /\ p[1] = q[1] /\ \A i \in 1 .. n : i # 1 => p[i] = p[i - 1] \o q[i]
           /\ \A i \in 1 .. n : p[i] \in Seq(Bytes)
<1>1. \A i \in 1 .. n : p[i] = IF i = 1 THEN q[i] ELSE p[i - 1] \o q[i]
  BY Zenon DEF Gathers
<1>2. ASSUME NEW j \in 1 .. n, p[j] \notin Seq(Bytes)
      PROVE  FALSE
  <2>. DEFINE S == {i \in 1 .. n : p[i] \notin Seq(Bytes)}
  <2>1. j \in S /\ S \in SUBSET Nat
    BY <1>2
  <2>2. PICK m \in S : \A i \in Nat : i < m => i \notin S
    BY <2>1, LeastOf
  <2>3. m \in 1 .. n /\ p[m] \notin Seq(Bytes) /\ q[m] \in Seq(Bytes)
    BY <2>2
  <2>4. CASE m = 1
    BY <1>1, <2>3, <2>4
  <2>5. CASE m # 1
    <3>1. m - 1 \in 1 .. n /\ m - 1 \in Nat /\ m - 1 < m
      BY <2>3, <2>5
    <3>2. p[m - 1] \in Seq(Bytes)
      BY <2>2, <3>1
    <3>3. p[m] = p[m - 1] \o q[m]
      BY <1>1, <2>3, <2>5, Zenon
    <3>4. PICK a \in Seq(Bytes) : a = p[m - 1]
      BY <3>2
    <3>5. a \o q[m] \in Seq(Bytes)
      BY <2>3, <3>4, Pieces
    <3>. QED BY <2>3, <3>3, <3>4, <3>5, Zenon
  <2>. QED BY <2>4, <2>5
<1>3. 1 \in 1 .. n
  OBVIOUS
<1>. QED BY <1>1, <1>2, <1>3, Zenon

\* So FlattenSeq puts them together.
LEMMA Flattened ==
    ASSUME NEW n \in Nat, n > 0, NEW q \in Seq(Seq(Bytes)), Len(q) = n
    PROVE  \E p : Gathers(p, q, n) /\ FlattenSeq(q) = p[n]
<1>. DEFINE f == CHOOSE p : p = [i \in 1 .. Len(q) |-> IF i = 1 THEN q[i] ELSE p[i - 1] \o q[i]]
<1>1. FlattenSeq(q) = f[Len(q)]
  BY DEF FlattenSeq
<1>2. Gathers(f, q, n)
  <2>1. \E p : p = [i \in 1 .. Len(q) |-> IF i = 1 THEN q[i] ELSE p[i - 1] \o q[i]]
    BY GatheredExists, Zenon DEF Gathers
  <2>. QED BY <2>1, Zenon DEF Gathers
<1>. QED BY <1>1, <1>2, Zenon

\* A string in an answer.
Piece(s) == Append(Counted(s), Separator)

\* Its length, the string, and the separator after it.
LEMMA PieceBytes ==
    ASSUME NEW s \in Seq(Bytes)
    PROVE  /\ Piece(s) \in Seq(Bytes) /\ Len(Piece(s)) = IntLen + Len(s) + 1
           /\ <<Separator>> \in Seq(Bytes) /\ Piece(s) = Counted(s) \o <<Separator>>
<1>1. PICK c \in Seq(Bytes) : c = Counted(s) /\ Len(c) = IntLen + Len(s)
  BY CountedBytes
<1>2. Separator \in Bytes
  BY BaseAssumption DEF Separator, Bytes
<1>3. /\ Append(c, Separator) \in Seq(Bytes) /\ Len(Append(c, Separator)) = Len(c) + 1
  BY <1>1, <1>2, AppendProperties
<1>4. Append(c, Separator) = c \o <<Separator>>
  BY <1>1, <1>2, AppendIsConcat
<1>5. <<Separator>> \in Seq(Bytes)
  BY <1>2
<1>6. Piece(s) = Append(c, Separator) /\ Counted(s) = c
  BY <1>1, Zenon DEF Piece
<1>. QED BY <1>1, <1>3, <1>4, <1>5, <1>6

(***************************************************************************)
(* p[k] is an answer up to its k-th string, msg is all of it, and w[k] is  *)
(* the place where the library looks for the next.                         *)
(***************************************************************************)
Grows(p, strings, n, msg) ==
    /\ p \in [0 .. n -> Seq(Bytes)]
    /\ p[0] = serializeInt(n) /\ p[n] = msg
    /\ \A k \in 1 .. n : Joined(p[k], p[k - 1], Piece(strings[k]))

\* An answer is put together in this way.
LEMMA AnswerGrows ==
    ASSUME NEW strings \in Seq(Seq(Bytes)), strings # << >>,
           NEW n, n = Len(strings)
    PROVE  n \in Nat /\ n > 0 /\ \E p : Grows(p, strings, n, answerPayload(strings))
<1>1. /\ n \in Nat /\ n > 0 /\ DOMAIN strings = 1 .. n
      /\ \A k \in 1 .. n : strings[k] \in Seq(Bytes)
  BY LenProperties, ElementOfSeq, EmptySeq
<1>2. PICK q : q = [i \in 1 .. n |-> Piece(strings[i])]
  OBVIOUS
<1>3. q \in [1 .. n -> Seq(Bytes)]
  BY <1>1, <1>2, PieceBytes
<1>4. q \in Seq(Seq(Bytes)) /\ Len(q) = n
  BY <1>1, <1>3, SMTT(30)
<1>5. PICK g : Gathers(g, q, n) /\ FlattenSeq(q) = g[n]
  BY <1>1, <1>4, Flattened
<1>6. /\ g[1] = q[1] /\ \A i \in 1 .. n : i # 1 => g[i] = g[i - 1] \o q[i]
      /\ \A i \in 1 .. n : g[i] \in Seq(Bytes)
  BY <1>1, <1>3, <1>5, GatheredSteps
<1>7. PICK I \in Seq(Bytes) : I = serializeInt(n)
  BY <1>1, IntBytes
<1>8. answerPayload(strings) = I \o g[n]
  <2>1. q = [i \in DOMAIN strings |-> Append(Counted(strings[i]), Separator)]
    BY <1>1, <1>2, Zenon DEF Piece
  <2>. QED BY <1>5, <1>7, <2>1, Zenon DEF answerPayload
<1>9. PICK p : p = [k \in 0 .. n |-> IF k = 0 THEN I ELSE I \o g[k]]
  OBVIOUS
<1>10. p \in [0 .. n -> Seq(Bytes)] /\ p[0] = I /\ \A k \in 1 .. n : p[k] = I \o g[k]
  <2>1. ASSUME NEW k \in 1 .. n
        PROVE  I \o g[k] \in Seq(Bytes)
    <3>1. PICK a \in Seq(Bytes) : a = g[k]
      BY <1>6
    <3>2. I \o a \in Seq(Bytes)
      BY <1>7, <3>1, Pieces
    <3>. QED BY <3>1, <3>2, Zenon
  <2>2. \A k \in 0 .. n : k # 0 => k \in 1 .. n
    BY <1>1
  <2>3. 0 \in 0 .. n /\ \A k \in 1 .. n : k \in 0 .. n /\ k # 0
    BY <1>1
  <2>. QED BY <1>7, <1>9, <2>1, <2>2, <2>3, Zenon
<1>11. ASSUME NEW k \in 1 .. n
       PROVE  Joined(p[k], p[k - 1], Piece(strings[k]))
  <2>1. PICK s \in Seq(Bytes), e \in Seq(Bytes) : s = Piece(strings[k]) /\ s = q[k] /\ e = g[k]
    BY <1>1, <1>2, <1>3, <1>6
  <2>2. CASE k = 1
    <3>1. p[k - 1] = I /\ e = s
      BY <1>6, <1>10, <2>1, <2>2
    <3>2. Len(I \o e) = Len(I) + Len(e)
      BY <1>7, <2>1, Pieces
    <3>3. p[k] = I \o e
      BY <1>10, <2>1, Zenon
    <3>. QED BY <2>1, <3>1, <3>2, <3>3, Zenon DEF Joined
  <2>3. CASE k # 1
    <3>1. k - 1 \in 1 .. n
      BY <1>1, <2>3
    <3>2. PICK d \in Seq(Bytes) : d = g[k - 1]
      BY <1>6, <3>1
    <3>3. e = d \o s /\ p[k] = I \o e /\ p[k - 1] = I \o d
      BY <1>6, <1>10, <2>1, <2>3, <3>1, <3>2, Zenon
    <3>4. Glued(I, d, s)
      BY <1>7, <2>1, <3>2, PiecesAreGlued
    <3>5. p[k] = (I \o d) \o s
      BY <3>3, <3>4, Zenon DEF Glued
    <3>6. PICK c \in Seq(Bytes) : c = I \o d
      BY <1>7, <3>2, Pieces
    <3>7. Len(c \o s) = Len(c) + Len(s)
      BY <2>1, <3>6, Pieces
    <3>8. p[k] = c \o s /\ p[k - 1] = c
      BY <3>3, <3>5, <3>6, Zenon
    <3>. QED BY <2>1, <3>7, <3>8, Zenon DEF Joined
  <2>. QED BY <2>2, <2>3
<1>12. p[n] = answerPayload(strings)
  BY <1>1, <1>8, <1>10
<1>. QED BY <1>1, <1>7, <1>10, <1>11, <1>12, Zenon DEF Grows

\* Each part of it is followed by the rest.
LEMMA RestFollows ==
    ASSUME NEW n \in Nat, NEW strings, NEW msg, NEW p, Grows(p, strings, n, msg),
           \A k \in 1 .. n : strings[k] \in Seq(Bytes)
    PROVE  /\ \A k \in 0 .. n : \E y \in Seq(Bytes) : msg = p[k] \o y
           /\ \A k \in 0 .. n : Len(p[k]) >= IntLen + k
<1>0. /\ \A k \in 0 .. n : p[k] \in Seq(Bytes)
      /\ p[0] = serializeInt(n) /\ p[n] = msg
      /\ \A k \in 1 .. n : Joined(p[k], p[k - 1], Piece(strings[k]))
  BY DEF Grows
<1>1. ASSUME NEW j \in 0 .. n, ~ \E y \in Seq(Bytes) : msg = p[j] \o y
      PROVE  FALSE
  <2>. DEFINE S == {k \in 0 .. n : ~ \E y \in Seq(Bytes) : msg = p[n - k] \o y}
  <2>0. PICK i \in 0 .. n : n - i = j
    <3>1. n - j \in 0 .. n /\ n - (n - j) = j
      OBVIOUS
    <3>. QED BY <3>1
  <2>1. i \in S /\ S \in SUBSET Nat
    BY <1>1, <2>0
  <2>2. PICK m \in S : \A k \in Nat : k < m => k \notin S
    BY <2>1, LeastOf
  <2>3. m \in 0 .. n /\ ~ \E y \in Seq(Bytes) : msg = p[n - m] \o y
    BY <2>2
  <2>4. CASE m = 0
    <3>1. n - m = n /\ n \in 0 .. n
      BY <2>4
    <3>2. PICK a \in Seq(Bytes) : a = p[n]
      BY <1>0, <3>1
    <3>3. a \o << >> = a /\ << >> \in Seq(Bytes)
      BY <3>2, ConcatEmptySeq, EmptySeq
    <3>. QED BY <1>0, <2>3, <3>1, <3>2, <3>3, Zenon
  <2>5. CASE m # 0
    <3>1. PICK k \in 1 .. n : k = n - m + 1
      BY <2>3, <2>5
    <3>2. /\ m - 1 \in Nat /\ m - 1 < m /\ m - 1 \in 0 .. n
          /\ n - (m - 1) = k /\ n - m = k - 1 /\ k - 1 \in 0 .. n /\ k \in 0 .. n
      BY <2>3, <2>5, <3>1
    <3>3. m - 1 \notin S
      BY <2>2, <3>2, Zenon
    <3>4. PICK y \in Seq(Bytes) : msg = p[k] \o y
      BY <3>2, <3>3, Zenon
    <3>5. PICK a \in Seq(Bytes), s \in Seq(Bytes) : a = p[k - 1] /\ s = Piece(strings[k])
      <4>1. Piece(strings[k]) \in Seq(Bytes)
        BY <3>1, PieceBytes
      <4>. QED BY <1>0, <3>2, <4>1, Zenon
    <3>6. p[k] = a \o s
      BY <1>0, <3>1, <3>5, Zenon DEF Joined
    <3>7. Glued(a, s, y) /\ s \o y \in Seq(Bytes)
      BY <3>4, <3>5, PiecesAreGlued, Pieces
    <3>8. msg = a \o (s \o y)
      BY <3>4, <3>6, <3>7, Zenon DEF Glued
    <3>9. p[n - m] = a
      BY <3>2, <3>5
    <3>. QED BY <2>3, <3>7, <3>8, <3>9, Zenon
  <2>. QED BY <2>4, <2>5
<1>2. ASSUME NEW j \in 0 .. n, ~ (Len(p[j]) >= IntLen + j)
      PROVE  FALSE
  <2>. DEFINE S == {k \in 0 .. n : ~ (Len(p[k]) >= IntLen + k)}
  <2>1. j \in S /\ S \in SUBSET Nat
    BY <1>2
  <2>2. PICK m \in S : \A k \in Nat : k < m => k \notin S
    BY <2>1, LeastOf
  <2>3. m \in 0 .. n /\ ~ (Len(p[m]) >= IntLen + m)
    BY <2>2
  <2>4. CASE m = 0
    <3>1. Len(serializeInt(n)) = IntLen
      BY IntBytes
    <3>2. Len(p[m]) = IntLen
      BY <1>0, <2>4, <3>1, Zenon
    <3>3. IntLen >= IntLen + m
      BY <2>4 DEF IntLen
    <3>. QED BY <2>3, <3>2, <3>3, Zenon
  <2>5. CASE m # 0
    <3>1. m \in 1 .. n /\ m - 1 \in Nat /\ m - 1 < m /\ m - 1 \in 0 .. n
      BY <2>3, <2>5
    <3>2. m - 1 \notin S
      BY <2>2, <3>1, Zenon
    <3>3. Len(p[m - 1]) >= IntLen + (m - 1)
      BY <3>1, <3>2, Zenon
    <3>4. Len(p[m]) = Len(p[m - 1]) + Len(Piece(strings[m]))
      BY <1>0, <3>1, Zenon DEF Joined
    <3>5. Len(Piece(strings[m])) = IntLen + Len(strings[m]) + 1 /\ Len(strings[m]) \in Nat
      BY <3>1, PieceBytes, LenProperties
    <3>6. Len(p[m - 1]) \in Nat
      BY <1>0, <3>1, LenProperties
    <3>7. PICK before \in Nat, more \in Nat :
            before = Len(p[m - 1]) /\ more = Len(strings[m])
      BY <3>5, <3>6
    <3>8. before >= IntLen + (m - 1) /\ Len(p[m]) = before + (IntLen + more + 1)
      BY <3>3, <3>4, <3>5, <3>7, Zenon
    <3>9. before + (IntLen + more + 1) >= IntLen + m
      <4>1. before \in Nat /\ more \in Nat /\ m \in Int /\ before >= IntLen + (m - 1)
        BY <3>1, <3>7, <3>8
      <4>. QED BY <4>1 DEF IntLen
    <3>. QED BY <2>3, <3>8, <3>9, Zenon
  <2>. QED BY <2>4, <2>5
<1>. QED BY <1>1, <1>2, Zenon

\* The library finds what the worker has put together.
LEMMA AnswerRoundTrip ==
    ASSUME NEW strings \in FileArrays
    PROVE  /\ answerPayload(strings) \in Seq(Bytes) /\ Len(answerPayload(strings)) > 0
           /\ Fits(answerPayload(strings)) /\ strings # << >>
           /\ Strings(answerPayload(strings)) = strings
<1>0. strings \in Seq(Seq(Bytes)) /\ strings # << >> /\ Fits(answerPayload(strings))
  BY PartsAssumption, LengthsFitAssumption DEF Fits
<1>1. PICK n \in Nat, msg \in {answerPayload(strings)} : n = Len(strings) /\ msg = answerPayload(strings)
  BY <1>0, LenProperties
<1>2. n > 0 /\ \E p : Grows(p, strings, n, msg)
  BY <1>0, <1>1, AnswerGrows
<1>3. PICK p : Grows(p, strings, n, msg)
  BY <1>2
<1>4. /\ \A k \in 0 .. n : p[k] \in Seq(Bytes)
      /\ p[0] = serializeInt(n) /\ p[n] = msg
      /\ \A k \in 1 .. n : Joined(p[k], p[k - 1], Piece(strings[k]))
  BY <1>3 DEF Grows
<1>5. DOMAIN strings = 1 .. n /\ \A k \in 1 .. n : strings[k] \in Seq(Bytes)
  BY <1>0, <1>1, LenProperties, ElementOfSeq
<1>6. /\ \A k \in 0 .. n : \E y \in Seq(Bytes) : msg = p[k] \o y
      /\ \A k \in 0 .. n : Len(p[k]) >= IntLen + k
  BY <1>3, <1>5, RestFollows
<1>7. msg \in Seq(Bytes) /\ Len(msg) \in Nat /\ Len(msg) >= 4 + n /\ 2 * Len(msg) < IntRange
      /\ IntRange \in Int
  <2>1. n \in 0 .. n
    BY <1>1
  <2>2. msg \in Seq(Bytes) /\ Len(msg) >= IntLen + n
    BY <1>4, <1>6, <2>1, Zenon
  <2>3. IntRange \in Int
    BY BaseAssumption DEF IntRange
  <2>4. Len(msg) \in Nat
    BY <2>2, LenProperties
  <2>. QED BY <1>0, <1>1, <2>2, <2>3, <2>4 DEF Fits, IntLen
<1>8. n \in Ints
  BY <1>1, <1>7 DEF Ints
<1>9. IntAfter(msg, 0) = n
  <2>1. PICK y \in Seq(Bytes) : msg = serializeInt(n) \o y
    <3>1. 0 \in 0 .. n
      BY <1>1
    <3>. QED BY <1>4, <1>6, <3>1, Zenon
  <2>2. PICK I \in Seq(Bytes) : I = serializeInt(n)
    BY <1>1, IntBytes
  <2>3. I \o y \in Seq(Bytes) /\ << >> \in Seq(Bytes) /\ Len(<< >>) = 0
    BY <2>1, <2>2, Pieces, EmptySeq
  <2>4. << >> \o (I \o y) = I \o y
    BY <2>3, ConcatEmptySeq
  <2>5. IntAfter(<< >> \o (serializeInt(n) \o y), Len(<< >>)) = n
    BY <1>8, <2>1, <2>3, IntAt
  <2>. QED BY <2>1, <2>2, <2>3, <2>4, <2>5, Zenon
<1>10. ASSUME NEW k \in 1 .. n
       PROVE  /\ Written(msg, Len(p[k - 1]), strings[k])
              /\ Len(p[k]) = Len(p[k - 1]) + IntLen + IntAfter(msg, Len(p[k - 1])) + 1
  <2>1. k - 1 \in 0 .. n /\ k \in 0 .. n
    OBVIOUS
  <2>2. PICK y \in Seq(Bytes) : msg = p[k] \o y
    BY <1>6, <2>1
  <2>3. PICK a \in Seq(Bytes), s \in Seq(Bytes), c \in Seq(Bytes), Z \in Seq(Bytes) :
          /\ a = p[k - 1] /\ s = strings[k] /\ c = Counted(s) /\ Z = <<Separator>>
          /\ Piece(s) = c \o Z /\ Len(Piece(s)) = IntLen + Len(s) + 1
    <3>1. p[k - 1] \in Seq(Bytes) /\ strings[k] \in Seq(Bytes)
      BY <1>4, <1>5, <2>1, Zenon
    <3>2. /\ Counted(strings[k]) \in Seq(Bytes) /\ <<Separator>> \in Seq(Bytes)
          /\ Piece(strings[k]) = Counted(strings[k]) \o <<Separator>>
          /\ Len(Piece(strings[k])) = IntLen + Len(strings[k]) + 1
      BY <3>1, CountedBytes, PieceBytes
    <3>. QED BY <3>1, <3>2, Zenon
  <2>4. a \in Seq(Bytes) /\ s \in Seq(Bytes) /\ c \in Seq(Bytes) /\ Z \in Seq(Bytes) /\ y \in Seq(Bytes)
    BY <2>2, <2>3, Zenon
  <2>5. PICK e \in Seq(Bytes), d \in Seq(Bytes) : e = Z \o y /\ d = c \o Z
    BY <2>4, Pieces
  <2>6. Glued(a, d, y) /\ Glued(c, Z, y)
    BY <2>4, <2>5, PiecesAreGlued
  <2>7. p[k] = a \o d /\ Len(p[k]) = Len(a) + Len(Piece(s))
    BY <1>4, <2>3, <2>5, Zenon DEF Joined
  <2>8. msg = a \o (Counted(s) \o e)
    BY <2>2, <2>3, <2>5, <2>6, <2>7, Zenon DEF Glued
  <2>9. Fits(s)
    <3>1. c \o e \in Seq(Bytes) /\ Len(c) = IntLen + Len(s)
      BY <2>3, <2>4, <2>5, CountedBytes, Pieces
    <3>2. Len(msg) = Len(a) + Len(c \o e) /\ Len(c \o e) = Len(c) + Len(e)
      BY <2>3, <2>4, <2>5, <2>8, <3>1, Pieces
    <3>3. Len(a) \in Nat /\ Len(s) \in Nat /\ Len(e) \in Nat
      BY <2>4, <2>5, LenProperties
    <3>. QED BY <1>7, <3>1, <3>2, <3>3 DEF IntLen, Fits
  <2>10. e \in Seq(Bytes) /\ Written(a \o (Counted(s) \o e), Len(a), s)
    BY <2>4, <2>5, <2>9, PartAt
  <2>11. Written(msg, Len(a), s)
    BY <2>8, <2>10, Zenon
  <2>12. Len(p[k]) = Len(a) + (IntLen + Len(s) + 1) /\ IntAfter(msg, Len(a)) = Len(s)
    BY <2>3, <2>7, <2>11, Zenon DEF Written
  <2>13. Len(a) \in Nat /\ Len(s) \in Nat
    BY <2>4, LenProperties
  <2>14. Len(a) + (IntLen + Len(s) + 1) = Len(a) + IntLen + Len(s) + 1
    BY <2>13 DEF IntLen
  <2>. QED BY <2>3, <2>11, <2>12, <2>14, Zenon
<1>. DEFINE after == CHOOSE x : x = [k \in 0 .. n |-> IF k = 0 THEN IntLen
                                     ELSE x[k - 1] + IntLen + IntAfter(msg, x[k - 1]) + 1]
<1>11. Strings(msg) = [k \in 1 .. n |-> PartAfter(msg, after[k - 1])]
  <2>. DEFINE found(m) == CHOOSE x : x = [k \in 0 .. m |-> IF k = 0 THEN IntLen
                                          ELSE x[k - 1] + IntLen + IntAfter(msg, x[k - 1]) + 1]
  <2>1. Strings(msg) = [k \in 1 .. IntAfter(msg, 0) |-> PartAfter(msg, found(IntAfter(msg, 0))[k - 1])]
    BY DEF Strings
  <2>2. after = found(n)
    OBVIOUS
  <2>. HIDE DEF found, after
  <2>. QED BY <1>9, <2>1, <2>2, Zenon
<1>12. PICK w : w = [k \in 0 .. n |-> Len(p[k])]
  OBVIOUS
<1>13. Len(p[0]) = IntLen
  BY <1>1, <1>4, IntBytes
<1>14. w = [k \in 0 .. n |-> IF k = 0 THEN IntLen
                             ELSE w[k - 1] + IntLen + IntAfter(msg, w[k - 1]) + 1]
  <2>1. ASSUME NEW k \in 0 .. n
        PROVE  w[k] = IF k = 0 THEN IntLen ELSE w[k - 1] + IntLen + IntAfter(msg, w[k - 1]) + 1
    <3>1. CASE k = 0
      BY <1>12, <1>13, <3>1
    <3>2. CASE k # 0
      <4>1. k \in 1 .. n /\ k - 1 \in 0 .. n
        BY <3>2
      <4>2. w[k] = Len(p[k]) /\ w[k - 1] = Len(p[k - 1])
        BY <1>12, <4>1, Zenon
      <4>. QED BY <1>10, <3>2, <4>1, <4>2, Zenon
    <3>. QED BY <3>1, <3>2
  <2>. QED BY <1>12, <2>1, Zenon
<1>15. after = [k \in 0 .. n |-> IF k = 0 THEN IntLen
                                 ELSE after[k - 1] + IntLen + IntAfter(msg, after[k - 1]) + 1]
  BY <1>14
<1>. HIDE DEF after
<1>16. \A k \in 0 .. n : after[k] = w[k]
  <2>1. ASSUME NEW j \in 0 .. n, after[j] # w[j]
        PROVE  FALSE
    <3>. DEFINE S == {k \in 0 .. n : after[k] # w[k]}
    <3>1. j \in S /\ S \in SUBSET Nat
      BY <2>1
    <3>2. PICK m \in S : \A k \in Nat : k < m => k \notin S
      BY <3>1, LeastOf
    <3>3. m \in 0 .. n /\ after[m] # w[m]
      BY <3>2
    <3>4. m # 0 => m - 1 \in 0 .. n /\ m - 1 \in Nat /\ m - 1 < m
      BY <3>3
    <3>5. m # 0 => after[m - 1] = w[m - 1]
      BY <3>2, <3>4, Zenon
    <3>6. after[m] = IF m = 0 THEN IntLen ELSE after[m - 1] + IntLen + IntAfter(msg, after[m - 1]) + 1
      BY <1>15, <3>3, Zenon
    <3>7. w[m] = IF m = 0 THEN IntLen ELSE w[m - 1] + IntLen + IntAfter(msg, w[m - 1]) + 1
      BY <1>14, <3>3, Zenon
    <3>. QED BY <3>3, <3>5, <3>6, <3>7, Zenon
  <2>. QED BY <2>1
<1>17. ASSUME NEW k \in 1 .. n
       PROVE  PartAfter(msg, after[k - 1]) = strings[k]
  <2>1. k - 1 \in 0 .. n
    OBVIOUS
  <2>2. after[k - 1] = Len(p[k - 1])
    BY <1>12, <1>16, <2>1
  <2>. QED BY <1>10, <2>2, Zenon DEF Written
<1>18. strings = [k \in 1 .. n |-> strings[k]]
  BY <1>0, <1>5
<1>19. Strings(msg) = strings
  BY <1>11, <1>17, <1>18, Zenon
<1>20. Len(msg) > 0
  BY <1>1, <1>7
<1>. QED BY <1>0, <1>1, <1>7, <1>19, <1>20, Zenon

----------------------------------------------------------------------------
(* The invariant.                                                          *)

Up == server # "down"
Connected == connection \in {"backlog", "accepted"}

\* A call whose request has not been read yet.
Asking == call # Nothing /\ request = Nothing

\* What has been read, what is in the socket and what is still to be written make up m.
MakeUp(read, socket, rest, m) == read \o (socket \o rest) = m

\* The beginning of a part of n bytes.
Begins(read, n) == Len(read) < n

WireTypes ==
    /\ server \in {"starting", "listening", "draining", "stopping", "down"}
    /\ connection \in {"none", "backlog", "accepted", "closing", "closed"}
    /\ toServer \in Seq(Bytes) /\ toClient \in Seq(Bytes) /\ reset \in BOOLEAN
    /\ api \in {"connecting", "sleeping", "idle", "writing", "header", "payload", "gone"}
    /\ call \in Requests \cup {Nothing}
    /\ out \in Seq(Bytes) /\ got \in Seq(Bytes) /\ payload \in Int
    /\ worker \in {"away", "header", "payload", "performing", "waiting", "answering"}
    /\ in \in Seq(Bytes) /\ msgSize \in Int
    /\ request \in Requests \cup {Nothing} /\ given \in Answers \cup {Nothing}
    /\ reply \in Seq(Bytes)

(***************************************************************************)
(* Where the two ends are, and the connection between them.  A connection  *)
(* is closed when no request is left to read, or not all of it has been    *)
(* sent and its client has gone.                                           *)
(***************************************************************************)
Places ==
    /\ ~Up => connection = "closed" /\ toServer = << >> /\ worker \in {"away", "waiting"}
    /\ api = "idle" \/ Calling => Connected \/ ~Up
    /\ connection = "none" => api \in {"connecting", "sleeping", "gone"}
    /\ api \in {"connecting", "sleeping"} => connection \in {"none", "closed"}
    /\ connection = "none" \/ api \in {"connecting", "sleeping"} => call = Nothing
    /\ call = Nothing => ~Calling /\ request = Nothing
    /\ reset => api = "gone" /\ request # Nothing
    /\ connection = "closing" =>
         api = "gone" /\ ~reset /\ worker = "away" /\ (Asking => out # << >>)

\* The bytes of a request, until the worker has read the last of them.
RequestOnItsWay ==
    Asking /\ Connected =>
        /\ api # "idle" /\ given = Nothing
        /\ worker \in {"away", "header", "payload"}
        /\ worker # "payload" => /\ MakeUp(in, toServer, out, Counted(requestPayload(call)))
                                 /\ Begins(in, IntLen)
        /\ worker = "payload" => /\ MakeUp(in, toServer, out, requestPayload(call))
                                 /\ msgSize = Len(requestPayload(call)) /\ Begins(in, msgSize)

RequestTaken ==
    /\ request # Nothing => request = call /\ out = << >>
    /\ given # Nothing => request # Nothing
    /\ ~Asking => toServer = << >>
    /\ in # << >> => worker \in {"header", "payload"}
    /\ api = "writing" => Asking /\ out # << >>

\* The bytes of an answer, from when it is given until the library has read the last of them.
AnswerOnItsWay ==
    /\ given = Nothing => toClient = << >> /\ got = << >> /\ reply = << >> /\ api # "payload"
    /\ given # Nothing /\ api = "header" =>
          MakeUp(got, toClient, reply, answerMessage(given)) /\ Begins(got, IntLen)
    /\ given # Nothing /\ api = "payload" =>
          /\ given.strings # << >>
          /\ MakeUp(got, toClient, reply, answerPayload(given.strings))
          /\ payload = Len(answerPayload(given.strings)) /\ Begins(got, payload)
    /\ api = "idle" => toClient = << >> /\ got = << >> /\ reply = << >>
    /\ call = Nothing => result = Nothing
    /\ api = "idle" /\ result # Nothing => result = given \/ (result = Lost /\ ~Up)

WorkerKnows ==
    /\ reply # << >> <=> worker = "answering"
    /\ worker = "answering" => given # Nothing
    /\ worker \in {"performing", "waiting"} /\ Up => request # Nothing /\ given = Nothing
    /\ worker # "away" /\ Up => connection = "accepted"
    /\ worker = "payload" => Asking
    /\ worker = "header" => Asking \/ api = "gone"
    /\ api = "idle" /\ Up => call = Nothing \/ given # Nothing

WireInv ==
    /\ WireTypes /\ Places /\ RequestOnItsWay /\ RequestTaken /\ AnswerOnItsWay /\ WorkerKnows

----------------------------------------------------------------------------
(* Steps that move no bytes.                                               *)

\* What is known of the constants.
LEMMA NothingElse ==
    /\ Nothing \notin Requests /\ Nothing \notin Answers
    /\ << >> \in Seq(Bytes) /\ Ok \in Answers /\ Ko \in Answers
BY PartsAssumption, EmptySeq DEF Answers

\* A message of which only the beginning has been read, and nothing is in the socket.
LEMMA RestIsUnsent ==
    ASSUME NEW read \in Seq(Bytes), NEW rest \in Seq(Bytes), NEW n \in Int,
           NEW m \in Seq(Bytes), Len(m) >= n, Begins(read, n), MakeUp(read, << >>, rest, m)
    PROVE  rest # << >>
<1>. SUFFICES ASSUME rest = << >> PROVE FALSE
  OBVIOUS
<1>1. << >> \o rest = << >> /\ read \o << >> = read
  BY ConcatEmptySeq
<1>2. read = m
  BY <1>1, Zenon DEF MakeUp
<1>3. Len(m) \in Nat
  BY LenProperties
<1>. QED BY <1>2, <1>3 DEF Begins

\* The length of a request and of the message it is sent in.
LEMMA RequestBytes ==
    ASSUME NEW r \in Requests
    PROVE  /\ requestPayload(r) \in Seq(Bytes) /\ Len(requestPayload(r)) \in Nat
           /\ Len(requestPayload(r)) > 0 /\ Fits(requestPayload(r))
           /\ Counted(requestPayload(r)) \in Seq(Bytes)
           /\ Len(Counted(requestPayload(r))) = IntLen + Len(requestPayload(r))
BY RequestRoundTrip, RequestParts, CountedBytes, LenProperties

\* Nothing is on its way at the start.
LEMMA InitEstablishes == Init => WireInv
<1>. SUFFICES ASSUME Init PROVE WireInv
  OBVIOUS
<1>. USE NothingElse DEF Init
<1>1. WireTypes
  <2>1. reset \in BOOLEAN
    OBVIOUS
  <2>. QED BY <2>1 DEF WireTypes
<1>2. Places
  BY DEF Places, Up, Calling, Connected, Asking
<1>3. RequestOnItsWay
  BY DEF RequestOnItsWay, Asking, Connected
<1>4. RequestTaken
  BY DEF RequestTaken, Asking
<1>5. AnswerOnItsWay
  BY DEF AnswerOnItsWay, Up
<1>6. WorkerKnows
  BY DEF WorkerKnows, Up, Asking
<1>. QED BY <1>1, <1>2, <1>3, <1>4, <1>5, <1>6 DEF WireInv

\* Listening, and an attempt to connect.
LEMMA ListenKeeps ==
    ASSUME WireInv, Listen
    PROVE  WireInv'
<1>. USE NothingElse DEF WireInv, Listen, connecting, library, serving
<1>1. WireTypes'
  BY DEF WireTypes
<1>2. Places'
  BY DEF WireTypes, Places, RequestOnItsWay, RequestTaken, WorkerKnows, Up, Calling, Connected, Asking
<1>3. RequestOnItsWay'
  BY DEF WireTypes, Places, RequestOnItsWay, RequestTaken, WorkerKnows, Up, Calling, Connected, Asking
<1>4. RequestTaken'
  BY DEF WireTypes, Places, RequestTaken, WorkerKnows, Up, Calling, Asking
<1>5. AnswerOnItsWay'
  BY DEF WireTypes, Places, RequestTaken, AnswerOnItsWay, WorkerKnows, Up, Calling, Asking
<1>6. WorkerKnows'
  BY DEF WireTypes, Places, RequestTaken, AnswerOnItsWay, WorkerKnows, Up, Calling, Connected, Asking
<1>. QED BY <1>1, <1>2, <1>3, <1>4, <1>5, <1>6 DEF WireInv

\* A client that has connected has not called yet.
LEMMA ConnectKeeps ==
    ASSUME WireInv, Connect
    PROVE  WireInv'
<1>. USE NothingElse DEF WireInv, Connect, connecting, library, serving
<1>1. WireTypes'
  BY DEF WireTypes
<1>2. Places'
  BY DEF WireTypes, Places, RequestOnItsWay, RequestTaken, WorkerKnows, Up, Calling, Connected, Asking
<1>3. RequestOnItsWay'
  BY DEF WireTypes, Places, RequestOnItsWay, RequestTaken, WorkerKnows, Up, Calling, Connected, Asking
<1>4. RequestTaken'
  BY DEF WireTypes, Places, RequestTaken, WorkerKnows, Up, Calling, Asking
<1>5. AnswerOnItsWay'
  BY DEF WireTypes, Places, RequestTaken, AnswerOnItsWay, WorkerKnows, Up, Calling, Asking
<1>6. WorkerKnows'
  BY DEF WireTypes, Places, RequestTaken, AnswerOnItsWay, WorkerKnows, Up, Calling, Connected, Asking
<1>. QED BY <1>1, <1>2, <1>3, <1>4, <1>5, <1>6 DEF WireInv

\* openConnection tries again, or gives up.
LEMMA SleepOverKeeps ==
    ASSUME WireInv, SleepOver
    PROVE  WireInv'
<1>. USE NothingElse DEF WireInv, SleepOver, connecting, library, serving
<1>1. WireTypes'
  BY DEF WireTypes
<1>2. Places'
  BY DEF WireTypes, Places, RequestOnItsWay, RequestTaken, WorkerKnows, Up, Calling, Connected, Asking
<1>3. RequestOnItsWay'
  BY DEF WireTypes, Places, RequestOnItsWay, RequestTaken, WorkerKnows, Up, Calling, Connected, Asking
<1>4. RequestTaken'
  BY DEF WireTypes, Places, RequestTaken, WorkerKnows, Up, Calling, Asking
<1>5. AnswerOnItsWay'
  BY DEF WireTypes, Places, RequestTaken, AnswerOnItsWay, WorkerKnows, Up, Calling, Asking
<1>6. WorkerKnows'
  BY DEF WireTypes, Places, RequestTaken, AnswerOnItsWay, WorkerKnows, Up, Calling, Connected, Asking
<1>. QED BY <1>1, <1>2, <1>3, <1>4, <1>5, <1>6 DEF WireInv

\* A connection is accepted before anything of it is read.
LEMMA AcceptKeeps ==
    ASSUME WireInv, Accept
    PROVE  WireInv'
<1>. USE NothingElse DEF WireInv, Accept, connecting, library, serving
<1>1. WireTypes'
  BY DEF WireTypes
<1>2. Places'
  BY DEF WireTypes, Places, RequestOnItsWay, RequestTaken, WorkerKnows, Up, Calling, Connected, Asking
<1>3. RequestOnItsWay'
  BY DEF WireTypes, Places, RequestOnItsWay, RequestTaken, WorkerKnows, Up, Calling, Connected, Asking
<1>4. RequestTaken'
  BY DEF WireTypes, Places, RequestTaken, WorkerKnows, Up, Calling, Asking
<1>5. AnswerOnItsWay'
  BY DEF WireTypes, Places, RequestTaken, AnswerOnItsWay, WorkerKnows, Up, Calling, Asking
<1>6. WorkerKnows'
  BY DEF WireTypes, Places, RequestTaken, AnswerOnItsWay, WorkerKnows, Up, Calling, Connected, Asking
<1>. QED BY <1>1, <1>2, <1>3, <1>4, <1>5, <1>6 DEF WireInv

\* Main leaves its loop.
LEMMA SignalKeeps ==
    ASSUME WireInv, Signal
    PROVE  WireInv'
<1>. USE NothingElse DEF WireInv, Signal, connecting, library, serving
<1>1. WireTypes'
  BY DEF WireTypes
<1>2. Places'
  BY DEF WireTypes, Places, RequestOnItsWay, RequestTaken, WorkerKnows, Up, Calling, Connected, Asking
<1>3. RequestOnItsWay'
  BY DEF WireTypes, Places, RequestOnItsWay, RequestTaken, WorkerKnows, Up, Calling, Connected, Asking
<1>4. RequestTaken'
  BY DEF WireTypes, Places, RequestTaken, WorkerKnows, Up, Calling, Asking
<1>5. AnswerOnItsWay'
  BY DEF WireTypes, Places, RequestTaken, AnswerOnItsWay, WorkerKnows, Up, Calling, Asking
<1>6. WorkerKnows'
  BY DEF WireTypes, Places, RequestTaken, AnswerOnItsWay, WorkerKnows, Up, Calling, Connected, Asking
<1>. QED BY <1>1, <1>2, <1>3, <1>4, <1>5, <1>6 DEF WireInv

\* With the process, what the socket held for it is gone.
LEMMA ExitKeeps ==
    ASSUME WireInv, Exit
    PROVE  WireInv'
<1>. USE NothingElse DEF WireInv, Exit, connecting, library, serving
<1>1. WireTypes'
  BY DEF WireTypes
<1>2. Places'
  BY DEF WireTypes, Places, RequestOnItsWay, RequestTaken, WorkerKnows, Up, Calling, Connected, Asking
<1>3. RequestOnItsWay'
  BY DEF WireTypes, Places, RequestOnItsWay, RequestTaken, WorkerKnows, Up, Calling, Connected, Asking
<1>4. RequestTaken'
  BY DEF WireTypes, Places, RequestTaken, WorkerKnows, Up, Calling, Asking
<1>5. AnswerOnItsWay'
  BY DEF WireTypes, Places, RequestTaken, AnswerOnItsWay, WorkerKnows, Up, Calling, Asking
<1>6. WorkerKnows'
  BY DEF WireTypes, Places, RequestTaken, AnswerOnItsWay, WorkerKnows, Up, Calling, Connected, Asking
<1>. QED BY <1>1, <1>2, <1>3, <1>4, <1>5, <1>6 DEF WireInv

\* The client goes in the middle of a call or between two.
LEMMA LeaveKeeps ==
    ASSUME WireInv, Leave
    PROVE  WireInv'
<1>. USE NothingElse DEF WireInv, Leave, Calling, connecting, library, serving
<1>1. WireTypes'
  BY DEF WireTypes
<1>2. Places'
  BY DEF WireTypes, Places, RequestTaken, AnswerOnItsWay, Up, Calling, Connected, Asking
<1>3. RequestOnItsWay'
  BY DEF WireTypes, Places, RequestOnItsWay, RequestTaken, WorkerKnows, Up, Calling, Connected, Asking
<1>4. RequestTaken'
  BY DEF WireTypes, Places, RequestTaken, WorkerKnows, Up, Calling, Asking
<1>5. AnswerOnItsWay'
  BY DEF WireTypes, Places, RequestTaken, AnswerOnItsWay, WorkerKnows, Up, Calling, Asking
<1>6. WorkerKnows'
  BY DEF WireTypes, Places, RequestTaken, AnswerOnItsWay, WorkerKnows, Up, Calling, Connected, Asking
<1>. QED BY <1>1, <1>2, <1>3, <1>4, <1>5, <1>6 DEF WireInv

\* Nothing that could be read is left when the descriptor is closed.
LEMMA CloseKeeps ==
    ASSUME WireInv, Close
    PROVE  WireInv'
<1>. USE NothingElse DEF WireInv, Close, connecting, library, serving
<1>1. WireTypes'
  BY DEF WireTypes
<1>2. Places'
  BY DEF WireTypes, Places, RequestOnItsWay, RequestTaken, WorkerKnows, Up, Calling, Connected, Asking
<1>3. RequestOnItsWay'
  BY DEF WireTypes, Places, RequestOnItsWay, RequestTaken, WorkerKnows, Up, Calling, Connected, Asking
<1>4. RequestTaken'
  BY DEF WireTypes, Places, RequestTaken, WorkerKnows, Up, Calling, Asking
<1>5. AnswerOnItsWay'
  BY DEF WireTypes, Places, RequestTaken, AnswerOnItsWay, WorkerKnows, Up, Calling, Asking
<1>6. WorkerKnows'
  BY DEF WireTypes, Places, RequestTaken, AnswerOnItsWay, WorkerKnows, Up, Calling, Connected, Asking
<1>. QED BY <1>1, <1>2, <1>3, <1>4, <1>5, <1>6 DEF WireInv

\* The client dies of SIGPIPE with a request half written.
LEMMA BrokenPipeKeeps ==
    ASSUME WireInv, BrokenPipe
    PROVE  WireInv'
<1>. USE NothingElse DEF WireInv, BrokenPipe, connecting, library, serving
<1>1. WireTypes'
  BY DEF WireTypes
<1>2. Places'
  BY DEF WireTypes, Places, RequestOnItsWay, RequestTaken, WorkerKnows, Up, Calling, Connected, Asking
<1>3. RequestOnItsWay'
  BY DEF WireTypes, Places, RequestOnItsWay, RequestTaken, WorkerKnows, Up, Calling, Connected, Asking
<1>4. RequestTaken'
  BY DEF WireTypes, Places, RequestTaken, WorkerKnows, Up, Calling, Asking
<1>5. AnswerOnItsWay'
  BY DEF WireTypes, Places, RequestTaken, AnswerOnItsWay, WorkerKnows, Up, Calling, Asking
<1>6. WorkerKnows'
  BY DEF WireTypes, Places, RequestTaken, AnswerOnItsWay, WorkerKnows, Up, Calling, Connected, Asking
<1>. QED BY <1>1, <1>2, <1>3, <1>4, <1>5, <1>6 DEF WireInv

\* The call returns that the answer is lost: the server is down.
LEMMA AnswerLostKeeps ==
    ASSUME WireInv, AnswerLost
    PROVE  WireInv'
<1>. USE NothingElse DEF WireInv, AnswerLost, Returns, Lost, connecting, library, serving
<1>1. WireTypes'
  BY DEF WireTypes
<1>2. Places'
  BY DEF WireTypes, Places, RequestOnItsWay, RequestTaken, WorkerKnows, Up, Calling, Connected, Asking
<1>3. RequestOnItsWay'
  BY DEF WireTypes, Places, RequestOnItsWay, RequestTaken, WorkerKnows, Up, Calling, Connected, Asking
<1>4. RequestTaken'
  BY DEF WireTypes, Places, RequestTaken, WorkerKnows, Up, Calling, Asking
<1>5. AnswerOnItsWay'
  BY DEF WireTypes, Places, RequestTaken, AnswerOnItsWay, WorkerKnows, Up, Calling, Asking
<1>6. WorkerKnows'
  BY DEF WireTypes, Places, RequestTaken, AnswerOnItsWay, WorkerKnows, Up, Calling, Connected, Asking
<1>. QED BY <1>1, <1>2, <1>3, <1>4, <1>5, <1>6 DEF WireInv

\* A worker begins with a length, before any byte of it is read.
LEMMA PickKeeps ==
    ASSUME WireInv, Pick
    PROVE  WireInv'
<1>. USE NothingElse DEF WireInv, Pick, WorkerGoes, connecting, library, serving
<1>1. WireTypes'
  BY DEF WireTypes
<1>2. Places'
  BY DEF WireTypes, Places, RequestOnItsWay, RequestTaken, WorkerKnows, Up, Calling, Connected, Asking
<1>3. RequestOnItsWay'
  BY DEF WireTypes, Places, RequestOnItsWay, RequestTaken, WorkerKnows, Up, Calling, Connected, Asking
<1>4. RequestTaken'
  BY DEF WireTypes, Places, RequestTaken, WorkerKnows, Up, Calling, Asking
<1>5. AnswerOnItsWay'
  BY DEF WireTypes, Places, RequestTaken, AnswerOnItsWay, WorkerKnows, Up, Calling, Asking
<1>6. WorkerKnows'
  BY DEF WireTypes, Places, RequestTaken, AnswerOnItsWay, WorkerKnows, Up, Calling, Connected, Asking
<1>. QED BY <1>1, <1>2, <1>3, <1>4, <1>5, <1>6 DEF WireInv

\* A worker gives up a message the rest of which will not come.
LEMMA ReadFailsKeeps ==
    ASSUME WireInv, ReadFails
    PROVE  WireInv'
<1>. USE NothingElse DEF WireInv, ReadFails, WorkerGoes, connecting, library, serving
<1>1. WireTypes'
  BY DEF WireTypes
<1>2. Places'
  <2>1. Asking => out # << >>
    <3>. SUFFICES ASSUME Asking PROVE out # << >>
      OBVIOUS
    <3>1. call \in Requests /\ in \in Seq(Bytes) /\ out \in Seq(Bytes) /\ toServer = << >>
      BY DEF WireTypes, Asking
    <3>2. Connected
      BY DEF Connected, WorkerKnows, Up
    <3>3. PICK p \in Seq(Bytes), m \in Seq(Bytes) :
            /\ p = requestPayload(call) /\ m = Counted(p) /\ Len(p) \in Nat /\ Len(p) > 0
            /\ Len(m) = IntLen + Len(p)
      BY <3>1, RequestBytes
    <3>4. CASE worker = "payload"
      <4>1. MakeUp(in, << >>, out, p) /\ Begins(in, Len(p))
        BY <3>1, <3>2, <3>3, <3>4, Zenon DEF RequestOnItsWay
      <4>2. Len(p) \in Int /\ Len(p) >= Len(p)
        BY <3>3
      <4>. QED BY <3>1, <4>1, <4>2, RestIsUnsent
    <3>5. CASE worker # "payload"
      <4>1. MakeUp(in, << >>, out, m) /\ Begins(in, IntLen)
        BY <3>1, <3>2, <3>3, <3>5, Zenon DEF RequestOnItsWay
      <4>2. IntLen \in Int /\ Len(m) >= IntLen
        BY <3>3 DEF IntLen
      <4>. QED BY <3>1, <4>1, <4>2, RestIsUnsent
    <3>. QED BY <3>4, <3>5
  <2>. QED BY <2>1 DEF WireTypes, Places, RequestTaken, WorkerKnows, Up, Calling, Connected, Asking
<1>3. RequestOnItsWay'
  BY DEF WireTypes, Places, RequestOnItsWay, RequestTaken, WorkerKnows, Up, Calling, Connected, Asking
<1>4. RequestTaken'
  BY DEF WireTypes, Places, RequestTaken, WorkerKnows, Up, Calling, Asking
<1>5. AnswerOnItsWay'
  BY DEF WireTypes, Places, RequestTaken, AnswerOnItsWay, WorkerKnows, Up, Calling, Asking
<1>6. WorkerKnows'
  BY DEF WireTypes, Places, RequestTaken, AnswerOnItsWay, WorkerKnows, Up, Calling, Connected, Asking
<1>. QED BY <1>1, <1>2, <1>3, <1>4, <1>5, <1>6 DEF WireInv

\* The request is left to the notifier.
LEMMA QueueKeeps ==
    ASSUME WireInv, Queue
    PROVE  WireInv'
<1>. USE NothingElse DEF WireInv, Queue, WorkerGoes, connecting, library, serving
<1>1. WireTypes'
  BY DEF WireTypes
<1>2. Places'
  BY DEF WireTypes, Places, RequestOnItsWay, RequestTaken, WorkerKnows, Up, Calling, Connected, Asking
<1>3. RequestOnItsWay'
  BY DEF WireTypes, Places, RequestOnItsWay, RequestTaken, WorkerKnows, Up, Calling, Connected, Asking
<1>4. RequestTaken'
  BY DEF WireTypes, Places, RequestTaken, WorkerKnows, Up, Calling, Asking
<1>5. AnswerOnItsWay'
  BY DEF WireTypes, Places, RequestTaken, AnswerOnItsWay, WorkerKnows, Up, Calling, Asking
<1>6. WorkerKnows'
  BY DEF WireTypes, Places, RequestTaken, AnswerOnItsWay, WorkerKnows, Up, Calling, Connected, Asking
<1>. QED BY <1>1, <1>2, <1>3, <1>4, <1>5, <1>6 DEF WireInv

\* The rest of an answer is given up with its client.
LEMMA WriteFailsKeeps ==
    ASSUME WireInv, WriteFails
    PROVE  WireInv'
<1>. USE NothingElse DEF WireInv, WriteFails, WorkerGoes, connecting, library, serving
<1>1. WireTypes'
  BY DEF WireTypes
<1>2. Places'
  BY DEF WireTypes, Places, RequestOnItsWay, RequestTaken, WorkerKnows, Up, Calling, Connected, Asking
<1>3. RequestOnItsWay'
  BY DEF WireTypes, Places, RequestOnItsWay, RequestTaken, WorkerKnows, Up, Calling, Connected, Asking
<1>4. RequestTaken'
  BY DEF WireTypes, Places, RequestTaken, WorkerKnows, Up, Calling, Asking
<1>5. AnswerOnItsWay'
  BY DEF WireTypes, Places, RequestTaken, AnswerOnItsWay, WorkerKnows, Up, Calling, Asking
<1>6. WorkerKnows'
  BY DEF WireTypes, Places, RequestTaken, AnswerOnItsWay, WorkerKnows, Up, Calling, Connected, Asking
<1>. QED BY <1>1, <1>2, <1>3, <1>4, <1>5, <1>6 DEF WireInv

----------------------------------------------------------------------------
(* Steps that move bytes.                                                  *)

\* One read: what is in the socket goes over to what has been read.
LEMMA ReadMoves ==
    ASSUME NEW read \in Seq(Bytes), NEW socket \in Seq(Bytes), NEW rest \in Seq(Bytes), NEW m,
           MakeUp(read, socket, rest, m), NEW k \in 1 .. Len(socket)
    PROVE  /\ read \o First(k, socket) \in Seq(Bytes) /\ After(k, socket) \in Seq(Bytes)
           /\ Len(read \o First(k, socket)) = Len(read) + k
           /\ MakeUp(read \o First(k, socket), After(k, socket), rest, m)
<1>1. Moved(read, socket, rest, k)
  BY BytesMove
<1>2. MakeUp(read \o First(k, socket), After(k, socket), rest, m)
  BY <1>1, Zenon DEF MakeUp, Moved
<1>. QED BY <1>2, BytesMove

\* One write: what is still to be written goes over to the socket.
LEMMA WriteMoves ==
    ASSUME NEW read \in Seq(Bytes), NEW socket \in Seq(Bytes), NEW rest \in Seq(Bytes), NEW m,
           MakeUp(read, socket, rest, m), NEW k \in 1 .. Len(rest)
    PROVE  /\ socket \o First(k, rest) \in Seq(Bytes) /\ After(k, rest) \in Seq(Bytes)
           /\ After(k, rest) = << >> <=> k = Len(rest)
           /\ MakeUp(read, socket \o First(k, rest), After(k, rest), m)
<1>1. /\ First(k, rest) \in Seq(Bytes) /\ After(k, rest) \in Seq(Bytes)
      /\ socket \o First(k, rest) \in Seq(Bytes)
      /\ First(k, rest) \o After(k, rest) = rest /\ Len(After(k, rest)) = Len(rest) - k
  BY BytesMove
<1>2. Glued(socket, First(k, rest), After(k, rest))
  BY <1>1, PiecesAreGlued
<1>3. (socket \o First(k, rest)) \o After(k, rest) = socket \o rest
  BY <1>1, <1>2, Zenon DEF Glued
<1>4. MakeUp(read, socket \o First(k, rest), After(k, rest), m)
  BY <1>3, Zenon DEF MakeUp
<1>5. After(k, rest) = << >> <=> k = Len(rest)
  <2>1. PICK e \in Seq(Bytes) : e = After(k, rest) /\ Len(e) = Len(rest) - k
    BY <1>1
  <2>2. Len(rest) \in Nat /\ (e = << >> <=> Len(e) = 0)
    BY <2>1, LenProperties, EmptySeq
  <2>. QED BY <2>1, <2>2
<1>. QED BY <1>1, <1>4, <1>5

\* A part that has been read to its last byte.
LEMMA ReadInFull ==
    ASSUME NEW read \in Seq(Bytes), NEW socket \in Seq(Bytes), NEW rest \in Seq(Bytes),
           NEW m \in Seq(Bytes), MakeUp(read, socket, rest, m), Len(read) = Len(m)
    PROVE  read = m /\ socket = << >> /\ rest = << >>
<1>1. PICK s \in Seq(Bytes) : s = socket \o rest
  BY Pieces
<1>2. m \o << >> = m /\ << >> \in Seq(Bytes)
  BY ConcatEmptySeq, EmptySeq
<1>3. read \o s = m \o << >>
  BY <1>1, <1>2, Zenon DEF MakeUp
<1>4. read = m /\ s = << >>
  BY <1>1, <1>2, <1>3, SameCut
<1>. QED BY <1>1, <1>4, ConcatSimplifications

\* A length that has been read to its last byte: what follows it is left.
LEMMA LengthInFull ==
    ASSUME NEW read \in Seq(Bytes), NEW socket \in Seq(Bytes), NEW rest \in Seq(Bytes),
           NEW p \in Seq(Bytes), Fits(p), MakeUp(read, socket, rest, Counted(p)), Len(read) = IntLen
    PROVE  deserializeInt(read) = Len(p) /\ MakeUp(<< >>, socket, rest, p)
<1>1. PICK s \in Seq(Bytes) : s = socket \o rest
  BY Pieces
<1>2. Len(p) \in Ints /\ Len(p) \in Int
  BY LengthsAreInts DEF Ints
<1>3. PICK i \in Seq(Bytes) : i = serializeInt(Len(p)) /\ Len(i) = IntLen /\ deserializeInt(i) = Len(p)
  BY <1>2, IntBytes, IntRoundTrip
<1>4. read \o s = i \o p
  BY <1>1, <1>3, Zenon DEF MakeUp, Counted
<1>5. read = i /\ s = p
  BY <1>1, <1>3, <1>4, SameCut
<1>6. << >> \o s = s
  BY <1>1, ConcatEmptySeq
<1>. QED BY <1>1, <1>3, <1>5, <1>6, Zenon DEF MakeUp

\* Nothing has been read or written yet.
LEMMA AllUnsent ==
    ASSUME NEW m \in Seq(Bytes)
    PROVE  MakeUp(<< >>, << >>, m, m)
<1>1. << >> \o m = m
  BY ConcatEmptySeq
<1>. QED BY <1>1, Zenon DEF MakeUp

\* What one read, or write, can move.
LEMMA MovableBytes ==
    ASSUME NEW src \in Seq(Bytes), NEW dst \in Seq(Bytes), NEW limit \in Int,
           NEW k \in Movable(src, dst, limit)
    PROVE  k \in 1 .. Len(src) /\ k \in Nat /\ src # << >> /\ Len(dst) + k <= limit
BY LenProperties, EmptySeq DEF Movable

\* The loop of readn goes on, or has read it all.
LEMMA BeginsOrEnds ==
    ASSUME NEW read \in Seq(Bytes), NEW bytes \in Seq(Bytes), NEW k \in Nat, NEW n \in Int,
           Len(bytes) = Len(read) + k, Len(read) + k <= n
    PROVE  /\ readnEnds(bytes, n) => Len(bytes) = n
           /\ ~readnEnds(bytes, n) => Begins(bytes, n)
BY LenProperties DEF readnEnds, Begins

\* What is known of an answer, and of the message it is sent in.
LEMMA AnswerBytes ==
    ASSUME NEW a \in Answers
    PROVE  /\ answerMessage(a) \in Seq(Bytes) /\ answerMessage(a) # << >>
           /\ a.strings = << >> =>
                /\ Len(answerMessage(a)) = IntLen
                /\ deserializeInt(answerMessage(a)) = a.status /\ a.status <= 0
                /\ a = [status |-> a.status, strings |-> << >>]
           /\ a.strings # << >> =>
                /\ answerMessage(a) = Counted(answerPayload(a.strings))
                /\ answerPayload(a.strings) \in Seq(Bytes) /\ Fits(answerPayload(a.strings))
                /\ Len(answerPayload(a.strings)) > 0 /\ Len(answerPayload(a.strings)) \in Nat
                /\ a = [status |-> 0, strings |-> Strings(answerPayload(a.strings))]
<1>1. CASE \E s \in FileArrays : a = [status |-> 0, strings |-> s]
  <2>1. PICK s \in FileArrays : a = [status |-> 0, strings |-> s]
    BY <1>1
  <2>2. a.strings = s
    BY <2>1
  <2>3. PICK p \in Seq(Bytes) :
          p = answerPayload(s) /\ Len(p) > 0 /\ Fits(p) /\ s # << >> /\ Strings(p) = s
    BY AnswerRoundTrip
  <2>4. Len(p) \in Nat
    BY <2>3, LenProperties
  <2>5. PICK c \in Seq(Bytes) : c = Counted(p) /\ Len(c) = IntLen + Len(p)
    BY <2>3, CountedBytes
  <2>6. c # << >>
    BY <2>4, <2>5, EmptySeq DEF IntLen
  <2>7. answerMessage(a) = Counted(p)
    BY <2>2, <2>3, Zenon DEF answerMessage
  <2>. QED BY <2>1, <2>2, <2>3, <2>4, <2>5, <2>6, <2>7, Zenon
<1>2. CASE a = Ok \/ a = Ko
  <2>1. a.strings = << >> /\ a.status \in {0, -2} /\ a = [status |-> a.status, strings |-> << >>]
    BY <1>2 DEF Ok, Ko
  <2>2. a.status \in Ints /\ a.status \in Int /\ a.status <= 0
    <3>1. IntRange \in Int /\ IntRange >= 16
      <4>1. PICK B \in Nat : B = Base /\ B >= 2
        BY BaseAssumption
      <4>2. PICK C \in Nat : C = B * B /\ C >= 4
        <5>1. B * B >= 2 * B
          BY <4>1
        <5>. QED BY <4>1, <5>1
      <4>3. C * C >= 4 * C
        BY <4>2
      <4>4. B * B * B * B = C * C
        BY <4>1, <4>2
      <4>5. C * C \in Int /\ C * C >= 16
        BY <4>2, <4>3
      <4>. QED BY <4>1, <4>4, <4>5 DEF IntRange
    <3>. QED BY <2>1, <3>1 DEF Ints
  <2>3. answerMessage(a) = serializeInt(a.status)
    BY <2>1, Zenon DEF answerMessage
  <2>4. PICK i \in Seq(Bytes) :
          i = serializeInt(a.status) /\ Len(i) = IntLen /\ deserializeInt(i) = a.status
    BY <2>2, IntBytes, IntRoundTrip
  <2>5. i # << >>
    BY <2>4, EmptySeq DEF IntLen
  <2>. QED BY <2>1, <2>2, <2>3, <2>4, <2>5, Zenon
<1>. QED BY <1>1, <1>2 DEF Answers

----------------------------------------------------------------------------
(* The operations that move bytes, and those that begin a message.         *)

\* A call begins with nothing of an older message left anywhere.
LEMMA CallKeeps ==
    ASSUME WireInv, NEW r \in Requests, Call(r)
    PROVE  WireInv'
<1>. USE NothingElse DEF WireInv, Call, connecting, library, serving
<1>1. PICK m \in Seq(Bytes) : m = Counted(requestPayload(r)) /\ m # << >>
  <2>1. PICK p \in Seq(Bytes) : p = requestPayload(r) /\ Len(p) > 0 /\ Len(p) \in Nat
    BY RequestBytes
  <2>2. PICK m \in Seq(Bytes) : m = Counted(p) /\ Len(m) = IntLen + Len(p)
    BY <2>1, CountedBytes
  <2>3. m # << >>
    BY <2>1, <2>2, EmptySeq DEF IntLen
  <2>. QED BY <2>1, <2>2, <2>3
<1>2. WireTypes'
  BY <1>1 DEF WireTypes
<1>3. Places'
  BY DEF WireTypes, Places, RequestTaken, WorkerKnows, Up, Calling, Connected, Asking
<1>4. RequestOnItsWay'
  <2>1. MakeUp(<< >>, << >>, m, m) /\ Begins(<< >>, IntLen)
    BY <1>1, AllUnsent, EmptySeq DEF Begins, IntLen
  <2>2. call' = r /\ out' = m /\ request' = Nothing /\ given' = Nothing /\ api' = "writing"
    BY <1>1
  <2>3. Connected => in' = << >> /\ toServer' = << >> /\ worker' = "away"
    BY DEF WireTypes, Places, RequestTaken, AnswerOnItsWay, WorkerKnows, Up, Connected, Asking
  <2>4. Connected' = Connected
    BY DEF Connected
  <2>. QED BY <1>1, <2>1, <2>2, <2>3, <2>4, Zenon DEF RequestOnItsWay
<1>5. RequestTaken'
  BY <1>1 DEF WireTypes, Places, RequestTaken, WorkerKnows, Up, Calling, Connected, Asking
<1>6. AnswerOnItsWay'
  BY DEF WireTypes, Places, RequestTaken, AnswerOnItsWay, WorkerKnows, Up, Calling, Asking
<1>7. WorkerKnows'
  BY DEF WireTypes, Places, RequestTaken, AnswerOnItsWay, WorkerKnows, Up, Calling, Connected, Asking
<1>. QED BY <1>2, <1>3, <1>4, <1>5, <1>6, <1>7 DEF WireInv

\* One write moves a request on.
LEMMA WriteRequestKeeps ==
    ASSUME WireInv, WriteRequest
    PROVE  WireInv'
<1>. USE NothingElse DEF WireInv, connecting, library, serving
<1>1. PICK k \in Movable(out, toServer, Capacity) :
        /\ toServer' = toServer \o First(k, out) /\ out' = After(k, out)
        /\ api' = IF k = Len(out) THEN "header" ELSE "writing"
  BY DEF WriteRequest
<1>2. /\ api = "writing" /\ server # "down"
      /\ UNCHANGED <<connecting, toClient, call, got, payload, result, reset, serving>>
  BY DEF WriteRequest
<1>3. out \in Seq(Bytes) /\ toServer \in Seq(Bytes) /\ in \in Seq(Bytes) /\ call \in Requests /\ Connected
      /\ Asking
  BY <1>2 DEF WireTypes, Places, RequestTaken, Up, Calling, Connected, Asking
<1>4. k \in 1 .. Len(out)
  BY <1>3, CapacityAssumption, MovableBytes
<1>5. toServer' \in Seq(Bytes) /\ out' \in Seq(Bytes) /\ (out' = << >> <=> k = Len(out))
  <2>1. MakeUp(in, toServer, out, in \o (toServer \o out))
    BY Zenon DEF MakeUp
  <2>. QED BY <1>1, <1>3, <1>4, <2>1, WriteMoves
<1>6. WireTypes'
  BY <1>1, <1>2, <1>5 DEF WireTypes
<1>7. Places'
  BY <1>1, <1>2, <1>5 DEF WireTypes, Places, RequestTaken, WorkerKnows, Up, Calling, Connected, Asking
<1>8. RequestOnItsWay'
  <2>1. ASSUME NEW m, MakeUp(in, toServer, out, m)
        PROVE  MakeUp(in, toServer', out', m)
    BY <1>1, <1>3, <1>4, <2>1, WriteMoves
  <2>. QED BY <1>1, <1>2, <1>3, <2>1 DEF RequestOnItsWay, Connected, Asking
<1>9. RequestTaken'
  BY <1>1, <1>2, <1>3, <1>5 DEF RequestTaken, Asking
<1>10. AnswerOnItsWay'
  BY <1>1, <1>2, <1>3 DEF AnswerOnItsWay, RequestTaken, Asking, Up
<1>11. WorkerKnows'
  BY <1>1, <1>2, <1>3 DEF WorkerKnows, Asking, Up
<1>. QED BY <1>6, <1>7, <1>8, <1>9, <1>10, <1>11 DEF WireInv

\* The worker reads only what belongs to a request that is on its way.
LEMMA ReadsARequest ==
    ASSUME WireInv, worker \in {"header", "payload"}, toServer # << >>
    PROVE  /\ Up /\ Asking /\ Connected /\ connection = "accepted" /\ call \in Requests
           /\ in \in Seq(Bytes) /\ toServer \in Seq(Bytes) /\ out \in Seq(Bytes) /\ msgSize \in Int
           /\ given = Nothing /\ api # "idle"
BY DEF WireInv, WireTypes, Places, RequestOnItsWay, RequestTaken, WorkerKnows, Up, Connected, Asking

\* One read of the length of a request, the last one included.
LEMMA ReadHeaderKeeps ==
    ASSUME WireInv, ReadHeader
    PROVE  WireInv'
<1>. USE NothingElse DEF WireInv, connecting, library, serving
<1>1. PICK k \in Movable(toServer, in, IntLen) :
        LET bytes == in \o First(k, toServer)
        IN  /\ Reads(k)
            /\ IF ~readnEnds(bytes, IntLen) THEN ReadsOn(bytes)
               ELSE IF Len(bytes) < IntLen THEN Dropped
               ELSE /\ worker' = "payload" /\ msgSize' = deserializeInt(bytes) /\ in' = << >>
                    /\ UNCHANGED request
  BY DEF ReadHeader
<1>2. worker = "header" /\ toServer \in Seq(Bytes) /\ in \in Seq(Bytes) /\ IntLen \in Int
  BY DEF ReadHeader, WireTypes, IntLen
<1>3. k \in 1 .. Len(toServer) /\ k \in Nat /\ toServer # << >> /\ Len(in) + k <= IntLen
  BY <1>2, MovableBytes
<1>4. /\ Up /\ Asking /\ Connected /\ connection = "accepted" /\ call \in Requests
      /\ in \in Seq(Bytes) /\ toServer \in Seq(Bytes) /\ out \in Seq(Bytes) /\ given = Nothing /\ api # "idle"
  BY <1>2, <1>3, ReadsARequest
<1>5. PICK p \in Seq(Bytes) : p = requestPayload(call) /\ Fits(p) /\ Len(p) > 0 /\ Len(p) \in Nat
  BY <1>4, RequestBytes
<1>6. MakeUp(in, toServer, out, Counted(p))
  BY <1>2, <1>4, <1>5, Zenon DEF RequestOnItsWay
<1>7. PICK bytes \in Seq(Bytes), left \in Seq(Bytes) :
        /\ bytes = in \o First(k, toServer) /\ left = After(k, toServer)
        /\ Len(bytes) = Len(in) + k /\ MakeUp(bytes, left, out, Counted(p))
  BY <1>3, <1>4, <1>6, ReadMoves
<1>8. /\ readnEnds(bytes, IntLen) => Len(bytes) = IntLen
      /\ ~readnEnds(bytes, IntLen) => Begins(bytes, IntLen)
  BY <1>2, <1>3, <1>7, BeginsOrEnds
<1>9. /\ toServer' = left
      /\ UNCHANGED <<connecting, toClient, library, given, reply>>
  BY <1>1, <1>7 DEF Reads
<1>10. CASE ~readnEnds(bytes, IntLen)
  <2>1. in' = bytes /\ UNCHANGED <<worker, msgSize, request>>
    BY <1>1, <1>7, <1>10 DEF ReadsOn
  <2>2. WireTypes'
    BY <1>7, <1>9, <2>1 DEF WireTypes
  <2>3. Places'
    BY <1>4, <1>9, <2>1 DEF Places, Up, Calling, Connected, Asking
  <2>4. RequestOnItsWay'
    BY <1>2, <1>4, <1>5, <1>7, <1>8, <1>9, <1>10, <2>1 DEF RequestOnItsWay, Asking, Connected
  <2>5. RequestTaken'
    BY <1>2, <1>4, <1>9, <2>1 DEF RequestTaken, Asking
  <2>6. AnswerOnItsWay'
    BY <1>4, <1>9, <2>1 DEF AnswerOnItsWay, Up
  <2>7. WorkerKnows'
    BY <1>4, <1>9, <2>1 DEF WorkerKnows, Up, Asking
  <2>. QED BY <2>2, <2>3, <2>4, <2>5, <2>6, <2>7 DEF WireInv
<1>11. CASE readnEnds(bytes, IntLen)
  <2>1. Len(bytes) = IntLen /\ ~ (Len(bytes) < IntLen)
    <3>1. Len(bytes) = IntLen
      BY <1>8, <1>11, Zenon
    <3>2. ~ (IntLen < IntLen)
      BY DEF IntLen
    <3>. QED BY <3>1, <3>2, Zenon
  <2>2. worker' = "payload" /\ msgSize' = deserializeInt(bytes) /\ in' = << >> /\ request' = request
    BY <1>1, <1>7, <1>11, <2>1
  <2>3. deserializeInt(bytes) = Len(p) /\ MakeUp(<< >>, left, out, p)
    BY <1>4, <1>5, <1>7, <2>1, LengthInFull
  <2>4. Begins(<< >>, Len(p))
    BY <1>5, EmptySeq DEF Begins
  <2>5. WireTypes'
    BY <1>5, <1>7, <1>9, <2>2, <2>3 DEF WireTypes
  <2>6. Places'
    BY <1>4, <1>9, <2>2 DEF Places, Up, Calling, Connected, Asking
  <2>7. RequestOnItsWay'
    BY <1>4, <1>5, <1>9, <2>2, <2>3, <2>4 DEF RequestOnItsWay, Asking, Connected
  <2>8. RequestTaken'
    BY <1>4, <1>9, <2>2 DEF RequestTaken, Asking
  <2>9. AnswerOnItsWay'
    BY <1>4, <1>9, <2>2 DEF AnswerOnItsWay, Up
  <2>10. WorkerKnows'
    BY <1>4, <1>9, <2>2 DEF WorkerKnows, WireTypes, Up, Asking
  <2>. QED BY <2>5, <2>6, <2>7, <2>8, <2>9, <2>10 DEF WireInv
<1>. QED BY <1>10, <1>11

\* One read of a request; after the last one the request is the one that was made.
LEMMA ReadPayloadKeeps ==
    ASSUME WireInv, ReadPayload
    PROVE  WireInv'
<1>. USE NothingElse DEF WireInv, connecting, library, serving
<1>1. PICK k \in Movable(toServer, in, msgSize) :
        LET bytes == in \o First(k, toServer)
        IN  /\ Reads(k)
            /\ IF ~readnEnds(bytes, msgSize) THEN ReadsOn(bytes)
               ELSE IF Len(bytes) < msgSize THEN Dropped
               ELSE /\ worker' = "performing" /\ request' = new_request(bytes) /\ in' = << >>
                    /\ UNCHANGED msgSize
  BY DEF ReadPayload
<1>2. worker = "payload" /\ toServer \in Seq(Bytes) /\ in \in Seq(Bytes) /\ msgSize \in Int
  BY DEF ReadPayload, WireTypes
<1>3. k \in 1 .. Len(toServer) /\ k \in Nat /\ toServer # << >> /\ Len(in) + k <= msgSize
  BY <1>2, MovableBytes
<1>4. /\ Up /\ Asking /\ Connected /\ connection = "accepted" /\ call \in Requests
      /\ in \in Seq(Bytes) /\ toServer \in Seq(Bytes) /\ out \in Seq(Bytes) /\ given = Nothing /\ api # "idle"
  BY <1>2, <1>3, ReadsARequest
<1>5. PICK p \in Seq(Bytes) : p = requestPayload(call) /\ new_request(p) = call
  BY <1>4, RequestRoundTrip
<1>6. MakeUp(in, toServer, out, p) /\ msgSize = Len(p)
  BY <1>2, <1>4, <1>5, Zenon DEF RequestOnItsWay
<1>7. PICK bytes \in Seq(Bytes), left \in Seq(Bytes) :
        /\ bytes = in \o First(k, toServer) /\ left = After(k, toServer)
        /\ Len(bytes) = Len(in) + k /\ MakeUp(bytes, left, out, p)
  BY <1>3, <1>4, <1>6, ReadMoves
<1>8. /\ readnEnds(bytes, msgSize) => Len(bytes) = msgSize
      /\ ~readnEnds(bytes, msgSize) => Begins(bytes, msgSize)
  BY <1>2, <1>3, <1>7, BeginsOrEnds
<1>9. /\ toServer' = left
      /\ UNCHANGED <<connecting, toClient, library, given, reply>>
  BY <1>1, <1>7 DEF Reads
<1>10. CASE ~readnEnds(bytes, msgSize)
  <2>1. in' = bytes /\ UNCHANGED <<worker, msgSize, request>>
    BY <1>1, <1>7, <1>10 DEF ReadsOn
  <2>2. WireTypes'
    BY <1>7, <1>9, <2>1 DEF WireTypes
  <2>3. Places'
    BY <1>4, <1>9, <2>1 DEF Places, Up, Calling, Connected, Asking
  <2>4. RequestOnItsWay'
    BY <1>2, <1>4, <1>5, <1>6, <1>7, <1>8, <1>9, <1>10, <2>1 DEF RequestOnItsWay, Asking, Connected
  <2>5. RequestTaken'
    BY <1>2, <1>4, <1>9, <2>1 DEF RequestTaken, Asking
  <2>6. AnswerOnItsWay'
    BY <1>4, <1>9, <2>1 DEF AnswerOnItsWay, Up
  <2>7. WorkerKnows'
    BY <1>4, <1>9, <2>1 DEF WorkerKnows, Up, Asking
  <2>. QED BY <2>2, <2>3, <2>4, <2>5, <2>6, <2>7 DEF WireInv
<1>11. CASE readnEnds(bytes, msgSize)
  <2>1. Len(bytes) = msgSize /\ ~ (Len(bytes) < msgSize)
    <3>1. Len(bytes) = msgSize
      BY <1>8, <1>11, Zenon
    <3>2. ~ (msgSize < msgSize)
      BY <1>2
    <3>. QED BY <3>1, <3>2, Zenon
  <2>2. bytes = p /\ left = << >> /\ out = << >>
    <3>1. Len(bytes) = Len(p)
      BY <1>6, <2>1, Zenon
    <3>2. MakeUp(bytes, left, out, p) /\ out \in Seq(Bytes)
      BY <1>4, <1>7, Zenon
    <3>. QED BY <3>1, <3>2, ReadInFull
  <2>3. worker' = "performing" /\ request' = call /\ in' = << >> /\ msgSize' = msgSize
    <3>1. worker' = "performing" /\ request' = new_request(bytes) /\ in' = << >> /\ msgSize' = msgSize
      BY <1>1, <1>7, <1>11, <2>1
    <3>. QED BY <1>5, <2>2, <3>1, Zenon
  <2>4. api # "writing" /\ request = Nothing /\ call # Nothing
    BY <1>4, <2>2 DEF RequestTaken, Asking
  <2>5. WireTypes'
    BY <1>4, <1>7, <1>9, <2>3 DEF WireTypes
  <2>6. Places'
    BY <1>4, <1>9, <2>3, <2>4 DEF Places, Up, Calling, Connected, Asking
  <2>7. RequestOnItsWay'
    BY <1>4, <1>9, <2>3, <2>4 DEF RequestOnItsWay, Asking, Connected
  <2>8. RequestTaken'
    BY <1>4, <1>9, <2>2, <2>3, <2>4 DEF RequestTaken, Asking
  <2>9. AnswerOnItsWay'
    BY <1>4, <1>9, <2>3 DEF AnswerOnItsWay, Up
  <2>10. WorkerKnows'
    BY <1>2, <1>4, <1>9, <2>3, <2>4 DEF WorkerKnows, WireTypes, Up, Asking
  <2>. QED BY <2>5, <2>6, <2>7, <2>8, <2>9, <2>10 DEF WireInv
<1>. QED BY <1>10, <1>11

\* The answer is encoded, all of it still to be written.
LEMMA AnsweredKeeps ==
    ASSUME WireInv, NEW from \in {"performing", "waiting"}, NEW a \in Answers, Answered(from, a)
    PROVE  WireInv'
<1>. USE NothingElse DEF WireInv, Answered, WorkerGoes, connecting, library, serving
<1>1. PICK m \in Seq(Bytes) : m = answerMessage(a) /\ m # << >>
  BY AnswerBytes
<1>2. Up /\ request # Nothing /\ given = Nothing /\ toClient = << >> /\ got = << >> /\ reply = << >>
      /\ api # "payload" /\ api # "idle" /\ connection = "accepted" /\ call # Nothing /\ a # Nothing
  BY DEF WireTypes, Places, RequestTaken, AnswerOnItsWay, WorkerKnows, Up, Asking
<1>3. worker' = "answering" /\ given' = a /\ reply' = m
  BY <1>1
<1>4. WireTypes'
  BY <1>3 DEF WireTypes
<1>5. Places'
  BY <1>2, <1>3 DEF Places, Up, Calling, Connected, Asking
<1>6. RequestOnItsWay'
  BY <1>2, <1>3 DEF RequestOnItsWay, Asking, Connected
<1>7. RequestTaken'
  BY <1>2, <1>3 DEF WireTypes, RequestTaken, Asking
<1>8. AnswerOnItsWay'
  <2>1. MakeUp(<< >>, << >>, m, m) /\ Begins(<< >>, IntLen)
    BY AllUnsent, EmptySeq DEF Begins, IntLen
  <2>2. MakeUp(got, toClient, m, answerMessage(a)) /\ Begins(got, IntLen)
    BY <1>1, <1>2, <2>1, Zenon
  <2>. QED BY <1>2, <1>3, <2>2 DEF AnswerOnItsWay, Up
<1>9. WorkerKnows'
  BY <1>1, <1>2, <1>3 DEF WorkerKnows, Up, Asking
<1>. QED BY <1>4, <1>5, <1>6, <1>7, <1>8, <1>9 DEF WireInv

\* One write moves an answer on.
LEMMA WriteAnswerKeeps ==
    ASSUME WireInv, WriteAnswer
    PROVE  WireInv'
<1>. USE NothingElse DEF WireInv, connecting, library, serving
<1>1. PICK k \in Movable(reply, toClient, Capacity) :
        /\ toClient' = toClient \o First(k, reply) /\ reply' = After(k, reply)
        /\ worker' = IF k = Len(reply) THEN "away" ELSE "answering"
  BY DEF WriteAnswer
<1>2. /\ worker = "answering" /\ api # "gone"
      /\ UNCHANGED <<connecting, toServer, library, in, msgSize, request, given>>
  BY DEF WriteAnswer
<1>3. /\ Up /\ given # Nothing /\ given \in Answers /\ request # Nothing /\ call # Nothing
      /\ api \in {"header", "payload"} /\ connection = "accepted"
      /\ reply \in Seq(Bytes) /\ toClient \in Seq(Bytes) /\ got \in Seq(Bytes) /\ in = << >>
  BY <1>2 DEF WireTypes, Places, RequestTaken, AnswerOnItsWay, WorkerKnows, Up, Calling, Asking
<1>4. k \in 1 .. Len(reply)
  BY <1>3, CapacityAssumption, MovableBytes
<1>5. toClient' \in Seq(Bytes) /\ reply' \in Seq(Bytes) /\ (reply' = << >> <=> k = Len(reply))
  <2>1. MakeUp(got, toClient, reply, got \o (toClient \o reply))
    BY Zenon DEF MakeUp
  <2>. QED BY <1>1, <1>3, <1>4, <2>1, WriteMoves
<1>6. WireTypes'
  BY <1>1, <1>2, <1>5 DEF WireTypes
<1>7. Places'
  BY <1>1, <1>2, <1>3 DEF Places, Up, Calling, Connected, Asking
<1>8. RequestOnItsWay'
  BY <1>1, <1>2, <1>3 DEF RequestOnItsWay, Connected, Asking
<1>9. RequestTaken'
  BY <1>1, <1>2, <1>3, <1>5 DEF RequestTaken, Asking
<1>10. AnswerOnItsWay'
  <2>1. ASSUME NEW m, MakeUp(got, toClient, reply, m)
        PROVE  MakeUp(got, toClient', reply', m)
    BY <1>1, <1>3, <1>4, <2>1, WriteMoves
  <2>. QED BY <1>1, <1>2, <1>3, <2>1 DEF AnswerOnItsWay, Up
<1>11. WorkerKnows'
  BY <1>1, <1>2, <1>3, <1>5 DEF WorkerKnows, Asking, Up
<1>. QED BY <1>6, <1>7, <1>8, <1>9, <1>10, <1>11 DEF WireInv

\* The last byte of an answer has been read.
AnswerTaken ==
    /\ api' = "idle" /\ result' = given /\ got' = << >> /\ toClient' = << >> /\ reply = << >>
    /\ UNCHANGED <<payload, connecting, toServer, call, out, reset, serving>>

\* With that the call returns what was given for it.
LEMMA AnswerTakenKeeps ==
    ASSUME WireInv, api \in {"header", "payload"}, given \in Answers, AnswerTaken
    PROVE  WireInv'
<1>. USE NothingElse DEF WireInv, AnswerTaken, connecting, library, serving
<1>1. WireTypes'
  BY DEF WireTypes
<1>2. Places'
  BY DEF WireTypes, Places, RequestTaken, WorkerKnows, Up, Calling, Connected, Asking
<1>3. RequestOnItsWay'
  BY DEF RequestOnItsWay, Connected, Asking
<1>4. RequestTaken'
  BY DEF RequestTaken, Asking
<1>5. AnswerOnItsWay'
  BY DEF Places, AnswerOnItsWay, Up, Calling
<1>6. WorkerKnows'
  BY DEF WorkerKnows, Up, Asking
<1>. QED BY <1>1, <1>2, <1>3, <1>4, <1>5, <1>6 DEF WireInv

\* An answer is in transit in the part that is being read.
LEMMA ReadsAnAnswer ==
    ASSUME WireInv, api \in {"header", "payload"}, toClient # << >>
    PROVE  /\ given \in Answers /\ given # Nothing /\ request # Nothing /\ call # Nothing
           /\ got \in Seq(Bytes) /\ toClient \in Seq(Bytes) /\ reply \in Seq(Bytes) /\ payload \in Int
           /\ (Connected \/ ~Up) /\ connection # "none" /\ connection # "closing"
BY DEF WireInv, WireTypes, Places, RequestTaken, AnswerOnItsWay, Up, Calling, Connected, Asking

\* The part that is being read is still incomplete.
LEMMA AnswerGoesOnKeeps ==
    ASSUME WireInv, api \in {"header", "payload"}, given \in Answers,
           NEW bytes \in Seq(Bytes), NEW left \in Seq(Bytes), NEW size \in Int, NEW m,
           IF api = "header" THEN size = IntLen /\ m = answerMessage(given)
           ELSE size = payload /\ m = answerPayload(given.strings),
           MakeUp(bytes, left, reply, m), Begins(bytes, size),
           got' = bytes, toClient' = left,
           UNCHANGED <<api, payload, result, connecting, toServer, call, out, reset, serving>>
    PROVE  WireInv'
<1>. USE NothingElse DEF WireInv, connecting, library, serving
<1>1. WireTypes'
  BY DEF WireTypes
<1>2. Places'
  BY DEF Places, Up, Calling, Connected, Asking
<1>3. RequestOnItsWay'
  BY DEF RequestOnItsWay, Connected, Asking
<1>4. RequestTaken'
  BY DEF RequestTaken, Asking
<1>5. AnswerOnItsWay'
  BY DEF AnswerOnItsWay, Up
<1>6. WorkerKnows'
  BY DEF WorkerKnows, Up, Asking
<1>. QED BY <1>1, <1>2, <1>3, <1>4, <1>5, <1>6 DEF WireInv

\* A length has been read, and what it is the length of comes next.
LEMMA PayloadBeginsKeeps ==
    ASSUME WireInv, api = "header", given \in Answers, given.strings # << >>,
           NEW left \in Seq(Bytes), NEW p \in Seq(Bytes), p = answerPayload(given.strings), Len(p) > 0,
           MakeUp(<< >>, left, reply, p),
           got' = << >>, toClient' = left, api' = "payload", payload' = Len(p),
           UNCHANGED <<result, connecting, toServer, call, out, reset, serving>>
    PROVE  WireInv'
<1>. USE NothingElse DEF WireInv, connecting, library, serving
<1>0. Len(p) \in Nat /\ Begins(<< >>, Len(p))
  BY LenProperties, EmptySeq DEF Begins
<1>1. WireTypes'
  BY <1>0 DEF WireTypes
<1>2. Places'
  BY DEF Places, Up, Calling, Connected, Asking
<1>3. RequestOnItsWay'
  BY DEF RequestOnItsWay, Connected, Asking
<1>4. RequestTaken'
  BY DEF RequestTaken, Asking
<1>5. AnswerOnItsWay'
  BY <1>0 DEF AnswerOnItsWay, Up
<1>6. WorkerKnows'
  BY DEF WorkerKnows, Up, Asking
<1>. QED BY <1>1, <1>2, <1>3, <1>4, <1>5, <1>6 DEF WireInv

\* One read of an answer, in either of its parts, the last one included.
LEMMA ReadAnswerKeeps ==
    ASSUME WireInv, ReadAnswer
    PROVE  WireInv'
<1>0. /\ api \in {"header", "payload"}
      /\ UNCHANGED <<connecting, toServer, call, out, reset, serving>>
  BY DEF ReadAnswer
<1>1. PICK size, k : /\ size = IF api = "header" THEN IntLen ELSE payload
                     /\ k \in Movable(toClient, got, size)
                     /\ LET bytes == got \o First(k, toClient)
                        IN  /\ toClient' = After(k, toClient)
                            /\ IF ~readnEnds(bytes, size)
                               THEN got' = bytes /\ UNCHANGED <<api, payload, result>>
                               ELSE IF api = "header" THEN HeaderRead(bytes)
                               ELSE PayloadRead(bytes)
  BY DEF ReadAnswer
<1>2. toClient \in Seq(Bytes) /\ got \in Seq(Bytes) /\ size \in Int
  BY <1>1 DEF WireInv, WireTypes, IntLen
<1>3. k \in 1 .. Len(toClient) /\ k \in Nat /\ toClient # << >> /\ Len(got) + k <= size
  BY <1>1, <1>2, MovableBytes
<1>4. /\ given \in Answers /\ given # Nothing /\ reply \in Seq(Bytes)
  BY <1>0, <1>3, ReadsAnAnswer
<1>5. PICK m \in Seq(Bytes) :
        /\ m = IF api = "header" THEN answerMessage(given) ELSE answerPayload(given.strings)
        /\ MakeUp(got, toClient, reply, m)
        /\ api = "payload" => given.strings # << >> /\ size = Len(m)
  <2>1. CASE api = "header"
    BY <1>4, <2>1, AnswerBytes DEF WireInv, AnswerOnItsWay
  <2>2. CASE api = "payload"
    BY <1>1, <1>4, <2>2, AnswerBytes DEF WireInv, AnswerOnItsWay
  <2>. QED BY <1>0, <2>1, <2>2
<1>6. PICK bytes \in Seq(Bytes), left \in Seq(Bytes) :
        /\ bytes = got \o First(k, toClient) /\ left = After(k, toClient)
        /\ Len(bytes) = Len(got) + k /\ MakeUp(bytes, left, reply, m)
  BY <1>2, <1>3, <1>4, <1>5, ReadMoves, ZenonT(30)
<1>7. /\ readnEnds(bytes, size) => Len(bytes) = size
      /\ ~readnEnds(bytes, size) => Begins(bytes, size)
  BY <1>2, <1>3, <1>6, BeginsOrEnds
<1>8. toClient' = left
  BY <1>1, <1>6
<1>9. CASE ~readnEnds(bytes, size)
  <2>1. got' = bytes /\ UNCHANGED <<api, payload, result>>
    BY <1>1, <1>6, <1>9
  <2>2. Begins(bytes, size) /\ MakeUp(bytes, left, reply, m)
    BY <1>6, <1>7, <1>9, Zenon
  <2>3. IF api = "header" THEN size = IntLen /\ m = answerMessage(given)
        ELSE size = payload /\ m = answerPayload(given.strings)
    BY <1>1, <1>5
  <2>. QED BY <1>0, <1>2, <1>4, <1>8, <2>1, <2>2, <2>3, AnswerGoesOnKeeps
<1>10. CASE readnEnds(bytes, size) /\ api = "header"
  <2>1. size = IntLen /\ m = answerMessage(given) /\ Len(bytes) = IntLen
    BY <1>1, <1>5, <1>7, <1>10, Zenon
  <2>2. HeaderRead(bytes)
    BY <1>1, <1>6, <1>10
  <2>3. CASE given.strings = << >>
    <3>1. /\ Len(m) = IntLen /\ deserializeInt(m) = given.status /\ given.status <= 0
          /\ given = [status |-> given.status, strings |-> << >>]
      BY <1>4, <2>1, <2>3, AnswerBytes
    <3>2. Len(bytes) = Len(m) /\ MakeUp(bytes, left, reply, m)
      BY <1>6, <2>1, <3>1, Zenon
    <3>3. bytes = m /\ left = << >> /\ reply = << >>
      BY <1>4, <3>2, ReadInFull
    <3>4. deserializeInt(bytes) = given.status
      BY <3>1, <3>3, Zenon
    <3>5. Returns([status |-> given.status, strings |-> << >>])
      BY <2>1, <2>2, <3>1, <3>4, Zenon DEF HeaderRead
    <3>6. Returns(given)
      BY <3>1, <3>5, Zenon
    <3>7. AnswerTaken
      BY <1>0, <1>8, <3>3, <3>6, Zenon DEF AnswerTaken, Returns
    <3>. QED BY <1>0, <1>4, <3>7, AnswerTakenKeeps
  <2>4. CASE given.strings # << >>
    <3>1. PICK p \in Seq(Bytes) :
            /\ p = answerPayload(given.strings) /\ answerMessage(given) = Counted(p)
            /\ Fits(p) /\ Len(p) > 0 /\ Len(p) \in Nat
      BY <1>4, <2>4, AnswerBytes
    <3>2. MakeUp(bytes, left, reply, Counted(p))
      BY <1>6, <2>1, <3>1, Zenon
    <3>3. deserializeInt(bytes) = Len(p) /\ MakeUp(<< >>, left, reply, p)
      BY <1>4, <2>1, <3>1, <3>2, LengthInFull
    <3>4. ~ (Len(p) <= 0)
      BY <3>1
    <3>5. api' = "payload" /\ payload' = Len(p) /\ got' = << >> /\ UNCHANGED result
      BY <2>1, <2>2, <3>3, <3>4, Zenon DEF HeaderRead
    <3>. QED BY <1>0, <1>4, <1>8, <1>10, <2>4, <3>1, <3>3, <3>5, PayloadBeginsKeeps
  <2>. QED BY <2>3, <2>4
<1>11. CASE readnEnds(bytes, size) /\ api = "payload"
  <2>1. size = payload /\ m = answerPayload(given.strings) /\ Len(bytes) = Len(m) /\ Len(bytes) = payload
    BY <1>1, <1>5, <1>7, <1>11
  <2>2. PayloadRead(bytes)
    BY <1>1, <1>6, <1>11
  <2>3. bytes = m /\ left = << >> /\ reply = << >>
    <3>1. MakeUp(bytes, left, reply, m) /\ Len(bytes) = Len(m)
      BY <1>6, <2>1, Zenon
    <3>. QED BY <1>4, <3>1, ReadInFull
  <2>4. given = [status |-> 0, strings |-> Strings(m)]
    BY <1>4, <1>5, <1>11, <2>1, AnswerBytes
  <2>5. Returns([status |-> 0, strings |-> Strings(bytes)])
    BY <2>1, <2>2, Zenon DEF PayloadRead
  <2>6. Returns(given)
    BY <2>3, <2>4, <2>5, Zenon
  <2>7. AnswerTaken
    BY <1>0, <1>8, <2>3, <2>6, Zenon DEF AnswerTaken, Returns
  <2>. QED BY <1>0, <1>4, <2>7, AnswerTakenKeeps
<1>. QED BY <1>0, <1>9, <1>10, <1>11

----------------------------------------------------------------------------
(***************************************************************************)
(* The invariant holds: the bytes that have been read, those in the socket *)
(* and those still to be written make up one message, of the last call or  *)
(* the answer to it, and no byte belongs to another (api.c:48-163,         *)
(* worker.c:36-130).                                                       *)
(***************************************************************************)
THEOREM WireInvariance == Spec => []WireInv
<1>1. Init => WireInv
  BY InitEstablishes
<1>2. ASSUME WireInv, [Next]_vars
      PROVE  WireInv'
  <2>1. CASE UNCHANGED vars
    BY <1>2, <2>1 DEF vars, connecting, library, serving, WireInv, WireTypes, Places,
        RequestOnItsWay, RequestTaken, AnswerOnItsWay, WorkerKnows, Up, Calling, Connected, Asking
  <2>2. CASE Listen \/ Connect \/ SleepOver \/ Accept \/ Signal \/ Exit \/ Leave \/ Close
    BY <1>2, <2>2, ListenKeeps, ConnectKeeps, SleepOverKeeps, AcceptKeeps, SignalKeeps, ExitKeeps,
       LeaveKeeps, CloseKeeps
  <2>3. CASE Library
    BY <1>2, <2>3, WriteRequestKeeps, BrokenPipeKeeps, ReadAnswerKeeps, AnswerLostKeeps, CallKeeps
       DEF Library
  <2>4. CASE Pick \/ Iteration
    <3>1. CASE \E a \in Answers : Perform(a)
      BY <1>2, <3>1, AnsweredKeeps DEF Perform
    <3>2. CASE Pick \/ ReadHeader \/ ReadPayload \/ ReadFails \/ WriteAnswer \/ WriteFails
      BY <1>2, <3>2, PickKeeps, ReadHeaderKeeps, ReadPayloadKeeps, ReadFailsKeeps, WriteAnswerKeeps,
         WriteFailsKeeps
    <3>. QED BY <2>4, <3>1, <3>2 DEF Iteration
  <2>5. CASE Queue
    BY <1>2, <2>5, QueueKeeps
  <2>6. CASE \E a \in {Ok, Ko} : Notify(a)
    <3>1. PICK a \in Answers : Notify(a)
      BY <2>6, NothingElse
    <3>. QED BY <1>2, <3>1, AnsweredKeeps DEF Notify
  <2>. QED BY <1>2, <2>1, <2>2, <2>3, <2>4, <2>5, <2>6 DEF Next
<1>. QED BY <1>1, <1>2, PTL DEF Spec

(***************************************************************************)
(* The request a worker performs is the one the library was called for,    *)
(* and a call returns the answer to it, or that the server is gone:        *)
(* whatever is in the messages, and however they are cut (api.c:48-163,    *)
(* worker.c:36-73, request.c:17-60).                                       *)
(***************************************************************************)
THEOREM WhatIsSentArrives == Spec => []MessagesArriveAsSent
<1>1. WireInv => MessagesArriveAsSent
  BY DEF WireInv, RequestTaken, AnswerOnItsWay, MessagesArriveAsSent, Up
<1>. QED BY <1>1, WireInvariance, PTL

----------------------------------------------------------------------------
(* The exchange of single requests and answers.                            *)

\* A step of Exchange, or the end of the server, or nothing that can be seen.
ExchangeStep == [Seen!Next \/ Seen!Stop]_<<clientSeen, unreadSeen>>

\* What neither end can see.
LEMMA UnseenSteps ==
    ASSUME WireInv, WireInv',
           \/ UNCHANGED vars \/ Listen \/ SleepOver \/ Accept \/ Signal \/ WriteRequest \/ BrokenPipe
           \/ AnswerLost \/ Pick \/ ReadHeader \/ Queue \/ WriteFails
           \/ \E from \in {"performing", "waiting"}, a \in Answers : Answered(from, a)
    PROVE  ExchangeStep
<1>1. SUFFICES UNCHANGED <<clientSeen, unreadSeen>>
  BY DEF ExchangeStep
<1>. USE NothingElse DEF WireInv, clientSeen, unreadSeen, Calling, Replied, connecting, library, serving
<1>2. CASE UNCHANGED vars
  BY <1>2 DEF vars
<1>3. CASE Listen
  BY <1>3 DEF Listen
<1>4. CASE SleepOver
  BY <1>4 DEF SleepOver, Places
<1>5. CASE Accept
  BY <1>5 DEF Accept
<1>6. CASE Signal
  BY <1>6 DEF Signal
<1>7. CASE WriteRequest
  BY <1>7 DEF WriteRequest
<1>8. CASE BrokenPipe
  BY <1>8 DEF BrokenPipe, Places, Up
<1>9. CASE AnswerLost
  BY <1>9 DEF AnswerLost, Returns, Places, Up
<1>10. CASE Pick
  BY <1>10 DEF Pick, WorkerGoes
<1>11. CASE ReadHeader
  BY <1>11 DEF ReadHeader, Reads, ReadsOn, Dropped
<1>12. CASE Queue
  BY <1>12 DEF Queue, WorkerGoes
<1>13. CASE WriteFails
  BY <1>13 DEF WriteFails, WorkerGoes
<1>14. CASE \E from \in {"performing", "waiting"}, a \in Answers : Answered(from, a)
  <2>1. PICK from \in {"performing", "waiting"}, a \in Answers : Answered(from, a)
    BY <1>14
  <2>2. given = Nothing /\ worker' = "answering" /\ Up /\ request # Nothing
    BY <2>1 DEF Answered, WorkerGoes, WorkerKnows, Up
  <2>3. reply' # << >>
    BY <2>2 DEF WorkerKnows
  <2>. QED BY <2>1, <2>2, <2>3 DEF Answered, WorkerGoes
<1>. QED BY <1>2, <1>3, <1>4, <1>5, <1>6, <1>7, <1>8, <1>9, <1>10, <1>11, <1>12, <1>13, <1>14

\* The client comes, asks, and goes.
LEMMA ClientSteps ==
    ASSUME WireInv, WireInv', Connect \/ Leave \/ (\E r \in Requests : Call(r)) \/ Exit \/ Close
    PROVE  ExchangeStep
<1>. USE NothingElse DEF WireInv, clientSeen, unreadSeen, Calling, Replied, connecting, library, serving
<1>1. CASE Connect
  BY <1>1 DEF Connect, Places, ExchangeStep, Seen!Next, Seen!Connect, Seen!Becomes
<1>2. CASE \E r \in Requests : Call(r)
  <2>1. PICK r \in Requests : Call(r)
    BY <1>2
  <2>2. CASE Connected
    <3>1. clientSeen = "idle" /\ ~unreadSeen
      BY <2>1, <2>2 DEF Call, Connected, Places, WorkerKnows, RequestTaken, Up
    <3>2. clientSeen' = "asked" /\ unreadSeen'
      BY <2>1, <2>2 DEF Call, Connected
    <3>. QED BY <3>1, <3>2 DEF ExchangeStep, Seen!Next, Seen!Ask, Seen!Becomes
  <2>3. CASE ~Connected
    <3>1. connection = "closed" /\ connection' = "closed"
      BY <2>1, <2>3 DEF Call, Places, Up
    <3>. QED BY <3>1 DEF ExchangeStep
  <2>. QED BY <2>2, <2>3
<1>3. CASE Exit
  BY <1>3 DEF Exit, ExchangeStep, Seen!Stop
<1>4. CASE Close
  <2>1. clientSeen = "gone" /\ ~unreadSeen
    BY <1>4 DEF Close, Places, Asking
  <2>2. clientSeen' = "none" /\ ~unreadSeen'
    BY <1>4 DEF Close
  <2>. QED BY <2>1, <2>2 DEF ExchangeStep, Seen!Next, Seen!Close, Seen!Becomes
<1>5. CASE Leave
  <2>1. CASE ~Connected
    <3>1. connection = "closed" /\ connection' = "closed"
      BY <1>5, <2>1 DEF Leave, Places, Up
    <3>. QED BY <3>1 DEF ExchangeStep
  <2>2. CASE Connected
    <3>1. reset' => ~unreadSeen /\ ~unreadSeen'
      BY <1>5, <2>2 DEF Leave, AnswerOnItsWay, RequestTaken
    <3>2. clientSeen' = (IF reset' THEN "reset" ELSE "gone") /\ reset' \in BOOLEAN
      BY <1>5, <2>2 DEF Leave, Connected, WireTypes
    <3>3. clientSeen = (IF Calling /\ ~Replied THEN "asked" ELSE "idle")
      BY <1>5, <2>2 DEF Leave, Connected
    <3>4. ~(Calling /\ ~Replied) => ~unreadSeen /\ ~unreadSeen'
      BY <1>5, <2>2 DEF Leave, AnswerOnItsWay, RequestTaken, WorkerKnows, Places, Connected, Up
    <3>5. unreadSeen' => unreadSeen
      BY <1>5, <2>2 DEF Leave, Connected
    <3>6. unreadSeen \in BOOLEAN /\ unreadSeen' \in BOOLEAN
      OBVIOUS
    <3>7. CASE reset'
      <4>1. clientSeen \in {"idle", "asked"} /\ clientSeen' = "reset" /\ ~unreadSeen /\ unreadSeen' = unreadSeen
        BY <3>1, <3>2, <3>3, <3>6, <3>7
      <4>. QED BY <4>1 DEF ExchangeStep, Seen!Next, Seen!Crash, Seen!Becomes
    <3>8. CASE ~reset' /\ Calling /\ ~Replied
      <4>1. clientSeen = "asked" /\ clientSeen' = "gone" /\ (unreadSeen' = unreadSeen \/ (unreadSeen /\ unreadSeen' = FALSE))
        BY <3>2, <3>3, <3>5, <3>6, <3>8
      <4>. QED BY <4>1 DEF ExchangeStep, Seen!Next, Seen!Crash, Seen!Becomes
    <3>9. CASE ~reset' /\ ~(Calling /\ ~Replied)
      <4>1. clientSeen = "idle" /\ clientSeen' = "gone" /\ unreadSeen' = unreadSeen
        BY <3>2, <3>3, <3>4, <3>6, <3>9
      <4>. QED BY <4>1 DEF ExchangeStep, Seen!Next, Seen!Disconnect, Seen!Becomes
    <3>. QED BY <3>2, <3>7, <3>8, <3>9
  <2>. QED BY <2>1, <2>2
<1>. QED BY <1>1, <1>2, <1>3, <1>4, <1>5

\* The worker takes a request with its last byte, and finds out that the client has gone.
LEMMA WorkerSteps ==
    ASSUME WireInv, WireInv', ReadPayload \/ ReadFails \/ WriteAnswer
    PROVE  ExchangeStep
<1>. USE NothingElse DEF WireInv, clientSeen, unreadSeen, Calling, Replied, connecting, library, serving
<1>1. CASE ReadPayload
  <2>1. /\ worker = "payload" /\ UNCHANGED <<connecting, library, given, reply>>
        /\ request' = request \/ worker' = "performing"
    BY <1>1 DEF ReadPayload, Reads, ReadsOn, Dropped
  <2>2. CASE request' = request
    BY <2>1, <2>2 DEF ExchangeStep
  <2>3. CASE request' # request
    <3>1. Up /\ Up' /\ Asking /\ connection = "accepted"
      BY <2>1 DEF Places, WorkerKnows, Up
    <3>2. request' # Nothing /\ out' = << >>
      BY <2>1, <2>3, <3>1 DEF WorkerKnows, RequestTaken
    <3>3. unreadSeen /\ ~unreadSeen' /\ clientSeen' = clientSeen
      BY <2>1, <3>1, <3>2 DEF Asking
    <3>. QED BY <3>3 DEF ExchangeStep, Seen!Next, Seen!Take
  <2>. QED BY <2>2, <2>3
<1>2. CASE ReadFails
  <2>1. /\ connection = "accepted" /\ connection' \in {"accepted", "closing"} /\ api = "gone" /\ api' = "gone"
        /\ ~reset' /\ UNCHANGED <<call, out, request>>
    BY <1>2 DEF ReadFails, WorkerGoes, WorkerKnows, Up
  <2>2. unreadSeen' = unreadSeen /\ clientSeen' = "gone"
    BY <2>1
  <2>3. clientSeen = (IF reset THEN "reset" ELSE "gone")
    BY <2>1
  <2>. QED BY <2>2, <2>3 DEF ExchangeStep, Seen!Next, Seen!Fail, Seen!Becomes
<1>3. CASE WriteAnswer
  <2>1. /\ worker = "answering" /\ api # "gone"
        /\ UNCHANGED <<connecting, api, call, out, request, given>>
    BY <1>3 DEF WriteAnswer
  <2>2. Up /\ connection = "accepted" /\ given # Nothing /\ reply # << >> /\ request # Nothing /\ call # Nothing
    BY <2>1 DEF Places, WorkerKnows, RequestTaken, Up
  <2>3. Calling
    BY <2>1, <2>2 DEF WireTypes, Places, AnswerOnItsWay
  <2>4. clientSeen = "asked" /\ ~unreadSeen /\ ~unreadSeen'
    BY <2>1, <2>2, <2>3
  <2>5. clientSeen' \in {"idle", "asked"}
    BY <2>1, <2>2, <2>3
  <2>. QED BY <2>4, <2>5 DEF ExchangeStep, Seen!Next, Seen!Answer, Seen!Becomes
<1>. QED BY <1>1, <1>2, <1>3

\* The answer counts when its last byte is written: reading it changes nothing.
LEMMA AnswerReadSteps ==
    ASSUME WireInv, WireInv', ReadAnswer
    PROVE  ExchangeStep
<1>1. /\ api \in {"header", "payload"} /\ api' \in {"header", "payload", "idle"}
      /\ UNCHANGED <<connection, call, out, request, given, reply>>
  BY DEF ReadAnswer, HeaderRead, PayloadRead, Returns, connecting, serving
<1>2. toClient # << >>
  <2>1. PICK size, k : k \in Movable(toClient, got, size)
    BY DEF ReadAnswer
  <2>2. toClient \in Seq(Bytes)
    BY DEF WireInv, WireTypes
  <2>. QED BY <2>1, <2>2, EmptySeq DEF Movable
<1>3. given # Nothing /\ request # Nothing
  BY <1>2 DEF WireInv, AnswerOnItsWay, RequestTaken
<1>4. api' = "idle" => reply = << >>
  BY <1>1 DEF WireInv, AnswerOnItsWay
<1>5. UNCHANGED <<clientSeen, unreadSeen>>
  BY <1>1, <1>3, <1>4 DEF clientSeen, unreadSeen, Calling, Replied
<1>. QED BY <1>5 DEF ExchangeStep

(***************************************************************************)
(* However its messages are cut into reads and writes, and whoever ends in *)
(* the middle of one, a connection is the exchange of single requests and  *)
(* answers that Server is built on: a request is taken with its last byte, *)
(* once, and answered with the last byte of the answer; nobody is asked    *)
(* again before that (comunication.c:20-66, worker.c:36-130,               *)
(* api.c:48-163).                                                          *)
(***************************************************************************)
THEOREM ConnectionImplementsExchange == Spec => ImplementsExchange
<1>1. Init => Seen!Init
  BY NothingElse DEF Init, Seen!Init, clientSeen, unreadSeen
<1>2. ASSUME WireInv, WireInv', [Next]_vars
      PROVE  ExchangeStep
  <2>1. CASE \E a \in Answers : Perform(a) \/ (a \in {Ok, Ko} /\ Notify(a))
    <3>1. \E from \in {"performing", "waiting"}, a \in Answers : Answered(from, a)
      BY <2>1 DEF Perform, Notify
    <3>. QED BY <1>2, <3>1, UnseenSteps
  <2>2. CASE \/ UNCHANGED vars \/ Listen \/ SleepOver \/ Accept \/ Signal \/ WriteRequest \/ BrokenPipe
             \/ AnswerLost \/ Pick \/ ReadHeader \/ Queue \/ WriteFails
    BY <1>2, <2>2, UnseenSteps
  <2>3. CASE Connect \/ Leave \/ (\E r \in Requests : Call(r)) \/ Exit \/ Close
    BY <1>2, <2>3, ClientSteps
  <2>4. CASE ReadPayload \/ ReadFails \/ WriteAnswer
    BY <1>2, <2>4, WorkerSteps
  <2>5. CASE ReadAnswer
    BY <1>2, <2>5, AnswerReadSteps
  <2>. QED BY <1>2, <2>1, <2>2, <2>3, <2>4, <2>5, NothingElse DEF Next, Library, Iteration
<1>. QED BY <1>1, <1>2, WireInvariance, PTL DEF Spec, ExchangeStep, ImplementsExchange, Seen!SpecWithStop

=============================================================================
